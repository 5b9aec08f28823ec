--------------------------- MODULE QueueingProofs ---------------------------
(***************************************************************************)
(* For any set of keys, any pool of tasks, any worker limit and any number *)
(* of events, the multiplexer never processes an object in two tasks at    *)
(* once and never loses or reorders an event while it serves; and it       *)
(* implements the streams per object (ObjectStreams).                      *)
(***************************************************************************)
EXTENDS Queueing, FiniteSetTheorems, SequenceTheorems, TLAPS

-----------------------------------------------------------------------------
(* The inductive invariant.                                                *)

(* The dict and the tasks agree: a stream belongs to a task of its own key *)
(* and every task which is not yet over owns the stream of its key.        *)
StreamsMatchWorkers ==
  /\ \A k \in Keys : streams[k] # NoWorker => keyOf[streams[k]] = k
  /\ \A w \in Workers : job[w] \in LiveStates => streams[keyOf[w]] = w

(* The scheduler's queue holds each pending task once, and nothing else.   *)
PendingIsPending ==
  /\ \A i \in 1..Len(pending) : job[pending[i]] = "pending"
  /\ \A i, j \in 1..Len(pending) : pending[i] = pending[j] => i = j

(* Nothing is cancelled before the scheduler is closed, so that a stream   *)
(* has a task which is not over.                                           *)
ServedUntilClosed ==
  ~SchedulerClosed =>
    /\ cancelled = {}
    /\ \A k \in Keys : streams[k] # NoWorker => job[streams[k]] \in LiveStates

(* A task holds an event exactly while it is in the processor.             *)
EventWhileProcessing ==
  \A w \in Workers : event[w] # 0 <=> job[w] = "processing"

(* What a stream contains while the operator serves.                       *)
Held(w) == IF event[w] = 0 THEN 0 ELSE 1

Accounted(k) ==
  IF streams[k] = NoWorker THEN handled[k] = sent[k]
  ELSE LET w == streams[k] IN
       /\ event[w] # 0 => event[w] = handled[k] + 1
       /\ sent[k] = handled[k] + Held(w) + Len(backlog[w])
       /\ \A i \in 1..Len(backlog[w]) : backlog[w][i] = handled[k] + Held(w) + i

AllAccounted == phase = "streaming" /\ NoFailure => \A k \in Keys : Accounted(k)

(* The same with n marks of the end behind the events, none or one.        *)
AccountedBut(k, n) ==
  IF streams[k] = NoWorker THEN handled[k] = sent[k]
  ELSE LET w == streams[k] IN
       /\ event[w] # 0 => event[w] = handled[k] + 1
       /\ Len(backlog[w]) >= n
       /\ sent[k] = handled[k] + Held(w) + Len(backlog[w]) - n
       /\ \A i \in 1..(Len(backlog[w]) - n) : backlog[w][i] = handled[k] + Held(w) + i
       /\ n = 1 => backlog[w][Len(backlog[w])] = EOS

(* Before the depletion there are no marks of the end in the streams.      *)
UnmarkedBefore ==
  phase \in {"streaming", "cancelled", "raised"} =>
    \A k \in Keys : streams[k] # NoWorker =>
      \A i \in 1..Len(backlog[streams[k]]) : backlog[streams[k]][i] # EOS

(* The flag is up for all that is in a stream but the mark of its end.     *)
Pressed ==
  \A k \in Keys :
    streams[k] # NoWorker /\ backlog[streams[k]] # <<>> /\ backlog[streams[k]] # <<EOS>>
      => pressure[streams[k]]

(* The scheduler's queue has all the pending tasks.                        *)
PendingIsListed ==
  \A w \in Workers : job[w] = "pending" => \E i \in 1..Len(pending) : pending[i] = w

(* What the streams contain while the watcher unwinds in good order.       *)
Draining ==
  NoFailure /\ ~forced =>
    /\ phase \in {"cancelled", "raised"} => \A k \in Keys : AccountedBut(k, 0)
    /\ phase = "depleting" => \A k \in Keys : AccountedBut(k, 1)
    /\ phase \in {"closing", "waiting", "closed"} =>
          \A k \in Keys : streams[k] = NoWorker /\ handled[k] = sent[k]

IInv ==
  /\ TypeOK
  /\ WithinLimit
  /\ StreamsMatchWorkers
  /\ PendingIsPending
  /\ ServedUntilClosed
  /\ EventWhileProcessing
  /\ AllAccounted
  /\ UnmarkedBefore
  /\ Pressed
  /\ PendingIsListed
  /\ Draining

-----------------------------------------------------------------------------
USE QueueingAssumption DEF EOS

(* How many workers the spawner starts: as many as allowed and available.  *)
SpawnCount == IF Capacity < Len(pending) THEN Capacity ELSE Len(pending)
Spawned == {pending[i] : i \in 1..SpawnCount}

LEMMA RunningIsFinite ==
  IsFiniteSet(Running) /\ Cardinality(Running) \in Nat
<1>1. Running \in SUBSET Workers
  BY DEF Running
<1> QED
  BY <1>1, FS_Subset, FS_CardinalityType

LEMMA SpawnCountType ==
  ASSUME TypeOK, WithinLimit
  PROVE  /\ SpawnCount \in 0..Len(pending)
         /\ SpawnCount <= Limit - Cardinality(Running)
         /\ Spawned \in SUBSET Workers
BY RunningIsFinite DEF TypeOK, WithinLimit, SpawnCount, Capacity, Spawned

LEMMA NextTypeOK ==
  ASSUME TypeOK, WithinLimit, Next
  PROVE  TypeOK'
<1> USE DEF TypeOK, Phases, Waiters, JobStates, RunningStates,
            watcherVars, streamVars, schedulerVars
<1>1. ASSUME NEW k \in Keys, ReceiveKnown(k) PROVE TypeOK'
  BY <1>1 DEF ReceiveKnown, PressureOnArrival, HasStream
<1>2. ASSUME NEW k \in Keys, NEW w \in Workers, ReceiveNew(k, w) PROVE TypeOK'
  BY <1>2 DEF ReceiveNew, PressureOnArrival, HasStream
<1>3. ASSUME NEW w \in Workers, WorkerStep(w) \/ FailEvent(w) PROVE TypeOK'
  <2> USE DEF LeaveStream, DropStream, SignalDepletion
  <2>1. CASE StartWorker(w) BY <2>1 DEF StartWorker
  <2>2. CASE TakeEvent(w)
    <3>1. Head(backlog[w]) \in Nat /\ Tail(backlog[w]) \in Seq(Nat)
      BY <2>2, HeadTailProperties DEF TakeEvent
    <3>2. (pressure[w] /\ MoreEvents(w)) \in BOOLEAN
      BY DEF MoreEvents
    <3> QED BY <2>2, <3>1, <3>2 DEF TakeEvent
  <2>3. CASE TakeEOS(w) BY <2>3 DEF TakeEOS
  <2>4. CASE IdleTimeout(w) BY <2>4 DEF IdleTimeout
  <2>5. CASE ExitIdle(w) BY <2>5 DEF ExitIdle
  <2>6. CASE ContinueAfterTimeout(w) BY <2>6 DEF ContinueAfterTimeout
  <2>7. CASE FinishEvent(w) BY <2>7 DEF FinishEvent
  <2>8. CASE CancelStarted(w) BY <2>8 DEF CancelStarted
  <2>9. CASE CancelUnstarted(w) BY <2>9 DEF CancelUnstarted
  <2>10. CASE FailEvent(w) BY <2>10 DEF FailEvent
  <2> QED
    BY <1>3, <2>1, <2>2, <2>3, <2>4, <2>5, <2>6, <2>7, <2>8, <2>9, <2>10 DEF WorkerStep
<1>4. ASSUME NEW w \in Workers, SchedulerStep(w) PROVE TypeOK'
  BY <1>4 DEF SchedulerStep, TaskDone, CleanerRuns, EscalateFailure, NotifyAll
<1>5. CASE SpawnerRuns
  <2>1. SpawnCount \in 0..Len(pending) /\ Spawned \in SUBSET Workers
    BY SpawnCountType
  <2>2. SubSeq(pending, SpawnCount + 1, Len(pending)) \in Seq(Workers)
    <3>1. \A i \in (SpawnCount + 1)..Len(pending) : pending[i] \in Workers
      BY <2>1
    <3> QED BY <2>1, <3>1, SubSeqProperties
  <2>3. /\ job' = [w \in Workers |-> IF w \in Spawned THEN "created" ELSE job[w]]
        /\ cancelled' = IF SchedulerClosed THEN cancelled \cup Spawned ELSE cancelled
        /\ pending' = SubSeq(pending, SpawnCount + 1, Len(pending))
    BY <1>5 DEF SpawnerRuns, SpawnCount, Spawned
  <2>4. job' \in [Workers -> JobStates] /\ cancelled' \in SUBSET Workers
    BY <2>1, <2>3
  <2> QED BY <1>5, <2>2, <2>3, <2>4 DEF SpawnerRuns
<1>6. CASE StopWatcher BY <1>6 DEF StopWatcher
<1>7. CASE Unwind
  <2>1. CASE StartDepletion
    <3>1. \A w \in Workers : Append(backlog[w], EOS) \in Seq(Nat)
      BY AppendProperties
    <3> QED BY <2>1, <3>1 DEF StartDepletion, WithEOS
  <2>2. CASE CheckDepletion BY <2>2 DEF CheckDepletion
  <2>3. CASE DepletionTimeout BY <2>3 DEF DepletionTimeout
  <2>4. CASE CloseScheduler BY <2>4 DEF CloseScheduler, Running
  <2>5. CASE CheckClosed BY <2>5 DEF CheckClosed
  <2> QED BY <1>7, <2>1, <2>2, <2>3, <2>4, <2>5 DEF Unwind
<1>8. CASE Terminated BY <1>8 DEF Terminated, vars
<1> QED
  BY <1>1, <1>2, <1>3, <1>4, <1>5, <1>6, <1>7, <1>8 DEF Next

(* Only the spawner makes tasks, and no more than the limit leaves room.   *)
LEMMA NextWithinLimit ==
  ASSUME TypeOK, PendingIsPending, WithinLimit, Next
  PROVE  WithinLimit'
<1> USE DEF RunningStates
<1>1. IsFiniteSet(Running) /\ Cardinality(Running) \in Nat
  BY RunningIsFinite
<1>2. CASE SpawnerRuns
  <2>1. /\ SpawnCount \in 0..Len(pending)
        /\ SpawnCount <= Limit - Cardinality(Running)
        /\ Spawned \in SUBSET Workers
    BY SpawnCountType
  <2>2. Running' = Running \cup Spawned
    BY <1>2, <2>1 DEF SpawnerRuns, SpawnCount, Spawned, Running
  <2>3. Cardinality(Spawned) <= SpawnCount
    <3>1. [i \in 1..SpawnCount |-> pending[i]] \in Surjection(1..SpawnCount, Spawned)
      BY DEF Spawned, Surjection
    <3> QED BY <2>1, <3>1, FS_SurjCardinalityBound DEF ExistsSurjection
  <2>4. IsFiniteSet(Spawned) /\ Cardinality(Spawned) \in Nat
    BY <2>1, FS_Subset, FS_CardinalityType
  <2>5. Cardinality(Running \cap Spawned) \in Nat
    BY <1>1, FS_Subset, FS_CardinalityType
  <2>6. Cardinality(Running') = Cardinality(Running) + Cardinality(Spawned)
                                - Cardinality(Running \cap Spawned)
    BY <1>1, <2>2, <2>4, FS_Union
  <2> QED BY <1>1, <2>1, <2>3, <2>4, <2>5, <2>6 DEF WithinLimit
<1>3. CASE ~SpawnerRuns
  <2>1. Running' \in SUBSET Running
    <3> USE DEF TypeOK, Running
    <3>1. ASSUME NEW k \in Keys, ReceiveKnown(k) PROVE Running' \in SUBSET Running
      BY <3>1 DEF ReceiveKnown
    <3>2. ASSUME NEW k \in Keys, NEW w \in Workers, ReceiveNew(k, w)
          PROVE  Running' \in SUBSET Running
      BY <3>2 DEF ReceiveNew
    <3>3. ASSUME NEW w \in Workers, WorkerStep(w) \/ FailEvent(w)
          PROVE  Running' \in SUBSET Running
      BY <3>3 DEF WorkerStep, StartWorker, TakeEvent, TakeEOS, IdleTimeout, ExitIdle,
                  ContinueAfterTimeout, FinishEvent, CancelStarted, CancelUnstarted,
                  FailEvent, LeaveStream
    <3>4. ASSUME NEW w \in Workers, SchedulerStep(w) PROVE Running' \in SUBSET Running
      BY <3>4 DEF SchedulerStep, TaskDone, CleanerRuns
    <3>5. CASE StopWatcher \/ Unwind \/ Terminated
      BY <3>5 DEF StopWatcher, Unwind, StartDepletion, CheckDepletion, DepletionTimeout,
                  CloseScheduler, CheckClosed, Terminated, vars
    <3> QED BY <1>3, <3>1, <3>2, <3>3, <3>4, <3>5 DEF Next
  <2>2. Cardinality(Running') <= Cardinality(Running) /\ Cardinality(Running') \in Nat
    BY <1>1, <2>1, FS_Subset, FS_CardinalityType
  <2> QED BY <1>1, <2>2 DEF WithinLimit
<1> QED BY <1>2, <1>3

(* What the spawner starts are pending tasks.                              *)
LEMMA SpawnedArePending ==
  ASSUME TypeOK, WithinLimit, PendingIsPending
  PROVE  \A w \in Spawned : job[w] = "pending"
<1>1. SpawnCount \in 0..Len(pending) /\ Len(pending) \in Nat
  BY SpawnCountType, LenProperties DEF TypeOK
<1>2. ASSUME NEW w \in Spawned PROVE job[w] = "pending"
  <2>1. PICK i \in 1..SpawnCount : w = pending[i]
    BY DEF Spawned
  <2>2. i \in 1..Len(pending)
    BY <1>1, <2>1
  <2> QED BY <2>1, <2>2 DEF PendingIsPending
<1> QED BY <1>2

LEMMA NextPendingIsPending ==
  ASSUME TypeOK, WithinLimit, PendingIsPending, Next
  PROVE  PendingIsPending'
<1>0. Len(pending) \in Nat /\ \A i \in 1..Len(pending) : pending[i] \in Workers
  BY LenProperties, ElementOfSeq DEF TypeOK
<1>1. ASSUME NEW k \in Keys, ReceiveKnown(k) PROVE PendingIsPending'
  <2>1. pending' = pending /\ job' = job
    BY <1>1 DEF ReceiveKnown, schedulerVars
  <2> QED BY <2>1 DEF PendingIsPending
<1>2. ASSUME NEW k \in Keys, NEW w \in Workers, ReceiveNew(k, w) PROVE PendingIsPending'
  <2>1. \A i \in 1..Len(pending) : pending[i] # w /\ job[pending[i]] = "pending"
    BY <1>2 DEF ReceiveNew, PendingIsPending
  <2>2. /\ job' = [job EXCEPT ![w] = "pending"]
        /\ pending' = Append(pending, w)
    BY <1>2 DEF ReceiveNew
  <2>3. /\ Len(pending') = Len(pending) + 1
        /\ \A i \in 1..Len(pending) : pending'[i] = pending[i]
        /\ pending'[Len(pending) + 1] = w
    BY <2>2, AppendProperties DEF TypeOK
  <2>4. \A i \in 1..Len(pending') : i \in 1..Len(pending) \/ i = Len(pending) + 1
    BY <1>0, <2>3
  <2>5. ASSUME NEW i \in 1..Len(pending') PROVE job'[pending'[i]] = "pending"
    <3>1. \A v \in Workers : job'[v] = IF v = w THEN "pending" ELSE job[v]
      BY <2>2 DEF TypeOK
    <3>2. CASE i \in 1..Len(pending) BY <1>0, <2>1, <2>3, <3>1, <3>2
    <3>3. CASE i = Len(pending) + 1 BY <2>3, <3>1, <3>3
    <3> QED BY <2>4, <3>2, <3>3
  <2>6. \A i, j \in 1..Len(pending') : pending'[i] = pending'[j] => i = j
    BY <2>1, <2>3, <2>4 DEF PendingIsPending
  <2> QED BY <2>5, <2>6 DEF PendingIsPending
<1>3. ASSUME NEW w \in Workers, WorkerStep(w) \/ FailEvent(w) PROVE PendingIsPending'
  <2>1. pending' = pending
    BY <1>3 DEF WorkerStep, StartWorker, TakeEvent, TakeEOS, IdleTimeout, ExitIdle,
                ContinueAfterTimeout, FinishEvent, CancelStarted, CancelUnstarted,
                FailEvent, LeaveStream, schedulerVars
  <2>2. job[w] # "pending"
    BY <1>3 DEF WorkerStep, StartWorker, TakeEvent, TakeEOS, IdleTimeout, ExitIdle,
                ContinueAfterTimeout, FinishEvent, CancelStarted, CancelUnstarted, FailEvent
  <2>3. \A v \in Workers : v # w => job'[v] = job[v]
    BY <1>3 DEF WorkerStep, StartWorker, TakeEvent, TakeEOS, IdleTimeout, ExitIdle,
                ContinueAfterTimeout, FinishEvent, CancelStarted, CancelUnstarted,
                FailEvent, LeaveStream, TypeOK
  <2>4. \A i \in 1..Len(pending) : job'[pending[i]] = "pending"
    BY <1>0, <2>2, <2>3 DEF PendingIsPending
  <2> QED BY <2>1, <2>4 DEF PendingIsPending
<1>4. ASSUME NEW w \in Workers, SchedulerStep(w) PROVE PendingIsPending'
  <2>1. pending' = pending
    BY <1>4 DEF SchedulerStep, TaskDone, CleanerRuns, schedulerVars
  <2>2. job[w] # "pending" /\ \A v \in Workers : v # w => job'[v] = job[v]
    BY <1>4 DEF SchedulerStep, TaskDone, CleanerRuns, TypeOK
  <2>3. \A i \in 1..Len(pending) : job'[pending[i]] = "pending"
    BY <1>0, <2>2 DEF PendingIsPending
  <2> QED BY <2>1, <2>3 DEF PendingIsPending
<1>5. CASE SpawnerRuns
  <2>1. SpawnCount \in 0..Len(pending)
    BY SpawnCountType
  <2>2. /\ job' = [w \in Workers |-> IF w \in Spawned THEN "created" ELSE job[w]]
        /\ pending' = SubSeq(pending, SpawnCount + 1, Len(pending))
    BY <1>5 DEF SpawnerRuns, SpawnCount, Spawned
  <2>3. /\ Len(pending') = Len(pending) - SpawnCount
        /\ \A i \in 1..Len(pending') : pending'[i] = pending[i + SpawnCount]
    BY <1>0, <2>1, <2>2, SubSeqProperties
  <2>4. \A i \in 1..Len(pending') : /\ i + SpawnCount \in 1..Len(pending)
                                    /\ i + SpawnCount \notin 1..SpawnCount
    BY <1>0, <2>1, <2>3
  <2>5. \A i \in 1..Len(pending') : pending'[i] \notin Spawned
    <3> SUFFICES ASSUME NEW i \in 1..Len(pending'), NEW j \in 1..SpawnCount,
                        pending'[i] = pending[j]
                 PROVE  FALSE
      BY DEF Spawned
    <3>1. j \in 1..Len(pending)
      BY <1>0, <2>1
    <3>2. i + SpawnCount = j
      BY <2>3, <2>4, <3>1 DEF PendingIsPending
    <3> QED BY <2>4, <3>2
  <2>6. ASSUME NEW i \in 1..Len(pending') PROVE job'[pending'[i]] = "pending"
    <3>1. pending'[i] \in Workers /\ job[pending'[i]] = "pending"
      BY <1>0, <2>3, <2>4 DEF PendingIsPending
    <3> QED BY <2>2, <2>5, <3>1
  <2>7. \A i, j \in 1..Len(pending') : pending'[i] = pending'[j] => i = j
    <3> SUFFICES ASSUME NEW i \in 1..Len(pending'), NEW j \in 1..Len(pending'),
                        pending'[i] = pending'[j]
                 PROVE  i = j
      OBVIOUS
    <3>1. i + SpawnCount = j + SpawnCount
      BY <2>3, <2>4 DEF PendingIsPending
    <3> QED BY <2>1, <3>1
  <2> QED BY <2>6, <2>7 DEF PendingIsPending
<1>6. CASE StopWatcher \/ Unwind \/ Terminated
  <2>1. pending' = pending /\ job' = job
    BY <1>6 DEF StopWatcher, Unwind, StartDepletion, CheckDepletion, DepletionTimeout,
                CloseScheduler, CheckClosed, Terminated, vars, schedulerVars
  <2> QED BY <2>1 DEF PendingIsPending
<1> QED BY <1>1, <1>2, <1>3, <1>4, <1>5, <1>6 DEF Next

LEMMA NextStreamsMatchWorkers ==
  ASSUME TypeOK, WithinLimit, PendingIsPending, StreamsMatchWorkers,
         ServedUntilClosed, Next
  PROVE  StreamsMatchWorkers'
<1> USE DEF TypeOK, StreamsMatchWorkers, LiveStates
<1>1. ASSUME NEW k \in Keys, ReceiveKnown(k) PROVE StreamsMatchWorkers'
  BY <1>1 DEF ReceiveKnown
<1>2. ASSUME NEW k \in Keys, NEW w \in Workers, ReceiveNew(k, w) PROVE StreamsMatchWorkers'
  <2>1. \A l \in Keys : streams[l] # w
    BY <1>2 DEF ReceiveNew, ServedUntilClosed, SchedulerClosed
  <2> QED BY <1>2, <2>1 DEF ReceiveNew, HasStream
<1>3. ASSUME NEW w \in Workers, WorkerStep(w) \/ FailEvent(w) PROVE StreamsMatchWorkers'
  <2> USE DEF LeaveStream, DropStream, streamVars
  <2>1. CASE StartWorker(w) BY <2>1 DEF StartWorker
  <2>2. CASE TakeEvent(w) BY <2>2 DEF TakeEvent
  <2>3. CASE TakeEOS(w) BY <2>3 DEF TakeEOS
  <2>4. CASE IdleTimeout(w) BY <2>4 DEF IdleTimeout
  <2>5. CASE ExitIdle(w) BY <2>5 DEF ExitIdle
  <2>6. CASE ContinueAfterTimeout(w) BY <2>6 DEF ContinueAfterTimeout
  <2>7. CASE FinishEvent(w) BY <2>7 DEF FinishEvent
  <2>8. CASE CancelStarted(w) BY <2>8 DEF CancelStarted
  <2>9. CASE CancelUnstarted(w) BY <2>9 DEF CancelUnstarted
  <2>10. CASE FailEvent(w) BY <2>10 DEF FailEvent
  <2> QED
    BY <1>3, <2>1, <2>2, <2>3, <2>4, <2>5, <2>6, <2>7, <2>8, <2>9, <2>10 DEF WorkerStep
<1>4. ASSUME NEW w \in Workers, SchedulerStep(w) PROVE StreamsMatchWorkers'
  BY <1>4 DEF SchedulerStep, TaskDone, CleanerRuns, streamVars
<1>5. CASE SpawnerRuns
  <2>1. \A w \in Spawned : job[w] \in LiveStates
    BY SpawnedArePending
  <2>2. job' = [w \in Workers |-> IF w \in Spawned THEN "created" ELSE job[w]]
    BY <1>5 DEF SpawnerRuns, SpawnCount, Spawned
  <2> QED BY <1>5, <2>1, <2>2 DEF SpawnerRuns, streamVars
<1>6. CASE StopWatcher \/ Unwind \/ Terminated
  BY <1>6 DEF StopWatcher, Unwind, StartDepletion, CheckDepletion, DepletionTimeout,
              CloseScheduler, CheckClosed, Terminated, vars, streamVars
<1> QED BY <1>1, <1>2, <1>3, <1>4, <1>5, <1>6 DEF Next

LEMMA NextServedUntilClosed ==
  ASSUME TypeOK, WithinLimit, PendingIsPending, StreamsMatchWorkers,
         ServedUntilClosed, Next
  PROVE  ServedUntilClosed'
<1> USE DEF TypeOK, StreamsMatchWorkers, ServedUntilClosed, SchedulerClosed, LiveStates
<1>1. ASSUME NEW k \in Keys, ReceiveKnown(k) PROVE ServedUntilClosed'
  BY <1>1 DEF ReceiveKnown, watcherVars, schedulerVars
<1>2. ASSUME NEW k \in Keys, NEW w \in Workers, ReceiveNew(k, w) PROVE ServedUntilClosed'
  BY <1>2 DEF ReceiveNew, HasStream, watcherVars
<1>3. ASSUME NEW w \in Workers, WorkerStep(w) \/ FailEvent(w) PROVE ServedUntilClosed'
  <2> USE DEF LeaveStream, DropStream, streamVars, watcherVars, schedulerVars
  <2>1. CASE StartWorker(w) BY <2>1 DEF StartWorker
  <2>2. CASE TakeEvent(w) BY <2>2 DEF TakeEvent
  <2>3. CASE TakeEOS(w) BY <2>3 DEF TakeEOS
  <2>4. CASE IdleTimeout(w) BY <2>4 DEF IdleTimeout
  <2>5. CASE ExitIdle(w) BY <2>5 DEF ExitIdle
  <2>6. CASE ContinueAfterTimeout(w) BY <2>6 DEF ContinueAfterTimeout
  <2>7. CASE FinishEvent(w) BY <2>7 DEF FinishEvent
  <2>8. CASE CancelStarted(w) BY <2>8 DEF CancelStarted
  <2>9. CASE CancelUnstarted(w) BY <2>9 DEF CancelUnstarted
  <2>10. CASE FailEvent(w) BY <2>10 DEF FailEvent
  <2> QED
    BY <1>3, <2>1, <2>2, <2>3, <2>4, <2>5, <2>6, <2>7, <2>8, <2>9, <2>10 DEF WorkerStep
<1>4. ASSUME NEW w \in Workers, SchedulerStep(w) PROVE ServedUntilClosed'
  <2>1. ~SchedulerClosed' => ~SchedulerClosed
    BY <1>4 DEF SchedulerStep, TaskDone, CleanerRuns, EscalateFailure, watcherVars
  <2>2. streams' = streams /\ cancelled' \in SUBSET cancelled
    BY <1>4 DEF SchedulerStep, TaskDone, CleanerRuns, streamVars, schedulerVars
  <2>3. job[w] \notin LiveStates /\ \A v \in Workers : v # w => job'[v] = job[v]
    BY <1>4 DEF SchedulerStep, TaskDone, CleanerRuns
  <2>4. ASSUME ~SchedulerClosed', NEW k \in Keys, streams'[k] # NoWorker
        PROVE  job'[streams'[k]] \in LiveStates
    <3>1. job[streams[k]] \in LiveStates /\ streams[k] \in Workers
      BY <2>1, <2>2, <2>4
    <3> QED BY <2>2, <2>3, <3>1
  <2>5. ~SchedulerClosed' => cancelled' = {}
    BY <2>1, <2>2
  <2> QED BY <2>4, <2>5
<1>5. CASE SpawnerRuns
  <2>1. job' = [w \in Workers |-> IF w \in Spawned THEN "created" ELSE job[w]]
    BY <1>5 DEF SpawnerRuns, SpawnCount, Spawned
  <2> QED BY <1>5, <2>1 DEF SpawnerRuns, streamVars, watcherVars
<1>6. CASE StopWatcher \/ Unwind \/ Terminated
  <2> USE DEF vars, streamVars, schedulerVars
  <2>1. CASE StopWatcher BY <2>1 DEF StopWatcher
  <2>2. CASE StartDepletion BY <2>2 DEF StartDepletion
  <2>3. CASE CheckDepletion BY <2>3 DEF CheckDepletion
  <2>4. CASE DepletionTimeout BY <2>4 DEF DepletionTimeout
  <2>5. CASE CloseScheduler BY <2>5 DEF CloseScheduler
  <2>6. CASE CheckClosed BY <2>6 DEF CheckClosed
  <2>7. CASE Terminated BY <2>7 DEF Terminated
  <2> QED BY <1>6, <2>1, <2>2, <2>3, <2>4, <2>5, <2>6, <2>7 DEF Unwind
<1> QED BY <1>1, <1>2, <1>3, <1>4, <1>5, <1>6 DEF Next

LEMMA NextEventWhileProcessing ==
  ASSUME TypeOK, WithinLimit, PendingIsPending, EventWhileProcessing, Next
  PROVE  EventWhileProcessing'
<1> USE DEF TypeOK, EventWhileProcessing
<1>1. ASSUME NEW k \in Keys, ReceiveKnown(k) PROVE EventWhileProcessing'
  BY <1>1 DEF ReceiveKnown
<1>2. ASSUME NEW k \in Keys, NEW w \in Workers, ReceiveNew(k, w) PROVE EventWhileProcessing'
  BY <1>2 DEF ReceiveNew
<1>3. ASSUME NEW w \in Workers, WorkerStep(w) \/ FailEvent(w) PROVE EventWhileProcessing'
  BY <1>3, HeadTailProperties
     DEF WorkerStep, StartWorker, TakeEvent, TakeEOS, IdleTimeout, ExitIdle,
         ContinueAfterTimeout, FinishEvent, CancelStarted, CancelUnstarted,
         FailEvent, LeaveStream
<1>4. ASSUME NEW w \in Workers, SchedulerStep(w) PROVE EventWhileProcessing'
  BY <1>4 DEF SchedulerStep, TaskDone, CleanerRuns
<1>5. CASE SpawnerRuns
  <2>1. \A w \in Spawned : job[w] = "pending"
    BY SpawnedArePending
  <2>2. job' = [w \in Workers |-> IF w \in Spawned THEN "created" ELSE job[w]]
    BY <1>5 DEF SpawnerRuns, SpawnCount, Spawned
  <2> QED BY <1>5, <2>1, <2>2 DEF SpawnerRuns
<1>6. CASE StopWatcher \/ Unwind \/ Terminated
  BY <1>6 DEF StopWatcher, Unwind, StartDepletion, CheckDepletion, DepletionTimeout,
              CloseScheduler, CheckClosed, Terminated, vars
<1> QED BY <1>1, <1>2, <1>3, <1>4, <1>5, <1>6 DEF Next

(* A failure is never forgotten.                                           *)
LEMMA FailureStays ==
  ASSUME TypeOK, WithinLimit, PendingIsPending, Next, NoFailure'
  PROVE  NoFailure
<1> USE DEF TypeOK, NoFailure
<1>1. ASSUME NEW k \in Keys, ReceiveKnown(k) PROVE NoFailure
  BY <1>1 DEF ReceiveKnown, watcherVars
<1>2. ASSUME NEW k \in Keys, NEW w \in Workers, ReceiveNew(k, w) PROVE NoFailure
  BY <1>2 DEF ReceiveNew, watcherVars
<1>3. ASSUME NEW w \in Workers, WorkerStep(w) \/ FailEvent(w) PROVE NoFailure
  BY <1>3 DEF WorkerStep, StartWorker, TakeEvent, TakeEOS, IdleTimeout, ExitIdle,
              ContinueAfterTimeout, FinishEvent, CancelStarted, CancelUnstarted,
              FailEvent, LeaveStream, watcherVars
<1>4. ASSUME NEW w \in Workers, SchedulerStep(w) PROVE NoFailure
  BY <1>4 DEF SchedulerStep, TaskDone, CleanerRuns, EscalateFailure, watcherVars
<1>5. CASE SpawnerRuns
  <2>1. \A w \in Spawned : job[w] = "pending"
    BY SpawnedArePending
  <2>2. job' = [w \in Workers |-> IF w \in Spawned THEN "created" ELSE job[w]]
    BY <1>5 DEF SpawnerRuns, SpawnCount, Spawned
  <2> QED BY <1>5, <2>1, <2>2 DEF SpawnerRuns, watcherVars
<1>6. CASE StopWatcher \/ Unwind \/ Terminated
  BY <1>6 DEF StopWatcher, Unwind, StartDepletion, CheckDepletion, DepletionTimeout,
              CloseScheduler, CheckClosed, Terminated, vars
<1> QED BY <1>1, <1>2, <1>3, <1>4, <1>5, <1>6 DEF Next

(* Consecutive numbers stay consecutive when the next one is appended.     *)
LEMMA ConsecutiveAppend ==
  ASSUME NEW b \in Seq(Nat), NEW d \in Nat,
         \A i \in 1..Len(b) : b[i] = d + i,
         NEW c, c = Append(b, d + Len(b) + 1)
  PROVE  /\ Len(c) = Len(b) + 1
         /\ \A i \in 1..Len(c) : c[i] = d + i
<1>1. /\ Len(b) \in Nat
      /\ Len(c) = Len(b) + 1
      /\ \A i \in 1..Len(b) : c[i] = b[i]
      /\ c[Len(b) + 1] = d + Len(b) + 1
  BY AppendProperties
<1>2. ASSUME NEW i \in 1..Len(c) PROVE c[i] = d + i
  <2>1. CASE i \in 1..Len(b) BY <1>1, <2>1
  <2>2. CASE i = Len(b) + 1 BY <1>1, <2>2
  <2> QED BY <1>1, <2>1, <2>2
<1> QED BY <1>1, <1>2

LEMMA NextAllAccounted ==
  ASSUME TypeOK, WithinLimit, PendingIsPending, StreamsMatchWorkers,
         ServedUntilClosed, EventWhileProcessing, AllAccounted, Next
  PROVE  AllAccounted'
<1> SUFFICES ASSUME phase' = "streaming", NoFailure'
             PROVE  \A k \in Keys : Accounted(k)'
  BY DEF AllAccounted
<1>0. phase = "streaming" /\ NoFailure /\ cancelled = {} /\ \A k \in Keys : Accounted(k)
  <2>1. phase = "streaming"
    <3>1. ASSUME NEW k \in Keys, ReceiveKnown(k) PROVE phase = "streaming"
      BY <3>1 DEF ReceiveKnown
    <3>2. ASSUME NEW k \in Keys, NEW w \in Workers, ReceiveNew(k, w)
          PROVE  phase = "streaming"
      BY <3>2 DEF ReceiveNew
    <3>3. ASSUME NEW w \in Workers, WorkerStep(w) \/ FailEvent(w) \/ SchedulerStep(w)
          PROVE  phase = "streaming"
      BY <3>3 DEF WorkerStep, StartWorker, TakeEvent, TakeEOS, IdleTimeout, ExitIdle,
                  ContinueAfterTimeout, FinishEvent, CancelStarted, CancelUnstarted,
                  FailEvent, LeaveStream, watcherVars,
                  SchedulerStep, TaskDone, CleanerRuns, EscalateFailure
    <3>4. CASE SpawnerRuns \/ StopWatcher \/ Unwind \/ Terminated
      BY <3>4 DEF SpawnerRuns, StopWatcher, Unwind, StartDepletion, CheckDepletion,
                  DepletionTimeout, CloseScheduler, CheckClosed, Terminated, vars,
                  watcherVars
    <3> QED BY <3>1, <3>2, <3>3, <3>4 DEF Next
  <2> QED BY <2>1, FailureStays DEF AllAccounted, ServedUntilClosed, SchedulerClosed
<1> USE DEF TypeOK, Accounted, Held
<1>1. ASSUME NEW k \in Keys, ReceiveKnown(k) PROVE \A l \in Keys : Accounted(l)'
  <2>1. PICK w \in Workers : streams[k] = w /\ keyOf[w] = k /\ w # NoWorker
    BY <1>1 DEF ReceiveKnown, HasStream, StreamsMatchWorkers
  <2>2. /\ sent' = [sent EXCEPT ![k] = @ + 1]
        /\ backlog' = [backlog EXCEPT ![w] = Append(@, sent[k] + 1)]
        /\ streams' = streams /\ event' = event /\ handled' = handled
    BY <1>1, <2>1 DEF ReceiveKnown
  <2>3. Accounted(k)'
    <3> DEFINE d == handled[k] + Held(w)
    <3>1. /\ d \in Nat /\ backlog[w] \in Seq(Nat) /\ Len(backlog[w]) \in Nat
          /\ sent[k] \in Nat
      OBVIOUS
    <3>2. /\ sent[k] = d + Len(backlog[w])
          /\ \A i \in 1..Len(backlog[w]) : backlog[w][i] = d + i
          /\ event[w] # 0 => event[w] = handled[k] + 1
      BY <1>0, <2>1
    <3>3. backlog'[w] = Append(backlog[w], d + Len(backlog[w]) + 1)
      BY <2>2, <3>2
    <3>4. /\ Len(backlog'[w]) = Len(backlog[w]) + 1
          /\ \A i \in 1..Len(backlog'[w]) : backlog'[w][i] = d + i
      <4> HIDE DEF d
      <4> QED BY <3>1, <3>2, <3>3, ConsecutiveAppend
    <3>5. sent'[k] = d + Len(backlog'[w])
      <4>1. sent'[k] = sent[k] + 1
        BY <2>2
      <4> HIDE DEF d
      <4> QED BY <3>1, <3>2, <3>4, <4>1
    <3>6. streams'[k] = w /\ handled'[k] = handled[k] /\ event'[w] = event[w]
      BY <2>1, <2>2
    <3> QED BY <2>1, <3>2, <3>4, <3>5, <3>6
  <2>4. ASSUME NEW l \in Keys, l # k PROVE Accounted(l)'
    <3>1. streams[l] # w
      BY <2>1, <2>4 DEF StreamsMatchWorkers
    <3> QED BY <1>0, <2>1, <2>2, <2>4, <3>1
  <2> QED BY <2>3, <2>4
<1>2. ASSUME NEW k \in Keys, NEW w \in Workers, ReceiveNew(k, w)
      PROVE  \A l \in Keys : Accounted(l)'
  <2>1. \A l \in Keys : streams[l] # w
    BY <1>0, <1>2 DEF ReceiveNew, ServedUntilClosed, SchedulerClosed, LiveStates
  <2>2. event[w] = 0
    BY <1>2 DEF ReceiveNew, EventWhileProcessing
  <2>3. Len(<<sent[k] + 1>>) = 1 /\ <<sent[k] + 1>>[1] = sent[k] + 1
    OBVIOUS
  <2> QED BY SMTT(40), <1>0, <1>2, <2>1, <2>2, <2>3 DEF ReceiveNew, HasStream
<1>3. ASSUME NEW w \in Workers, TakeEvent(w) PROVE \A l \in Keys : Accounted(l)'
  <2>1. PICK k \in Keys : k = keyOf[w] /\ streams[k] = w /\ event[w] = 0 /\ w # NoWorker
    BY <1>3 DEF TakeEvent, StreamsMatchWorkers, LiveStates, EventWhileProcessing
  <2>2. \A l \in Keys : streams[l] = w => l = k
    BY <2>1 DEF StreamsMatchWorkers
  <2>3. /\ Len(Tail(backlog[w])) = Len(backlog[w]) - 1
        /\ \A i \in 1..Len(Tail(backlog[w])) : Tail(backlog[w])[i] = backlog[w][i + 1]
        /\ Head(backlog[w]) = backlog[w][1]
        /\ 1 \in 1..Len(backlog[w])
        /\ Head(backlog[w]) \in Nat \ {0}
    BY <1>3, HeadTailProperties DEF TakeEvent
  <2>4. /\ event' = [event EXCEPT ![w] = Head(backlog[w])]
        /\ backlog' = [backlog EXCEPT ![w] = Tail(@)]
        /\ streams' = streams /\ sent' = sent /\ handled' = handled
    BY <1>3 DEF TakeEvent
  <2>5. Accounted(k)'
    <3>1. /\ sent[k] = handled[k] + Len(backlog[w])
          /\ \A i \in 1..Len(backlog[w]) : backlog[w][i] = handled[k] + i
      BY <1>0, <2>1
    <3>2. event'[w] = handled[k] + 1 /\ Held(w)' = 1
      BY <2>3, <2>4, <3>1
    <3>3. backlog'[w] = Tail(backlog[w]) /\ Len(backlog[w]) \in Nat
      BY <2>4
    <3>4. sent[k] = handled[k] + 1 + Len(backlog'[w])
      BY <2>3, <3>1, <3>3
    <3>5. ASSUME NEW i \in 1..Len(backlog'[w])
          PROVE  backlog'[w][i] = handled[k] + 1 + i
      <4>1. backlog'[w][i] = backlog[w][i + 1] /\ i + 1 \in 1..Len(backlog[w])
        BY <2>3, <3>3
      <4> QED BY <3>1, <4>1
    <3> QED BY <2>1, <2>4, <3>2, <3>4, <3>5
  <2>6. ASSUME NEW l \in Keys, l # k PROVE Accounted(l)'
    BY <1>0, <2>2, <2>4, <2>6
  <2> QED BY <2>5, <2>6
<1>4. ASSUME NEW w \in Workers, FinishEvent(w) PROVE \A l \in Keys : Accounted(l)'
  <2>1. PICK k \in Keys : k = keyOf[w] /\ streams[k] = w /\ event[w] # 0 /\ w # NoWorker
    BY <1>4 DEF FinishEvent, StreamsMatchWorkers, LiveStates, EventWhileProcessing
  <2>2. \A l \in Keys : streams[l] = w => l = k
    BY <2>1 DEF StreamsMatchWorkers
  <2>3. Accounted(k)'
    BY <1>0, <1>4, <2>1 DEF FinishEvent, streamVars
  <2>4. ASSUME NEW l \in Keys, l # k PROVE Accounted(l)'
    BY <1>0, <1>4, <2>1, <2>2, <2>4 DEF FinishEvent, streamVars
  <2> QED BY <2>3, <2>4
<1>5. ASSUME NEW w \in Workers, ExitIdle(w) PROVE \A l \in Keys : Accounted(l)'
  <2>1. streams[keyOf[w]] = w /\ event[w] = 0 /\ w # NoWorker
    BY <1>5 DEF ExitIdle, StreamsMatchWorkers, LiveStates, EventWhileProcessing
  <2>2. Len(backlog[w]) = 0
    BY <1>5 DEF ExitIdle, TrulyIdle
  <2>3. handled[keyOf[w]] = sent[keyOf[w]]
    BY <1>0, <2>1, <2>2
  <2>4. \A l \in Keys : streams[l] = w => l = keyOf[w]
    BY <2>1 DEF StreamsMatchWorkers
  <2> QED BY <1>0, <1>5, <2>1, <2>3, <2>4 DEF ExitIdle, LeaveStream, DropStream
<1>6. ASSUME NEW w \in Workers, TakeEOS(w) PROVE FALSE
  <2>1. streams[keyOf[w]] = w /\ event[w] = 0 /\ w # NoWorker
    BY <1>6 DEF TakeEOS, StreamsMatchWorkers, LiveStates, EventWhileProcessing
  <2>2. backlog[w][1] = 0 /\ 1 \in 1..Len(backlog[w])
    BY <1>6 DEF TakeEOS
  <2> QED BY <1>0, <2>1, <2>2
<1>7. ASSUME NEW w \in Workers, FailEvent(w) \/ CancelStarted(w) \/ CancelUnstarted(w)
      PROVE  FALSE
  BY <1>0, <1>7 DEF FailEvent, LeaveStream, NoFailure, CancelStarted, CancelUnstarted
<1>8. ASSUME UNCHANGED <<sent, handled, streams, backlog, event>>
      PROVE  \A l \in Keys : Accounted(l)'
  BY <1>0, <1>8
<1>9. ASSUME NEW w \in Workers,
             StartWorker(w) \/ IdleTimeout(w) \/ ContinueAfterTimeout(w) \/ SchedulerStep(w)
      PROVE  UNCHANGED <<sent, handled, streams, backlog, event>>
  BY <1>9 DEF StartWorker, IdleTimeout, ContinueAfterTimeout, SchedulerStep, TaskDone,
              CleanerRuns, streamVars
<1>10. ASSUME SpawnerRuns \/ StopWatcher \/ Unwind \/ Terminated
       PROVE  UNCHANGED <<sent, handled, streams, backlog, event>>
  BY <1>0, <1>10 DEF SpawnerRuns, StopWatcher, Unwind, StartDepletion, CheckDepletion,
              DepletionTimeout, CloseScheduler, CheckClosed, Terminated, vars, streamVars
<1> QED
  BY <1>1, <1>2, <1>3, <1>4, <1>5, <1>6, <1>7, <1>8, <1>9, <1>10 DEF Next, WorkerStep

-----------------------------------------------------------------------------
(* The pressure.                                                           *)

LEMMA NextUnmarkedBefore ==
  ASSUME TypeOK, StreamsMatchWorkers, ServedUntilClosed, UnmarkedBefore, Next
  PROVE  UnmarkedBefore'
<1> USE DEF TypeOK, UnmarkedBefore
<1>0. SUFFICES ASSUME phase' \in {"streaming", "cancelled", "raised"},
                      NEW k \in Keys, streams'[k] # NoWorker,
                      NEW i \in 1..Len(backlog'[streams'[k]])
               PROVE  backlog'[streams'[k]][i] # EOS
  OBVIOUS
<1>1. ASSUME NEW l \in Keys, ReceiveKnown(l) PROVE backlog'[streams'[k]][i] # EOS
  <2>1. /\ phase = "streaming" /\ streams[l] \in Workers /\ streams' = streams
        /\ backlog' = [backlog EXCEPT ![streams[l]] = Append(@, sent[l] + 1)]
    BY <1>1 DEF ReceiveKnown, HasStream
  <2>2. CASE streams[k] = streams[l]
    <3> DEFINE b == backlog[streams[l]]
    <3>1. backlog'[streams'[k]] = Append(b, sent[l] + 1) /\ b \in Seq(Nat)
      BY <2>1, <2>2
    <3>2. /\ Len(Append(b, sent[l] + 1)) = Len(b) + 1
          /\ \A j \in 1..Len(b) : Append(b, sent[l] + 1)[j] = b[j]
          /\ Append(b, sent[l] + 1)[Len(b) + 1] = sent[l] + 1
      BY <3>1, AppendProperties
    <3>3. \A j \in 1..Len(b) : b[j] # EOS
      BY <1>0, <2>1, <2>2
    <3>4. i \in 1..Len(b) \/ i = Len(b) + 1
      BY <1>0, <3>1, <3>2
    <3>5. sent[l] \in Nat
      OBVIOUS
    <3> HIDE DEF b
    <3> QED BY <3>1, <3>2, <3>3, <3>4, <3>5
  <2>3. CASE streams[k] # streams[l]
    BY <1>0, <2>1, <2>3
  <2> QED BY <2>2, <2>3
<1>2. ASSUME NEW l \in Keys, NEW w \in Workers, ReceiveNew(l, w)
      PROVE  backlog'[streams'[k]][i] # EOS
  <2>1. /\ phase = "streaming"
        /\ streams' = [streams EXCEPT ![l] = w]
        /\ backlog' = [backlog EXCEPT ![w] = <<sent[l] + 1>>]
    BY <1>2 DEF ReceiveNew
  <2>2. CASE streams'[k] = w
    <3>1. backlog'[streams'[k]] = <<sent[l] + 1>> /\ sent[l] \in Nat
      BY <2>1, <2>2
    <3> QED BY <1>0, <3>1
  <2>3. CASE streams'[k] # w
    BY <1>0, <2>1, <2>3
  <2> QED BY <2>2, <2>3
<1>3. ASSUME NEW w \in Workers, TakeEvent(w) PROVE backlog'[streams'[k]][i] # EOS
  <2>1. /\ backlog' = [backlog EXCEPT ![w] = Tail(@)] /\ streams' = streams /\ phase' = phase
        /\ backlog[w] # <<>> /\ backlog[w] \in Seq(Nat)
    BY <1>3 DEF TakeEvent, watcherVars
  <2>2. /\ Len(Tail(backlog[w])) = Len(backlog[w]) - 1 /\ Len(backlog[w]) \in Nat
        /\ \A j \in 1..Len(Tail(backlog[w])) : Tail(backlog[w])[j] = backlog[w][j + 1]
    BY <2>1, HeadTailProperties
  <2>3. CASE streams[k] = w
    <3>1. backlog'[streams'[k]] = Tail(backlog[w])
      BY <2>1, <2>3
    <3>2. i + 1 \in 1..Len(backlog[w]) /\ Tail(backlog[w])[i] = backlog[w][i + 1]
      BY <1>0, <2>2, <3>1
    <3> QED BY <1>0, <2>1, <2>3, <3>1, <3>2
  <2>4. CASE streams[k] # w
    BY <1>0, <2>1, <2>4
  <2> QED BY <2>3, <2>4
<1>4. ASSUME phase \in {"streaming", "cancelled", "raised"}, backlog' = backlog,
             \A l \in Keys : streams'[l] \in {streams[l], NoWorker}
      PROVE  backlog'[streams'[k]][i] # EOS
  BY <1>0, <1>4
<1>5. ASSUME NEW w \in Workers,
             StartWorker(w) \/ TakeEOS(w) \/ IdleTimeout(w) \/ ExitIdle(w)
             \/ ContinueAfterTimeout(w) \/ FinishEvent(w) \/ CancelStarted(w)
             \/ CancelUnstarted(w) \/ FailEvent(w) \/ SchedulerStep(w)
      PROVE  backlog'[streams'[k]][i] # EOS
  <2>1. phase \in {"streaming", "cancelled", "raised"} /\ backlog' = backlog
        /\ \A l \in Keys : streams'[l] \in {streams[l], NoWorker}
    BY <1>0, <1>5 DEF StartWorker, TakeEOS, IdleTimeout, ExitIdle, ContinueAfterTimeout,
       FinishEvent, CancelStarted, CancelUnstarted, FailEvent, LeaveStream, DropStream,
       SchedulerStep, TaskDone, CleanerRuns, EscalateFailure, watcherVars, streamVars
  <2> QED BY <1>4, <2>1
<1>6. ASSUME SpawnerRuns \/ StopWatcher \/ Unwind \/ Terminated
      PROVE  backlog'[streams'[k]][i] # EOS
  <2>1. phase \in {"streaming", "cancelled", "raised"} /\ backlog' = backlog
        /\ streams' = streams
    BY <1>0, <1>6 DEF SpawnerRuns, StopWatcher, Unwind, StartDepletion, CheckDepletion,
       DepletionTimeout, CloseScheduler, CheckClosed, Terminated, vars, watcherVars, streamVars
  <2> QED BY <1>4, <2>1
<1> QED BY <1>1, <1>2, <1>3, <1>5, <1>6 DEF Next, WorkerStep

(* The flag is raised with every event, and lowered only with the last.    *)
LEMMA NextPressed ==
  ASSUME TypeOK, UnmarkedBefore, Pressed, Next
  PROVE  Pressed'
<1> USE DEF TypeOK
<1>0. SUFFICES ASSUME NEW k \in Keys, streams'[k] # NoWorker,
                      backlog'[streams'[k]] # <<>>, backlog'[streams'[k]] # <<EOS>>
               PROVE  pressure'[streams'[k]]
  BY DEF Pressed
<1>1. ASSUME NEW l \in Keys, ReceiveKnown(l) PROVE pressure'[streams'[k]]
  BY <1>0, <1>1 DEF ReceiveKnown, PressureOnArrival, HasStream, Pressed
<1>2. ASSUME NEW l \in Keys, NEW w \in Workers, ReceiveNew(l, w) PROVE pressure'[streams'[k]]
  BY <1>0, <1>2 DEF ReceiveNew, PressureOnArrival, HasStream, Pressed
<1>3. ASSUME NEW w \in Workers, TakeEvent(w) PROVE pressure'[streams'[k]]
  <2>1. /\ backlog' = [backlog EXCEPT ![w] = Tail(@)] /\ streams' = streams
        /\ backlog[w] # <<>> /\ Head(backlog[w]) # EOS
        /\ pressure' = [pressure EXCEPT ![w] = @ /\ MoreEvents(w)]
    BY <1>3 DEF TakeEvent
  <2>2. CASE streams[k] = w
    <3>1. backlog[w] # <<EOS>>
      BY <2>1
    <3>2. pressure[w]
      BY <1>0, <2>1, <2>2, <3>1 DEF Pressed
    <3>3. Tail(backlog[w]) # <<>>
      BY <1>0, <2>1, <2>2
    <3>4. pressure'[w] = (pressure[w] /\ MoreEvents(w))
      BY <2>1
    <3> QED BY <2>1, <2>2, <3>2, <3>3, <3>4 DEF MoreEvents
  <2>3. CASE streams[k] # w
    BY <1>0, <2>1, <2>3 DEF Pressed
  <2> QED BY <2>2, <2>3
<1>4. ASSUME backlog' = backlog, pressure' = pressure,
             \A l \in Keys : streams'[l] \in {streams[l], NoWorker}
      PROVE  pressure'[streams'[k]]
  BY <1>0, <1>4 DEF Pressed
<1>5. ASSUME NEW w \in Workers,
             StartWorker(w) \/ TakeEOS(w) \/ IdleTimeout(w) \/ ExitIdle(w)
             \/ ContinueAfterTimeout(w) \/ FinishEvent(w) \/ CancelStarted(w)
             \/ CancelUnstarted(w) \/ FailEvent(w) \/ SchedulerStep(w)
      PROVE  pressure'[streams'[k]]
  <2>1. backlog' = backlog /\ pressure' = pressure
        /\ \A l \in Keys : streams'[l] \in {streams[l], NoWorker}
    BY <1>5 DEF StartWorker, TakeEOS, IdleTimeout, ExitIdle, ContinueAfterTimeout,
       FinishEvent, CancelStarted, CancelUnstarted, FailEvent, LeaveStream, DropStream,
       SchedulerStep, TaskDone, CleanerRuns, streamVars
  <2> QED BY <1>4, <2>1
<1>6. ASSUME SpawnerRuns \/ StopWatcher \/ CheckDepletion \/ DepletionTimeout
             \/ CloseScheduler \/ CheckClosed \/ Terminated
      PROVE  pressure'[streams'[k]]
  <2>1. backlog' = backlog /\ pressure' = pressure /\ streams' = streams
    BY <1>6 DEF SpawnerRuns, StopWatcher, CheckDepletion,
       DepletionTimeout, CloseScheduler, CheckClosed, Terminated, vars, streamVars
  <2> QED BY <1>4, <2>1
<1>7. ASSUME StartDepletion PROVE pressure'[streams'[k]]
  <2>1. /\ streams' = streams /\ pressure' = pressure /\ phase \in {"cancelled", "raised"}
        /\ backlog' = [w \in Workers |->
                   IF \E l \in Keys : streams[l] = w THEN WithEOS(w) ELSE backlog[w]]
    BY <1>7 DEF StartDepletion
  <2>2. streams[k] \in Workers /\ backlog[streams[k]] \in Seq(Nat)
    BY <1>0, <2>1
  <2>3. backlog'[streams[k]] = Append(backlog[streams[k]], EOS)
    BY <2>1, <2>2 DEF WithEOS
  <2>4. backlog[streams[k]] # <<>>
    <3>1. Append(<<>>, EOS) = <<EOS>>
      OBVIOUS
    <3> QED BY <1>0, <2>1, <2>3, <3>1
  <2>5. backlog[streams[k]] # <<EOS>>
    <3>1. \A i \in 1..Len(backlog[streams[k]]) : backlog[streams[k]][i] # EOS
      BY <1>0, <2>1 DEF UnmarkedBefore
    <3>2. Len(<<EOS>>) = 1 /\ <<EOS>>[1] = EOS
      OBVIOUS
    <3>3. 1 \in 1..1
      OBVIOUS
    <3> QED BY <3>1, <3>2, <3>3, Zenon
  <2> QED BY <1>0, <2>1, <2>4, <2>5 DEF Pressed
<1> QED BY <1>1, <1>2, <1>3, <1>5, <1>6, <1>7 DEF Next, WorkerStep, Unwind

-----------------------------------------------------------------------------
(* The depletion.                                                          *)

(* Nothing but the start of the depletion and what the worker of a key     *)
(* does with its events changes what is accounted for the key.             *)
LEMMA SameAccounted ==
  ASSUME NEW k \in Keys, NEW n, AccountedBut(k, n),
         UNCHANGED <<sent, handled, streams, backlog, event>>
  PROVE  AccountedBut(k, n)'
BY DEF AccountedBut, Held

(* A worker takes an event: the next one in order.                         *)
LEMMA TakeAccounted ==
  ASSUME TypeOK, StreamsMatchWorkers, EventWhileProcessing, NEW w \in Workers, TakeEvent(w),
         NEW n \in {0, 1}, \A k \in Keys : AccountedBut(k, n)
  PROVE  \A k \in Keys : AccountedBut(k, n)'
<1> USE DEF TypeOK
<1>1. PICK k \in Keys : k = keyOf[w] /\ streams[k] = w /\ event[w] = 0 /\ w # NoWorker
  BY DEF TakeEvent, StreamsMatchWorkers, LiveStates, EventWhileProcessing
<1>2. \A l \in Keys : streams[l] = w => l = k
  BY <1>1 DEF StreamsMatchWorkers
<1>3. /\ backlog[w] \in Seq(Nat) /\ Len(backlog[w]) \in Nat
      /\ Len(Tail(backlog[w])) = Len(backlog[w]) - 1
      /\ \A i \in 1..Len(Tail(backlog[w])) : Tail(backlog[w])[i] = backlog[w][i + 1]
      /\ Head(backlog[w]) = backlog[w][1]
      /\ 1 \in 1..Len(backlog[w])
      /\ Head(backlog[w]) # EOS
  BY HeadTailProperties DEF TakeEvent
<1>4. /\ event' = [event EXCEPT ![w] = Head(backlog[w])]
      /\ backlog' = [backlog EXCEPT ![w] = Tail(@)]
      /\ streams' = streams /\ sent' = sent /\ handled' = handled
  BY DEF TakeEvent
<1>5. AccountedBut(k, n)'
  <2> DEFINE b == backlog[w]
             d == handled[k]
             c == Tail(backlog[w])
  <2>1. /\ Len(b) >= n /\ sent[k] = d + Len(b) - n
        /\ \A i \in 1..(Len(b) - n) : b[i] = d + i
        /\ n = 1 => b[Len(b)] = EOS
    BY <1>1 DEF AccountedBut, Held
  <2>2. d \in Nat /\ sent[k] \in Nat
    OBVIOUS
  <2> HIDE DEF b, c, d
  <2>3. /\ Len(b) \in Nat /\ Len(c) = Len(b) - 1 /\ 1 \in 1..Len(b) /\ b[1] # EOS
        /\ \A i \in 1..Len(c) : c[i] = b[i + 1]
    BY <1>3 DEF b, c
  <2>4. Len(b) > n
    BY <2>1, <2>3
  <2>5. b[1] = d + 1
    BY <2>1, <2>3, <2>4
  <2>6. event'[w] = d + 1 /\ Held(w)' = 1
    <3>1. event'[w] = b[1]
      BY <1>3, <1>4 DEF b
    <3> QED BY <2>2, <2>5, <3>1 DEF Held
  <2>7. Len(c) >= n /\ sent[k] = d + 1 + Len(c) - n
    BY <2>1, <2>2, <2>3, <2>4
  <2>8. ASSUME NEW i \in 1..(Len(c) - n) PROVE c[i] = d + 1 + i
    <3>1. i + 1 \in 1..(Len(b) - n) /\ i \in 1..Len(c)
      BY <2>3
    <3>2. c[i] = d + (i + 1)
      BY <2>1, <2>3, <3>1
    <3> QED BY <2>2, <3>1, <3>2
  <2>9. n = 1 => c[Len(c)] = EOS
    <3>1. SUFFICES ASSUME n = 1 PROVE c[Len(c)] = EOS
      OBVIOUS
    <3>2. Len(c) \in 1..Len(c) /\ Len(c) + 1 = Len(b)
      BY <2>3, <2>4, <3>1
    <3>3. c[Len(c)] = b[Len(c) + 1]
      BY <2>3, <3>2
    <3> QED BY <2>1, <3>1, <3>2, <3>3
  <2>10. streams'[k] = w /\ handled'[k] = d /\ sent'[k] = sent[k] /\ backlog'[w] = c
    BY <1>1, <1>4 DEF d, c
  <2> QED BY <1>1, <2>6, <2>7, <2>8, <2>9, <2>10 DEF AccountedBut
<1>6. ASSUME NEW l \in Keys, l # k PROVE AccountedBut(l, n)'
  <2>1. streams[l] # w
    BY <1>2, <1>6
  <2>2. \/ streams[l] = NoWorker
        \/ /\ backlog'[streams[l]] = backlog[streams[l]]
           /\ event'[streams[l]] = event[streams[l]]
    BY <1>4, <2>1
  <2>3. AccountedBut(l, n) /\ streams'[l] = streams[l] /\ sent'[l] = sent[l]
        /\ handled'[l] = handled[l]
    BY <1>4
  <2>4. CASE streams[l] = NoWorker
    BY <2>3, <2>4 DEF AccountedBut
  <2>5. CASE streams[l] # NoWorker
    <3>1. Held(streams[l])' = Held(streams[l])
      BY <2>2, <2>3, <2>5 DEF Held
    <3> QED BY <2>2, <2>3, <2>5, <3>1 DEF AccountedBut
  <2> QED BY <2>4, <2>5
<1> QED BY <1>5, <1>6

(* A worker is done with an event.                                         *)
LEMMA FinishAccounted ==
  ASSUME TypeOK, StreamsMatchWorkers, EventWhileProcessing, NEW w \in Workers, FinishEvent(w),
         NEW n \in {0, 1}, \A k \in Keys : AccountedBut(k, n)
  PROVE  \A k \in Keys : AccountedBut(k, n)'
<1> USE DEF TypeOK
<1>1. PICK k \in Keys : k = keyOf[w] /\ streams[k] = w /\ event[w] # 0 /\ w # NoWorker
  BY DEF FinishEvent, StreamsMatchWorkers, LiveStates, EventWhileProcessing
<1>2. \A l \in Keys : streams[l] = w => l = k
  BY <1>1 DEF StreamsMatchWorkers
<1>3. /\ handled' = [handled EXCEPT ![k] = event[w]]
      /\ event' = [event EXCEPT ![w] = 0]
      /\ streams' = streams /\ sent' = sent /\ backlog' = backlog
  BY <1>1 DEF FinishEvent, streamVars
<1>4. AccountedBut(k, n)'
  <2>1. /\ event[w] = handled[k] + 1 /\ Held(w) = 1 /\ Len(backlog[w]) >= n
        /\ sent[k] = handled[k] + 1 + Len(backlog[w]) - n
        /\ \A i \in 1..(Len(backlog[w]) - n) : backlog[w][i] = handled[k] + 1 + i
        /\ n = 1 => backlog[w][Len(backlog[w])] = EOS
    <3>1. Held(w) = 1
      BY <1>1 DEF Held
    <3>2. event[w] = handled[k] + 1
      BY <1>1 DEF AccountedBut
    <3> QED BY <1>1, <3>1, <3>2 DEF AccountedBut
  <2>2. /\ streams'[k] = w /\ handled'[k] = handled[k] + 1 /\ event'[w] = 0
        /\ sent'[k] = sent[k] /\ backlog'[w] = backlog[w] /\ Held(w)' = 0
    BY <1>1, <1>3, <2>1 DEF Held
  <2>3. handled[k] + 1 \in Nat /\ Len(backlog[w]) \in Nat
    OBVIOUS
  <2> QED BY <1>1, <2>1, <2>2, <2>3 DEF AccountedBut
<1>5. ASSUME NEW l \in Keys, l # k PROVE AccountedBut(l, n)'
  <2>1. streams[l] # w
    BY <1>2, <1>5
  <2>2. event'[streams[l]] = event[streams[l]] \/ streams[l] = NoWorker
    BY <1>3, <2>1
  <2>3. AccountedBut(l, n) /\ streams'[l] = streams[l] /\ sent'[l] = sent[l]
        /\ handled'[l] = handled[l] /\ backlog' = backlog
    BY <1>3, <1>5
  <2>4. CASE streams[l] = NoWorker
    BY <2>3, <2>4 DEF AccountedBut
  <2>5. CASE streams[l] # NoWorker
    <3>1. Held(streams[l])' = Held(streams[l])
      BY <2>2, <2>3, <2>5 DEF Held
    <3> QED BY <2>2, <2>3, <2>5, <3>1 DEF AccountedBut
  <2> QED BY <2>4, <2>5
<1> QED BY <1>4, <1>5

(* A worker leaves its stream, either idle or at the mark of the end: all  *)
(* its events are handled.                                                 *)
LEMMA LeaveAccounted ==
  ASSUME TypeOK, StreamsMatchWorkers, EventWhileProcessing, NEW w \in Workers,
         ExitIdle(w) \/ TakeEOS(w),
         NEW n \in {0, 1}, \A k \in Keys : AccountedBut(k, n)
  PROVE  \A k \in Keys : AccountedBut(k, n)'
<1> USE DEF TypeOK
<1>1. PICK k \in Keys : k = keyOf[w] /\ streams[k] = w /\ event[w] = 0 /\ w # NoWorker
  BY DEF ExitIdle, TakeEOS, StreamsMatchWorkers, LiveStates, EventWhileProcessing
<1>2. \A l \in Keys : streams[l] = w => l = k
  BY <1>1 DEF StreamsMatchWorkers
<1>3. /\ streams' = [streams EXCEPT ![k] = NoWorker]
      /\ event' = [event EXCEPT ![w] = 0]
      /\ handled' = handled /\ sent' = sent /\ backlog' = backlog
  BY <1>1 DEF ExitIdle, TakeEOS, LeaveStream, DropStream
<1>4. /\ Len(backlog[w]) >= n /\ sent[k] = handled[k] + Len(backlog[w]) - n
      /\ \A i \in 1..(Len(backlog[w]) - n) : backlog[w][i] = handled[k] + i
  BY <1>1 DEF AccountedBut, Held
<1>5. Len(backlog[w]) = n
  <2>1. Len(backlog[w]) \in Nat /\ handled[k] \in Nat
    OBVIOUS
  <2>2. CASE ExitIdle(w)
    BY <1>4, <2>1, <2>2 DEF ExitIdle, TrulyIdle
  <2>3. CASE TakeEOS(w)
    <3>1. backlog[w][1] = EOS
      BY <2>3, HeadTailProperties DEF TakeEOS
    <3>2. ASSUME Len(backlog[w]) > n PROVE FALSE
      <4>1. 1 \in 1..(Len(backlog[w]) - n)
        BY <2>1, <3>2
      <4>2. backlog[w][1] = handled[k] + 1
        BY <1>4, <4>1
      <4> QED BY <2>1, <3>1, <4>2
    <3> QED BY <1>4, <2>1, <3>2
  <2> QED BY <2>2, <2>3
<1>6. handled[k] = sent[k]
  BY <1>4, <1>5
<1>7. ASSUME NEW l \in Keys, l # k PROVE AccountedBut(l, n)'
  <2>1. streams[l] # w
    BY <1>2, <1>7
  <2>2. event'[streams[l]] = event[streams[l]] \/ streams[l] = NoWorker
    BY <1>3, <2>1
  <2>3. AccountedBut(l, n) /\ streams'[l] = streams[l] /\ sent'[l] = sent[l]
        /\ handled'[l] = handled[l] /\ backlog' = backlog
    BY <1>3, <1>7
  <2>4. CASE streams[l] = NoWorker
    BY <2>3, <2>4 DEF AccountedBut
  <2>5. CASE streams[l] # NoWorker
    <3>1. Held(streams[l])' = Held(streams[l])
      BY <2>2, <2>3, <2>5 DEF Held
    <3> QED BY <2>2, <2>3, <2>5, <3>1 DEF AccountedBut
  <2> QED BY <2>4, <2>5
<1>8. AccountedBut(k, n)'
  BY <1>3, <1>6 DEF AccountedBut
<1> QED BY <1>7, <1>8

(* The depletion starts: the mark is put behind the events.                *)
LEMMA StartAccounted ==
  ASSUME TypeOK, StartDepletion, \A k \in Keys : AccountedBut(k, 0)
  PROVE  \A k \in Keys : AccountedBut(k, 1)'
<1> USE DEF TypeOK
<1>1. SUFFICES ASSUME NEW k \in Keys PROVE AccountedBut(k, 1)'
  OBVIOUS
<1>2. /\ streams' = streams /\ sent' = sent /\ handled' = handled /\ event' = event
      /\ backlog' = [w \in Workers |->
                   IF \E l \in Keys : streams[l] = w THEN WithEOS(w) ELSE backlog[w]]
  BY DEF StartDepletion
<1>3. CASE streams[k] = NoWorker
  BY <1>2, <1>3 DEF AccountedBut
<1>4. CASE streams[k] # NoWorker
  <2>0. PICK w \in Workers : w = streams[k]
    BY <1>4
  <2> DEFINE b == backlog[w]
             d == handled[k] + Held(w)
  <2>1. w \in Workers /\ b \in Seq(Nat) /\ Len(b) \in Nat
    OBVIOUS
  <2>2. backlog'[w] = Append(b, EOS)
    BY <1>2, <2>0, <2>1 DEF WithEOS
  <2>3. /\ event[w] # 0 => event[w] = handled[k] + 1
        /\ sent[k] = d + Len(b) - 0
        /\ \A i \in 1..(Len(b) - 0) : b[i] = d + i
    BY <1>4, <2>0 DEF AccountedBut
  <2>4. Held(w)' = Held(w) /\ Held(w) \in Nat /\ handled[k] \in Nat
    BY <1>2 DEF Held
  <2>5. streams'[k] = w /\ handled'[k] = handled[k] /\ sent'[k] = sent[k] /\ event'[w] = event[w]
    BY <1>2, <2>0
  <2>6. d \in Nat
    BY <2>4
  <2> HIDE DEF b, d
  <2>7. /\ Len(Append(b, EOS)) = Len(b) + 1
        /\ \A i \in 1..Len(b) : Append(b, EOS)[i] = b[i]
        /\ Append(b, EOS)[Len(b) + 1] = EOS
    BY <2>1, AppendProperties
  <2> DEFINE c == backlog'[w]
  <2>8. /\ Len(c) = Len(b) + 1 /\ c[Len(c)] = EOS
        /\ \A i \in 1..Len(b) : c[i] = b[i]
    BY <2>2, <2>7
  <2> HIDE DEF c
  <2>9. Len(c) >= 1 /\ sent[k] = d + Len(c) - 1 /\ Len(c) - 1 = Len(b)
    BY <2>1, <2>3, <2>6, <2>8
  <2>10. \A i \in 1..(Len(c) - 1) : c[i] = d + i
    BY <2>1, <2>3, <2>8, <2>9
  <2>11. w # NoWorker
    BY <1>4, <2>0
  <2>12. /\ event'[w] # 0 => event'[w] = handled'[k] + 1
         /\ Len(backlog'[w]) >= 1
         /\ sent'[k] = handled'[k] + Held(w)' + Len(backlog'[w]) - 1
         /\ \A i \in 1..(Len(backlog'[w]) - 1) : backlog'[w][i] = handled'[k] + Held(w)' + i
         /\ backlog'[w][Len(backlog'[w])] = EOS
    <3>1. d = handled'[k] + Held(w)'
      BY <2>4, <2>5 DEF d
    <3> QED BY <2>3, <2>5, <2>8, <2>9, <2>10, <3>1 DEF c
  <2> QED BY <2>5, <2>11, <2>12 DEF AccountedBut
<1> QED BY <1>3, <1>4

(* All pending tasks are in the scheduler's queue.                         *)
LEMMA NextPendingIsListed ==
  ASSUME TypeOK, WithinLimit, PendingIsPending, PendingIsListed, Next
  PROVE  PendingIsListed'
<1>0. SUFFICES ASSUME NEW v \in Workers, job'[v] = "pending"
               PROVE  \E i \in 1..Len(pending') : pending'[i] = v
  BY DEF PendingIsListed
<1> USE DEF TypeOK
<1>1. ASSUME pending' = pending, job[v] = "pending"
      PROVE  \E i \in 1..Len(pending') : pending'[i] = v
  BY <1>1 DEF PendingIsListed
<1>2. ASSUME NEW k \in Keys, NEW w \in Workers, ReceiveNew(k, w)
      PROVE  \E i \in 1..Len(pending') : pending'[i] = v
  <2>1. /\ pending' = Append(pending, w) /\ job' = [job EXCEPT ![w] = "pending"]
        /\ pending \in Seq(Workers) /\ Len(pending) \in Nat
    BY <1>2 DEF ReceiveNew
  <2>2. /\ Len(pending') = Len(pending) + 1
        /\ \A i \in 1..Len(pending) : pending'[i] = pending[i]
        /\ pending'[Len(pending) + 1] = w
    BY <2>1, AppendProperties
  <2>3. CASE v = w
    <3>1. Len(pending) + 1 \in 1..Len(pending')
      BY <2>1, <2>2
    <3> QED BY <2>2, <2>3, <3>1
  <2>4. CASE v # w
    <3>1. job[v] = "pending"
      BY <1>0, <2>1, <2>4
    <3>2. PICK i \in 1..Len(pending) : pending[i] = v
      BY <3>1 DEF PendingIsListed
    <3>3. i \in 1..Len(pending') /\ pending'[i] = v
      BY <2>1, <2>2, <3>2
    <3> QED BY <3>3
  <2> QED BY <2>3, <2>4
<1>3. CASE SpawnerRuns
  <2>1. SpawnCount \in 0..Len(pending) /\ Len(pending) \in Nat
    BY SpawnCountType
  <2>2. /\ job' = [w \in Workers |-> IF w \in Spawned THEN "created" ELSE job[w]]
        /\ pending' = SubSeq(pending, SpawnCount + 1, Len(pending))
    BY <1>3 DEF SpawnerRuns, SpawnCount, Spawned
  <2>3. v \notin Spawned /\ job[v] = "pending"
    BY <1>0, <2>2
  <2>4. PICK i \in 1..Len(pending) : pending[i] = v
    BY <2>3 DEF PendingIsListed
  <2>5. i \notin 1..SpawnCount
    BY <2>3, <2>4 DEF Spawned
  <2>6. /\ Len(pending') = Len(pending) - SpawnCount
        /\ \A j \in 1..Len(pending') : pending'[j] = pending[j + SpawnCount]
    <3>1. \A j \in 1..Len(pending) : pending[j] \in Workers
      BY ElementOfSeq
    <3> HIDE DEF TypeOK
    <3> QED BY <2>1, <2>2, <3>1, SubSeqProperties
  <2>7. i - SpawnCount \in 1..Len(pending') /\ (i - SpawnCount) + SpawnCount = i
    <3>1. i \in 1..Len(pending) /\ ~(i <= SpawnCount) /\ SpawnCount \in Nat
      BY <2>1, <2>4, <2>5
    <3> HIDE DEF TypeOK
    <3>2. i - SpawnCount \in 1..(Len(pending) - SpawnCount)
      BY <2>1, <3>1
    <3> QED BY <2>6, <3>1, <3>2
  <2> QED BY <2>4, <2>6, <2>7
<1>4. ASSUME NEW w \in Workers, WorkerStep(w) \/ FailEvent(w) \/ SchedulerStep(w)
      PROVE  pending' = pending /\ job[v] = "pending"
  BY <1>0, <1>4 DEF WorkerStep, StartWorker, TakeEvent, TakeEOS, IdleTimeout, ExitIdle,
              ContinueAfterTimeout, FinishEvent, CancelStarted, CancelUnstarted,
              FailEvent, LeaveStream, SchedulerStep, TaskDone, CleanerRuns, schedulerVars
<1>5. ASSUME (\E k \in Keys : ReceiveKnown(k)) \/ StopWatcher \/ Unwind \/ Terminated
      PROVE  pending' = pending /\ job' = job
  BY <1>5 DEF ReceiveKnown, StopWatcher, Unwind, StartDepletion, CheckDepletion,
       DepletionTimeout, CloseScheduler, CheckClosed, Terminated, vars, schedulerVars
<1> QED BY <1>0, <1>1, <1>2, <1>3, <1>4, <1>5 DEF Next

(* When the depletion is over in time, nothing is left: either there are   *)
(* no streams, or there are no tasks, and so no streams either.            *)
LEMMA DepletedIsEmpty ==
  ASSUME TypeOK, ServedUntilClosed, PendingIsListed, phase = "depleting", Depleted
  PROVE  \A k \in Keys : streams[k] = NoWorker
<1> SUFFICES ASSUME SchedulerEmpty, NEW k \in Keys, streams[k] # NoWorker PROVE FALSE
  BY DEF Depleted
<1>1. streams[k] \in Workers /\ job[streams[k]] \in LiveStates
  BY DEF TypeOK, ServedUntilClosed, SchedulerClosed
<1>2. streams[k] \notin Running
  BY DEF SchedulerEmpty
<1>3. job[streams[k]] = "pending"
  BY <1>1, <1>2 DEF Running, RunningStates, LiveStates
<1>4. \E i \in 1..Len(pending) : pending[i] = streams[k]
  BY <1>1, <1>3 DEF PendingIsListed
<1> QED BY <1>4 DEF SchedulerEmpty

(* The events are accounted for all along the exit, unless it is forced.   *)
LEMMA NextDraining ==
  ASSUME TypeOK, WithinLimit, PendingIsPending, PendingIsListed, StreamsMatchWorkers,
         ServedUntilClosed, EventWhileProcessing, AllAccounted, Draining, Next
  PROVE  Draining'
<1> USE DEF TypeOK
<1>1. SUFFICES ASSUME NoFailure', ~forced' PROVE Draining'
  BY DEF Draining
<1>2. NoFailure
  BY <1>1, FailureStays
<1>3. ~forced
  BY <1>1 DEF Next, ReceiveKnown, ReceiveNew, WorkerStep, StartWorker, TakeEvent, TakeEOS,
     IdleTimeout, ExitIdle, ContinueAfterTimeout, FinishEvent, CancelStarted, CancelUnstarted,
     FailEvent, LeaveStream, SchedulerStep, TaskDone, CleanerRuns, SpawnerRuns, StopWatcher,
     Unwind, StartDepletion, CheckDepletion, DepletionTimeout, CloseScheduler, CheckClosed,
     Terminated, vars, watcherVars
<1>4. /\ phase \in {"cancelled", "raised"} => \A k \in Keys : AccountedBut(k, 0)
      /\ phase = "depleting" => \A k \in Keys : AccountedBut(k, 1)
      /\ phase \in {"closing", "waiting", "closed"} =>
            \A k \in Keys : streams[k] = NoWorker /\ handled[k] = sent[k]
  BY <1>2, <1>3 DEF Draining
<1>5. ASSUME NEW k \in Keys, ReceiveKnown(k) PROVE Draining'
  BY <1>5 DEF ReceiveKnown, watcherVars, Draining
<1>6. ASSUME NEW k \in Keys, NEW w \in Workers, ReceiveNew(k, w) PROVE Draining'
  BY <1>6 DEF ReceiveNew, watcherVars, Draining
<1>7. ASSUME phase' = phase, UNCHANGED <<sent, handled, streams, backlog, event>>
      PROVE  Draining'
  <2>1. \A k \in Keys, n \in {0, 1} : AccountedBut(k, n) => AccountedBut(k, n)'
    BY <1>7, SameAccounted
  <2> QED BY <1>4, <1>7, <2>1 DEF Draining
<1>8. ASSUME NEW w \in Workers,
             StartWorker(w) \/ IdleTimeout(w) \/ ContinueAfterTimeout(w) \/ CancelUnstarted(w)
             \/ CleanerRuns(w)
      PROVE  Draining'
  <2>1. phase' = phase /\ UNCHANGED <<sent, handled, streams, backlog>>
    BY <1>8 DEF StartWorker, IdleTimeout, ContinueAfterTimeout, CancelUnstarted, CleanerRuns,
       watcherVars, streamVars
  <2>2. event' = event
    BY <1>8 DEF StartWorker, IdleTimeout, ContinueAfterTimeout, CancelUnstarted, CleanerRuns
  <2> QED BY <1>7, <2>1, <2>2
<1>9. ASSUME NEW w \in Workers, TaskDone(w) PROVE Draining'
  <2>1. job[w] # "failed"
    BY <1>2 DEF NoFailure
  <2>2. phase' = phase /\ UNCHANGED <<sent, handled, streams, backlog, event>>
    BY <1>9, <2>1 DEF TaskDone, EscalateFailure, streamVars
  <2> QED BY <1>7, <2>2
<1>10. ASSUME NEW w \in Workers,
              TakeEvent(w) \/ FinishEvent(w) \/ ExitIdle(w) \/ TakeEOS(w)
       PROVE  Draining'
  <2>1. phase' = phase
    BY <1>10 DEF TakeEvent, FinishEvent, ExitIdle, TakeEOS, LeaveStream, watcherVars
  <2>2. job[w] \in LiveStates
    BY <1>10 DEF TakeEvent, FinishEvent, ExitIdle, TakeEOS, LiveStates
  <2>3. streams[keyOf[w]] = w /\ w # NoWorker /\ keyOf[w] \in Keys
    BY <2>2 DEF StreamsMatchWorkers
  <2>4. phase \notin {"closing", "waiting", "closed"}
    BY <1>4, <2>3
  <2>5. \A n \in {0, 1} : (\A k \in Keys : AccountedBut(k, n))
                            => \A k \in Keys : AccountedBut(k, n)'
    BY <1>10, TakeAccounted, FinishAccounted, LeaveAccounted
  <2> QED BY <1>4, <2>1, <2>4, <2>5 DEF Draining
<1>11. ASSUME NEW w \in Workers, CancelStarted(w) PROVE Draining'
  <2>1. streams[keyOf[w]] = w /\ w # NoWorker /\ keyOf[w] \in Keys
    BY <1>11 DEF CancelStarted, StreamsMatchWorkers, LiveStates
  <2>2. SchedulerClosed
    BY <1>11 DEF CancelStarted, ServedUntilClosed
  <2> QED BY <1>4, <2>1, <2>2 DEF SchedulerClosed
<1>12. ASSUME NEW w \in Workers, FailEvent(w) PROVE FALSE
  BY <1>1, <1>12 DEF FailEvent, LeaveStream, NoFailure
<1>13. CASE SpawnerRuns \/ Terminated
  <2>1. phase' = phase /\ UNCHANGED <<sent, handled, streams, backlog, event>>
    BY <1>13 DEF SpawnerRuns, Terminated, vars, watcherVars, streamVars
  <2> QED BY <1>7, <2>1
<1>14. CASE StopWatcher
  <2>1. /\ phase = "streaming" /\ phase' \in {"cancelled", "raised"}
        /\ UNCHANGED <<sent, handled, streams, backlog, event>>
    BY <1>14 DEF StopWatcher, streamVars
  <2>2. \A k \in Keys : Accounted(k)
    BY <1>2, <2>1 DEF AllAccounted
  <2>3. \A k \in Keys : AccountedBut(k, 0)
    BY <2>2 DEF Accounted, AccountedBut, Held
  <2>4. \A k \in Keys : AccountedBut(k, 0)'
    BY <2>1, <2>3, SameAccounted
  <2> QED BY <2>1, <2>4 DEF Draining
<1>15. CASE StartDepletion
  <2>1. phase \in {"cancelled", "raised"} /\ phase' = "depleting"
    BY <1>15 DEF StartDepletion
  <2>2. \A k \in Keys : AccountedBut(k, 1)'
    BY <1>4, <1>15, <2>1, StartAccounted
  <2> QED BY <2>1, <2>2 DEF Draining
<1>16. CASE CheckDepletion
  <2>1. /\ phase = "depleting" /\ UNCHANGED <<sent, handled, streams, backlog, event>>
        /\ phase' = IF Depleted THEN "closing" ELSE phase
    BY <1>16 DEF CheckDepletion, streamVars
  <2>2. CASE ~Depleted
    BY <1>7, <2>1, <2>2
  <2>3. CASE Depleted
    <3>1. \A k \in Keys : streams[k] = NoWorker
      BY <2>1, <2>3, DepletedIsEmpty
    <3>2. \A k \in Keys : handled[k] = sent[k]
      BY <1>4, <2>1, <3>1 DEF AccountedBut
    <3> QED BY <2>1, <2>3, <3>1, <3>2 DEF Draining
  <2> QED BY <2>2, <2>3
<1>17. CASE DepletionTimeout
  BY <1>1, <1>17 DEF DepletionTimeout
<1>18. CASE CloseScheduler \/ CheckClosed
  <2>1. /\ phase \in {"closing", "waiting"} /\ phase' \in {"waiting", "closed"}
        /\ UNCHANGED <<sent, handled, streams>>
    BY <1>18 DEF CloseScheduler, CheckClosed, streamVars
  <2> QED BY <1>4, <2>1 DEF Draining
<1> QED
  BY <1>5, <1>6, <1>8, <1>9, <1>10, <1>11, <1>12, <1>13, <1>14, <1>15, <1>16, <1>17, <1>18
     DEF Next, WorkerStep, SchedulerStep, Unwind

-----------------------------------------------------------------------------
(* The inductive invariant holds initially and is preserved by every step. *)
LEMMA InitIInv == Init => IInv
<1> SUFFICES ASSUME Init PROVE IInv
  OBVIOUS
<1> USE DEF Init
<1>1. TypeOK
  <2>1. <<>> \in Seq(Nat) /\ <<>> \in Seq(Workers)
    BY EmptySeq
  <2>2. keyOf \in [Workers -> Keys]
    BY DEF Init
  <2> QED BY <2>1, <2>2 DEF TypeOK, Phases, JobStates, Waiters
<1>2. WithinLimit
  <2>1. Running = {}
    BY DEF Running, RunningStates
  <2> QED BY <2>1, FS_EmptySet DEF WithinLimit
<1>3. StreamsMatchWorkers /\ ServedUntilClosed
  BY DEF StreamsMatchWorkers, ServedUntilClosed, LiveStates
<1>4. PendingIsPending
  BY DEF PendingIsPending
<1>5. EventWhileProcessing /\ AllAccounted
  BY DEF EventWhileProcessing, AllAccounted, Accounted
<1>6. UnmarkedBefore /\ Pressed
  BY DEF UnmarkedBefore, Pressed
<1>7. PendingIsListed /\ Draining
  BY DEF PendingIsListed, Draining
<1> QED BY <1>1, <1>2, <1>3, <1>4, <1>5, <1>6, <1>7 DEF IInv

LEMMA StutterIInv == IInv /\ UNCHANGED vars => IInv'
<1> SUFFICES ASSUME IInv, UNCHANGED vars PROVE IInv'
  OBVIOUS
<1> USE DEF IInv, vars
<1>1. TypeOK'
  BY DEF TypeOK
<1>2. WithinLimit'
  BY DEF WithinLimit, Running
<1>3. StreamsMatchWorkers' /\ PendingIsPending' /\ EventWhileProcessing'
  BY DEF StreamsMatchWorkers, PendingIsPending, EventWhileProcessing
<1>4. ServedUntilClosed'
  BY DEF ServedUntilClosed, SchedulerClosed
<1>5. AllAccounted'
  BY DEF AllAccounted, NoFailure, Accounted, Held
<1>6. UnmarkedBefore' /\ Pressed'
  BY DEF UnmarkedBefore, Pressed
<1>7. PendingIsListed' /\ Draining'
  BY DEF PendingIsListed, Draining, NoFailure, AccountedBut, Held
<1> QED BY <1>1, <1>2, <1>3, <1>4, <1>5, <1>6, <1>7

LEMMA NextIInv == IInv /\ [Next]_vars => IInv'
BY StutterIInv, NextTypeOK, NextWithinLimit, NextPendingIsPending, NextStreamsMatchWorkers,
   NextServedUntilClosed, NextEventWhileProcessing, NextAllAccounted,
   NextUnmarkedBefore, NextPressed, NextPendingIsListed, NextDraining DEF IInv

THEOREM IInvHolds == Spec => []IInv
BY InitIInv, NextIInv, PTL DEF Spec

(***************************************************************************)
(* Every variable of the multiplexer stays in its type; in particular the  *)
(* spawner of the scheduler never takes more coroutines from its queue     *)
(* than there are.                                                         *)
(***************************************************************************)
THEOREM TypeCorrect == Spec => []TypeOK
<1>1. IInv => TypeOK
  BY DEF IInv
<1> QED BY IInvHolds, <1>1, PTL

(***************************************************************************)
(* settings.queueing.worker_limit is never exceeded, whatever the order in *)
(* which tasks end, are cleaned up, are cancelled and are spawned.         *)
(***************************************************************************)
THEOREM LimitRespected == Spec => []WithinLimit
<1>1. IInv => WithinLimit
  BY DEF IInv
<1> QED BY IInvHolds, <1>1, PTL

(***************************************************************************)
(* One single object is handled sequentially.                              *)
(***************************************************************************)
THEOREM ObjectsAreSerialized == Spec => []Serialized
<1>1. IInv => Serialized
  BY DEF IInv, StreamsMatchWorkers, Serialized, LiveStates
<1> QED BY IInvHolds, <1>1, PTL

(***************************************************************************)
(* Until the scheduler is closed, a stream in the dict has a worker that   *)
(* is going to take its events.                                            *)
(***************************************************************************)
THEOREM StreamsAreServed == Spec => []EveryStreamIsServed
<1>1. IInv => EveryStreamIsServed
  BY DEF IInv, ServedUntilClosed, EveryStreamIsServed
<1> QED BY IInvHolds, <1>1, PTL

(***************************************************************************)
(* While the operator serves, the unhandled events of an object are those  *)
(* in its stream and its worker, all of them and in the order of arrival.  *)
(***************************************************************************)
THEOREM NoEventIsLost == Spec => []NothingLost
<1>1. IInv => NothingLost
  <2> SUFFICES ASSUME IInv, phase = "streaming", NoFailure, NEW k \in Keys
               PROVE  Undelivered(k) = [i \in 1..(sent[k] - handled[k]) |-> handled[k] + i]
    BY DEF NothingLost
  <2>0. TypeOK /\ Accounted(k)
    BY DEF IInv, AllAccounted
  <2> USE DEF TypeOK
  <2>1. CASE streams[k] = NoWorker
    <3>1. Undelivered(k) = <<>> \o <<>> /\ handled[k] = sent[k]
      BY <2>0, <2>1 DEF Undelivered, Current, Waiting, Accounted
    <3>2. 1..(sent[k] - handled[k]) = {}
      BY <2>0, <3>1
    <3>3. [i \in 1..(sent[k] - handled[k]) |-> handled[k] + i] = <<>>
      BY <3>2
    <3> QED BY <3>1, <3>3
  <2>2. CASE streams[k] # NoWorker
    <3> DEFINE b == backlog[streams[k]]
               e == event[streams[k]]
               d == handled[k]
    <3>1. /\ b \in Seq(Nat) /\ Len(b) \in Nat /\ d \in Nat /\ e \in Nat /\ sent[k] \in Nat
      BY <2>0, <2>2
    <3>2. /\ e # 0 => e = d + 1
          /\ sent[k] = d + Held(streams[k]) + Len(b)
          /\ \A i \in 1..Len(b) : b[i] = d + Held(streams[k]) + i
      BY <2>0, <2>2 DEF Accounted
    <3>3. Waiting(k) = b
      <4>1. ASSUME b # <<>> PROVE Last(b) # EOS
        <5>1. Len(b) \in 1..Len(b)
          BY <3>1, <4>1, EmptySeq
        <5>2. Held(streams[k]) \in Nat
          BY DEF Held
        <5> HIDE DEF b, d
        <5>3. b[Len(b)] = d + Held(streams[k]) + Len(b)
          BY <3>2, <5>1
        <5> QED BY <3>1, <5>1, <5>2, <5>3 DEF Last
      <4> QED BY <2>2, <4>1 DEF Waiting
    <3>4. CASE e = 0
      <4>1. Undelivered(k) = b
        BY <2>2, <3>1, <3>3, <3>4, ConcatEmptySeq DEF Undelivered, Current
      <4>2. Len(b) = sent[k] - d /\ \A i \in 1..Len(b) : b[i] = d + i
        BY <3>1, <3>2, <3>4 DEF Held
      <4>3. b = [i \in 1..Len(b) |-> b[i]]
        BY <3>1
      <4> QED BY <4>1, <4>2, <4>3
    <3>5. CASE e # 0
      <4>1. Undelivered(k) = <<e>> \o b
        BY <2>2, <3>3, <3>5 DEF Undelivered, Current
      <4>2. Len(b) = sent[k] - d - 1 /\ \A i \in 1..Len(b) : b[i] = d + 1 + i
        <5>1. Held(streams[k]) = 1
          BY <3>5 DEF Held
        <5> HIDE DEF b, d
        <5> QED BY <3>1, <3>2, <5>1
      <4>3. <<e>> \in Seq(Nat) /\ Len(<<e>>) = 1 /\ <<e>>[1] = d + 1
        BY <3>1, <3>2, <3>5
      <4>4. /\ <<e>> \o b \in Seq(Nat) /\ Len(<<e>> \o b) = 1 + Len(b)
            /\ \A i \in 1..(1 + Len(b)) :
                 (<<e>> \o b)[i] = IF i <= 1 THEN <<e>>[i] ELSE b[i - 1]
        BY <3>1, <4>3, ConcatProperties
      <4>5. \A i \in 1..(sent[k] - d) : (<<e>> \o b)[i] = d + i
        <5> SUFFICES ASSUME NEW i \in 1..(sent[k] - d) PROVE (<<e>> \o b)[i] = d + i
          OBVIOUS
        <5>1. CASE i = 1 BY <3>1, <4>2, <4>3, <4>4, <5>1
        <5>2. CASE i # 1
          <6>1. i - 1 \in 1..Len(b)
            BY <3>1, <4>2, <5>2
          <6> HIDE DEF b, d, e
          <6>2. b[i - 1] = d + 1 + (i - 1)
            BY <4>2, <6>1
          <6>3. i \in 1..(1 + Len(b)) /\ ~(i <= 1)
            BY <3>1, <4>2, <5>2
          <6>4. (<<e>> \o b)[i] = b[i - 1]
            BY <4>4, <6>3
          <6>5. d + 1 + (i - 1) = d + i
            <7>1. d \in Nat /\ i \in Int
              BY <3>1, <6>3
            <7> QED BY <7>1
          <6> QED BY <6>2, <6>4, <6>5
        <5> QED BY <5>1, <5>2
      <4>6. 1..(sent[k] - d) = 1..Len(<<e>> \o b)
        BY <3>1, <4>2, <4>4
      <4>7. <<e>> \o b = [i \in 1..Len(<<e>> \o b) |-> (<<e>> \o b)[i]]
        BY <4>4
      <4> QED BY <4>1, <4>5, <4>6, <4>7
    <3> QED BY <3>4, <3>5
  <2> QED BY <2>1, <2>2
<1> QED BY IInvHolds, <1>1, PTL

(***************************************************************************)
(* While there is an event behind the one that is processed, the pressure  *)
(* is up, and the processor does not sleep through it.                     *)
(***************************************************************************)
THEOREM PressureIsTold == Spec => []PressureIsHonest
<1>1. IInv => PressureIsHonest
  <2> SUFFICES ASSUME IInv, NEW k \in Keys, Waiting(k) # <<>> PROVE pressure[streams[k]]
    BY DEF PressureIsHonest
  <2> DEFINE b == backlog[streams[k]]
  <2>1. streams[k] # NoWorker /\ b # <<>>
    BY DEF Waiting
  <2>2. b # <<EOS>>
    <3>1. ASSUME b = <<EOS>> PROVE FALSE
      <4>1. Last(b) = EOS /\ Front(b) = <<>>
        BY <3>1 DEF Last, Front
      <4> QED BY <2>1, <4>1 DEF Waiting
    <3> QED BY <3>1
  <2> QED BY <2>1, <2>2 DEF IInv, Pressed
<1> QED BY IInvHolds, <1>1, PTL

(***************************************************************************)
(* When the watcher exits in time and without failures, every received     *)
(* event has been handled, for any limit of workers.                       *)
(***************************************************************************)
THEOREM ExitsAreGraceful == Spec => []GracefulDepletion
<1>1. IInv => GracefulDepletion
  <2> SUFFICES ASSUME IInv, phase \in {"closing", "waiting", "closed"}, ~forced, NoFailure
               PROVE  handled = sent
    BY DEF GracefulDepletion
  <2>1. \A k \in Keys : handled[k] = sent[k]
    BY DEF IInv, Draining
  <2>2. handled \in [Keys -> Nat] /\ sent \in [Keys -> Nat]
    BY DEF IInv, TypeOK
  <2> QED BY <2>1, <2>2
<1> QED BY IInvHolds, <1>1, PTL
-----------------------------------------------------------------------------
(* Nobody waits on a condition in vain.                                    *)

SpawnerIsTold == pending # <<>> /\ Capacity > 0 => "spawner" \in notified \/ IsCleaning
DepletionIsTold ==
  phase = "depleting" /\ (\A k \in Keys : streams[k] = NoWorker) => "depletion" \in notified
CloserIsTold == phase = "waiting" /\ SchedulerEmpty => "closer" \in notified \/ IsCleaning
ClosedIsCancelled == SchedulerClosed => Running \subseteq cancelled

WInv == SpawnerIsTold /\ DepletionIsTold /\ CloserIsTold /\ ClosedIsCancelled

(* Of a task, only its creation, its end and its cleanup matter to those   *)
(* who wait for the scheduler.                                             *)
TaskStays(w) == IdleTimeout(w) \/ ContinueAfterTimeout(w) \/ FinishEvent(w) \/ TakeEvent(w)
                  \/ StartWorker(w) \/ CancelUnstarted(w)
TaskLeaves(w) == TakeEOS(w) \/ ExitIdle(w) \/ FailEvent(w) \/ CancelStarted(w)

LEMMA StayingTasks ==
  ASSUME TypeOK, NEW w \in Workers, TaskStays(w)
  PROVE  /\ UNCHANGED <<watcherVars, schedulerVars, streams>>
         /\ Running' = Running /\ IsCleaning' = IsCleaning
<1> USE DEF TypeOK, Running, IsCleaning, RunningStates, JobStates, streamVars
<1>1. \/ UNCHANGED job
      \/ \E s \in RunningStates : job[w] \in RunningStates /\ job' = [job EXCEPT ![w] = s]
  BY DEF TaskStays, IdleTimeout, ContinueAfterTimeout, FinishEvent, TakeEvent, StartWorker,
         CancelUnstarted
<1>2. UNCHANGED <<watcherVars, schedulerVars, streams>>
  BY DEF TaskStays, IdleTimeout, ContinueAfterTimeout, FinishEvent, TakeEvent, StartWorker,
         CancelUnstarted
<1> QED BY <1>1, <1>2

LEMMA LeavingTasks ==
  ASSUME TypeOK, NEW w \in Workers, TaskLeaves(w)
  PROVE  /\ UNCHANGED <<watcherVars, pending, cancelled>>
         /\ notified \subseteq notified'
         /\ phase = "depleting" => "depletion" \in notified'
         /\ Running' = Running /\ IsCleaning' = IsCleaning
<1> USE DEF TypeOK, Running, IsCleaning, RunningStates, JobStates
<1>1. \E s \in {"ended", "failed"} :
        job[w] \in RunningStates /\ job' = [job EXCEPT ![w] = s]
  BY DEF TaskLeaves, TakeEOS, ExitIdle, FailEvent, CancelStarted, LeaveStream
<1>2. UNCHANGED <<watcherVars, pending, cancelled>> /\ SignalDepletion
  BY DEF TaskLeaves, TakeEOS, ExitIdle, FailEvent, CancelStarted, LeaveStream
<1> QED BY <1>1, <1>2 DEF SignalDepletion

(* The spawner starts as many tasks as it may, or all there are.           *)
LEMMA SpawnerFills ==
  ASSUME TypeOK, WithinLimit, PendingIsPending, SpawnerRuns
  PROVE  /\ pending' = <<>> \/ ~(Capacity' > 0)
         /\ Running' = Running \cup Spawned
         /\ Spawned = {} /\ Running = {} => pending = <<>>
<1> USE DEF RunningStates
<1>0. Len(pending) \in Nat /\ \A i \in 1..Len(pending) : pending[i] \in Workers
  BY LenProperties, ElementOfSeq DEF TypeOK
<1>1. IsFiniteSet(Running) /\ Cardinality(Running) \in Nat
  BY RunningIsFinite
<1>2. /\ SpawnCount \in 0..Len(pending)
      /\ SpawnCount <= Limit - Cardinality(Running)
      /\ Spawned \in SUBSET Workers
  BY SpawnCountType
<1>3. Running' = Running \cup Spawned
  BY <1>2 DEF SpawnerRuns, SpawnCount, Spawned, Running, TypeOK
<1>4. Running \cap Spawned = {}
  BY SpawnedArePending DEF Running
<1>5. IsFiniteSet(Spawned) /\ Cardinality(Spawned) = SpawnCount
  <2>1. [i \in 1..SpawnCount |-> pending[i]] \in Bijection(1..SpawnCount, Spawned)
    <3> DEFINE f == [i \in 1..SpawnCount |-> pending[i]]
    <3>1. \A i, j \in 1..SpawnCount : f[i] = f[j] => i = j
      BY <1>0, <1>2 DEF PendingIsPending
    <3>2. f \in [1..SpawnCount -> Spawned] /\ \A w \in Spawned : \E i \in 1..SpawnCount : f[i] = w
      BY DEF Spawned
    <3> QED BY <3>1, <3>2 DEF Bijection, Injection, Surjection, IsInjective
  <2>2. IsFiniteSet(1..SpawnCount) /\ Cardinality(1..SpawnCount) = SpawnCount
    BY <1>0, <1>2, FS_Interval
  <2> QED BY <2>1, <2>2, FS_Bijection DEF ExistsBijection
<1>6. Cardinality(Running') = Cardinality(Running) + SpawnCount
  <2>1. Cardinality(Running \cap Spawned) = 0
    BY <1>4, FS_EmptySet
  <2>2. Cardinality(Running \cup Spawned) = Cardinality(Running) + Cardinality(Spawned)
                                             - Cardinality(Running \cap Spawned)
    BY <1>1, <1>5, FS_Union
  <2>3. SpawnCount \in Nat
    BY <1>0, <1>2
  <2> QED BY <1>1, <1>3, <1>5, <2>1, <2>2, <2>3
<1>7. pending' = <<>> \/ ~(Capacity' > 0)
  <2>1. pending' = SubSeq(pending, SpawnCount + 1, Len(pending))
    BY DEF SpawnerRuns, SpawnCount
  <2>2. CASE SpawnCount = Len(pending)
    BY <1>0, <2>1, <2>2 DEF TypeOK
  <2>3. CASE SpawnCount # Len(pending)
    <3>1. SpawnCount = Limit - Cardinality(Running)
      BY <2>3 DEF SpawnCount, Capacity
    <3>2. Capacity' = Limit - Cardinality(Running')
      BY DEF Capacity
    <3> QED BY <1>1, <1>6, <3>1, <3>2
  <2> QED BY <2>2, <2>3
<1>8. Spawned = {} /\ Running = {} => pending = <<>>
  <2> SUFFICES ASSUME Running = {}, pending # <<>> PROVE pending[1] \in Spawned
    OBVIOUS
  <2>1. Len(pending) > 0
    BY <1>0, EmptySeq DEF TypeOK
  <2>2. Capacity = Limit
    BY FS_EmptySet DEF Capacity
  <2> QED BY <1>0, <2>1, <2>2 DEF Spawned, SpawnCount
<1> QED BY <1>3, <1>7, <1>8

LEMMA NextSpawnerIsTold ==
  ASSUME IInv, SpawnerIsTold, Next
  PROVE  SpawnerIsTold'
<1> USE DEF IInv, SpawnerIsTold
<1>1. ASSUME UNCHANGED pending, Running' = Running, IsCleaning => IsCleaning',
             "spawner" \in notified => "spawner" \in notified'
      PROVE  SpawnerIsTold'
  BY <1>1 DEF Capacity
<1>2. ASSUME NEW k \in Keys, ReceiveKnown(k) PROVE SpawnerIsTold'
  BY <1>1, <1>2 DEF ReceiveKnown, schedulerVars, Running, IsCleaning
<1>3. ASSUME NEW k \in Keys, NEW w \in Workers, ReceiveNew(k, w) PROVE SpawnerIsTold'
  BY <1>3 DEF ReceiveNew
<1>4. ASSUME NEW w \in Workers, TaskStays(w) PROVE SpawnerIsTold'
  BY <1>1, <1>4, StayingTasks DEF schedulerVars
<1>5. ASSUME NEW w \in Workers, TaskLeaves(w) PROVE SpawnerIsTold'
  BY <1>1, <1>5, LeavingTasks
<1>6. ASSUME NEW w \in Workers, TaskDone(w) PROVE SpawnerIsTold'
  BY <1>6 DEF TaskDone, IsCleaning, TypeOK
<1>7. ASSUME NEW w \in Workers, CleanerRuns(w) PROVE SpawnerIsTold'
  BY <1>7 DEF CleanerRuns, NotifyAll
<1>8. CASE SpawnerRuns
  BY <1>8, SpawnerFills
<1>9. CASE StopWatcher \/ Unwind \/ Terminated
  <2>1. UNCHANGED <<pending, job>> /\ ("spawner" \in notified => "spawner" \in notified')
    BY <1>9 DEF StopWatcher, Unwind, StartDepletion, CheckDepletion, DepletionTimeout,
                CloseScheduler, CheckClosed, Terminated, vars, schedulerVars
  <2> QED BY <1>1, <2>1 DEF Running, IsCleaning
<1> QED BY <1>2, <1>3, <1>4, <1>5, <1>6, <1>7, <1>8, <1>9
        DEF Next, WorkerStep, SchedulerStep, TaskStays, TaskLeaves

LEMMA NextDepletionIsTold ==
  ASSUME IInv, DepletionIsTold, Next
  PROVE  DepletionIsTold'
<1> USE DEF IInv, DepletionIsTold
<1>1. ASSUME UNCHANGED <<phase, streams>>, "depletion" \in notified => "depletion" \in notified'
      PROVE  DepletionIsTold'
  BY <1>1
<1>2. ASSUME NEW k \in Keys, ReceiveKnown(k) PROVE DepletionIsTold'
  BY <1>2 DEF ReceiveKnown, watcherVars
<1>3. ASSUME NEW k \in Keys, NEW w \in Workers, ReceiveNew(k, w) PROVE DepletionIsTold'
  BY <1>3 DEF ReceiveNew, watcherVars
<1>4. ASSUME NEW w \in Workers, TaskStays(w) PROVE DepletionIsTold'
  BY <1>1, <1>4, StayingTasks DEF schedulerVars, watcherVars
<1>5. ASSUME NEW w \in Workers, TaskLeaves(w) PROVE DepletionIsTold'
  BY <1>5, LeavingTasks DEF watcherVars
<1>6. ASSUME NEW w \in Workers, TaskDone(w) PROVE DepletionIsTold'
  BY <1>6 DEF TaskDone, EscalateFailure, streamVars, schedulerVars
<1>7. ASSUME NEW w \in Workers, CleanerRuns(w) PROVE DepletionIsTold'
  BY <1>7 DEF CleanerRuns, NotifyAll, watcherVars, streamVars
<1>8. CASE SpawnerRuns
  BY <1>8 DEF SpawnerRuns, watcherVars, streamVars
<1>9. CASE StopWatcher \/ Terminated \/ Unwind
  BY <1>9 DEF StopWatcher, Unwind, StartDepletion, CheckDepletion, DepletionTimeout,
              CloseScheduler, CheckClosed, Terminated, vars, schedulerVars, streamVars, Depleted
<1> QED BY <1>2, <1>3, <1>4, <1>5, <1>6, <1>7, <1>8, <1>9
        DEF Next, WorkerStep, SchedulerStep, TaskStays, TaskLeaves

LEMMA NextCloserIsTold ==
  ASSUME IInv, CloserIsTold, Next
  PROVE  CloserIsTold'
<1> USE DEF IInv, CloserIsTold
<1>1. ASSUME UNCHANGED <<phase, pending>>, Running' = Running, IsCleaning => IsCleaning',
             "closer" \in notified => "closer" \in notified'
      PROVE  CloserIsTold'
  BY <1>1 DEF SchedulerEmpty
<1>2. ASSUME NEW k \in Keys, ReceiveKnown(k) PROVE CloserIsTold'
  BY <1>2 DEF ReceiveKnown, watcherVars
<1>3. ASSUME NEW k \in Keys, NEW w \in Workers, ReceiveNew(k, w) PROVE CloserIsTold'
  BY <1>3 DEF ReceiveNew, watcherVars
<1>4. ASSUME NEW w \in Workers, TaskStays(w) PROVE CloserIsTold'
  BY <1>1, <1>4, StayingTasks DEF schedulerVars, watcherVars
<1>5. ASSUME NEW w \in Workers, TaskLeaves(w) PROVE CloserIsTold'
  BY <1>1, <1>5, LeavingTasks DEF watcherVars
<1>6. ASSUME NEW w \in Workers, TaskDone(w) PROVE CloserIsTold'
  BY <1>6 DEF TaskDone, IsCleaning, TypeOK
<1>7. ASSUME NEW w \in Workers, CleanerRuns(w) PROVE CloserIsTold'
  BY <1>7 DEF CleanerRuns, NotifyAll, SchedulerClosed, watcherVars
<1>8. CASE SpawnerRuns
  <2> SUFFICES ASSUME phase = "waiting", SchedulerEmpty'
               PROVE  "closer" \in notified' \/ IsCleaning'
    BY <1>8 DEF SpawnerRuns, watcherVars
  <2>1. SchedulerEmpty
    BY <1>8, SpawnerFills DEF SchedulerEmpty
  <2>2. IsCleaning => IsCleaning'
    BY <1>8, SpawnedArePending DEF IsCleaning, SpawnerRuns, Spawned, SpawnCount, TypeOK
  <2> QED BY <1>8, <2>1, <2>2 DEF SpawnerRuns
<1>9. CASE StopWatcher \/ Terminated \/ Unwind
  BY <1>9 DEF StopWatcher, Unwind, StartDepletion, CheckDepletion, DepletionTimeout,
              CloseScheduler, CheckClosed, Terminated, vars, schedulerVars, SchedulerEmpty,
              Running, IsCleaning
<1> QED BY <1>2, <1>3, <1>4, <1>5, <1>6, <1>7, <1>8, <1>9
        DEF Next, WorkerStep, SchedulerStep, TaskStays, TaskLeaves

LEMMA NextClosedIsCancelled ==
  ASSUME IInv, ClosedIsCancelled, Next
  PROVE  ClosedIsCancelled'
<1> USE DEF IInv, ClosedIsCancelled, SchedulerClosed
<1>1. ASSUME UNCHANGED phase, Running' \subseteq Running, cancelled \subseteq cancelled'
      PROVE  ClosedIsCancelled'
  BY <1>1
<1>2. ASSUME NEW k \in Keys, ReceiveKnown(k) PROVE ClosedIsCancelled'
  BY <1>2 DEF ReceiveKnown, watcherVars
<1>3. ASSUME NEW k \in Keys, NEW w \in Workers, ReceiveNew(k, w) PROVE ClosedIsCancelled'
  BY <1>3 DEF ReceiveNew, watcherVars
<1>4. ASSUME NEW w \in Workers, TaskStays(w) PROVE ClosedIsCancelled'
  BY <1>1, <1>4, StayingTasks DEF schedulerVars, watcherVars
<1>5. ASSUME NEW w \in Workers, TaskLeaves(w) PROVE ClosedIsCancelled'
  BY <1>1, <1>5, LeavingTasks DEF watcherVars
<1>6. ASSUME NEW w \in Workers, TaskDone(w) PROVE ClosedIsCancelled'
  <2>1. Running' \subseteq Running /\ cancelled' = cancelled
    BY <1>6 DEF TaskDone, Running, RunningStates, TypeOK, schedulerVars
  <2>2. phase' = phase \/ phase' = "cancelled"
    BY <1>6 DEF TaskDone, EscalateFailure
  <2> QED BY <1>1, <2>1, <2>2
<1>7. ASSUME NEW w \in Workers, CleanerRuns(w) PROVE ClosedIsCancelled'
  BY <1>7 DEF CleanerRuns, Running, RunningStates, TypeOK, watcherVars
<1>8. CASE SpawnerRuns
  BY <1>8, SpawnerFills DEF SpawnerRuns, Spawned, SpawnCount, watcherVars
<1>9. CASE StopWatcher \/ Terminated \/ Unwind
  BY <1>9 DEF StopWatcher, Unwind, StartDepletion, CheckDepletion, DepletionTimeout,
              CloseScheduler, CheckClosed, Terminated, vars, schedulerVars, Running, TypeOK
<1> QED BY <1>2, <1>3, <1>4, <1>5, <1>6, <1>7, <1>8, <1>9
        DEF Next, WorkerStep, SchedulerStep, TaskStays, TaskLeaves

LEMMA WInvHolds == Spec => []WInv
<1>1. Init => WInv
  BY DEF Init, WInv, SpawnerIsTold, DepletionIsTold, CloserIsTold, ClosedIsCancelled,
         SchedulerClosed
<1>2. IInv /\ WInv /\ [Next]_vars => WInv'
  <2>1. CASE Next
    BY <2>1, NextSpawnerIsTold, NextDepletionIsTold, NextCloserIsTold, NextClosedIsCancelled
       DEF WInv
  <2>2. CASE UNCHANGED vars
    BY <2>2 DEF WInv, SpawnerIsTold, DepletionIsTold, CloserIsTold, ClosedIsCancelled,
                SchedulerClosed, SchedulerEmpty, Running, IsCleaning, Capacity, vars
  <2> QED BY <2>1, <2>2
<1> QED BY <1>1, <1>2, IInvHolds, PTL DEF Spec

(***************************************************************************)
(* No wake-up is missed: the spawner, the depletion and the closing of the *)
(* scheduler, each of which waits on a condition for others to notify it,  *)
(* never wait for what is already there, for any number of tasks and any   *)
(* limit, in whatever order tasks end, are cleaned up and are cancelled.   *)
(***************************************************************************)
THEOREM WakeUpsAreNotMissed == Spec => []NoWakeUpIsMissed
<1>1. IInv /\ WInv => NoWakeUpIsMissed
  <2> SUFFICES ASSUME IInv, WInv PROVE NoWakeUpIsMissed
    OBVIOUS
  <2>1. phase = "depleting" /\ Depleted => "depletion" \in notified
    BY DepletedIsEmpty DEF IInv, WInv, DepletionIsTold
  <2> QED BY <2>1 DEF WInv, NoWakeUpIsMissed, SpawnerIsTold, CloserIsTold
<1> QED BY <1>1, IInvHolds, WInvHolds, PTL

(***************************************************************************)
(* The closing of the scheduler is never stuck: whom it waits for has been *)
(* cancelled, and there is always a task, a cleaner, the spawner or itself *)
(* that can go on.                                                         *)
(***************************************************************************)
THEOREM ClosingIsNeverStuck == Spec => []ClosingGoesOn
<1>1. IInv /\ WInv => ClosingGoesOn
  <2> SUFFICES ASSUME IInv, WInv, phase = "waiting", Running = {}, ~IsCleaning
               PROVE  {"closer", "spawner"} \cap notified # {}
    BY DEF ClosingGoesOn, WInv, ClosedIsCancelled
  <2>1. CASE pending = <<>>
    BY <2>1 DEF WInv, CloserIsTold, SchedulerEmpty
  <2>2. CASE pending # <<>>
    <3>1. Capacity = Limit
      BY FS_EmptySet DEF Capacity
    <3> QED BY <2>2, <3>1 DEF WInv, SpawnerIsTold
  <2> QED BY <2>1, <2>2
<1> QED BY <1>1, IInvHolds, WInvHolds, PTL

-----------------------------------------------------------------------------
(* The multiplexer implements the streams per object (ObjectStreams), step *)
(* by step, under the refinement mapping of Queueing.                      *)

(* The events in a backlog: all but the mark of its end.                   *)
Content(b) == IF b = <<>> THEN <<>> ELSE IF Last(b) = EOS THEN Front(b) ELSE b

Unmarked(b) == \A i \in 1..Len(b) : b[i] # EOS

LEMMA UnmarkedContent ==
  ASSUME NEW b \in Seq(Nat), Unmarked(b)
  PROVE  Content(b) = b
<1>1. CASE b = <<>> BY <1>1 DEF Content
<1>2. CASE b # <<>>
  <2>1. Len(b) \in 1..Len(b) BY <1>2
  <2> QED BY <1>2, <2>1 DEF Content, Last, Unmarked
<1> QED BY <1>1, <1>2

LEMMA AppendedContent ==
  ASSUME NEW b \in Seq(Nat), NEW n \in Nat, n # EOS, Unmarked(b)
  PROVE  Content(Append(b, n)) = Append(Content(b), n)
<1>1. Append(b, n) \in Seq(Nat) /\ Unmarked(Append(b, n))
  BY DEF Unmarked
<1> QED BY <1>1, UnmarkedContent

LEMMA EndedContent ==
  ASSUME NEW b \in Seq(Nat), Unmarked(b)
  PROVE  Content(Append(b, EOS)) = Content(b)
<1> DEFINE c == Append(b, EOS)
<1>1. c # <<>> /\ Last(c) = EOS
  BY DEF Last
<1>2. Front(c) = b
  BY DEF Front
<1> QED BY <1>1, <1>2, UnmarkedContent DEF Content

LEMMA SingleContent ==
  ASSUME NEW n \in Nat, n # EOS
  PROVE  Content(<<n>>) = Append(<<>>, n)
BY DEF Content, Last

LEMMA HeadOfContent ==
  ASSUME NEW b \in Seq(Nat), b # <<>>, Head(b) # EOS
  PROVE  /\ Content(b) \in Seq(Nat) /\ Content(b) # <<>>
         /\ Head(Content(b)) = Head(b)
         /\ Content(Tail(b)) = Tail(Content(b))
<1>1. Len(b) \in Nat \ {0} /\ b[1] # EOS
  OBVIOUS
<1>2. CASE Last(b) # EOS
  <2>1. Content(b) = b
    BY <1>2 DEF Content
  <2>2. Content(Tail(b)) = Tail(b)
    <3>1. CASE Tail(b) = <<>> BY <3>1 DEF Content
    <3>2. CASE Tail(b) # <<>>
      <4>1. Len(Tail(b)) = Len(b) - 1 /\ Len(b) - 1 \in Nat \ {0}
        <5>1. Tail(b) \in Seq(Nat) /\ Len(Tail(b)) = Len(b) - 1
          BY HeadTailProperties
        <5> QED BY <3>2, <5>1, EmptySeq
      <4>2. Tail(b)[Len(b) - 1] = b[Len(b)]
        BY <4>1, HeadTailProperties
      <4> QED BY <1>2, <4>1, <4>2 DEF Content, Last
    <3> QED BY <3>1, <3>2
  <2> QED BY <2>1, <2>2
<1>3. CASE Last(b) = EOS
  <2>1. Len(b) - 1 \in Nat \ {0}
    BY <1>1, <1>3 DEF Last
  <2>2. Content(b) = SubSeq(b, 1, Len(b) - 1)
    BY <1>1, <1>3 DEF Content, Front
  <2>3. Len(Tail(b)) = Len(b) - 1 /\ Tail(b) \in Seq(Nat) /\ Tail(b) # <<>>
    <3>1. Len(Tail(b)) = Len(b) - 1 /\ Tail(b) \in Seq(Nat)
      BY HeadTailProperties
    <3> QED BY <2>1, <3>1
  <2>4. Last(Tail(b)) = EOS
    BY <1>1, <1>3, <2>1, <2>3 DEF Last
  <2>5. Content(Tail(b)) = SubSeq(Tail(b), 1, Len(b) - 2)
    BY <2>3, <2>4 DEF Content, Front
  <2>6. Tail(SubSeq(b, 1, Len(b) - 1)) = SubSeq(Tail(b), 1, Len(b) - 2)
    BY <1>1, <2>1, <2>3
  <2>7. SubSeq(b, 1, Len(b) - 1) \in Seq(Nat) /\ SubSeq(b, 1, Len(b) - 1) # <<>>
        /\ Head(SubSeq(b, 1, Len(b) - 1)) = b[1]
    <3>1. PICK n \in Nat \ {0} : n = Len(b) - 1
      BY <2>1
    <3>2. \A i \in 1..n : b[i] \in Nat
      BY <3>1
    <3>3. /\ SubSeq(b, 1, n) \in Seq(Nat) /\ Len(SubSeq(b, 1, n)) = n
          /\ SubSeq(b, 1, n)[1] = b[1]
      BY <3>1, <3>2, SubSeqProperties
    <3>4. \A c \in Seq(Nat) : Len(c) = n => c # <<>> /\ Head(c) = c[1]
      BY <3>1, EmptySeq
    <3> QED BY <3>1, <3>3, <3>4
  <2>8. Head(b) = b[1]
    OBVIOUS
  <2> QED BY <2>2, <2>5, <2>6, <2>7, <2>8
<1> QED BY <1>2, <1>3

-----------------------------------------------------------------------------
(* The mapping of one stream.                                              *)

LEMMA NoStream ==
  ASSUME NEW k \in Keys, streams[k] = NoWorker
  PROVE  Waiting(k) = <<>> /\ Current(k) = 0
BY DEF Waiting, Current

LEMMA ItsStream ==
  ASSUME NEW k \in Keys, streams[k] # NoWorker
  PROVE  Waiting(k) = Content(backlog[streams[k]]) /\ Current(k) = event[streams[k]]
BY DEF Waiting, Current, Content

LEMMA NoStreamNext ==
  ASSUME NEW k \in Keys, streams'[k] = NoWorker
  PROVE  Waiting(k)' = <<>> /\ Current(k)' = 0
BY DEF Waiting, Current

LEMMA ItsStreamNext ==
  ASSUME NEW k \in Keys, streams'[k] # NoWorker
  PROVE  /\ Waiting(k)' = Content(backlog'[streams'[k]])
         /\ Current(k)' = event'[streams'[k]]
BY DEF Waiting, Current, Content

LEMMA SameStream ==
  ASSUME NEW k \in Keys, streams'[k] = streams[k],
         streams[k] # NoWorker =>
            /\ backlog'[streams[k]] = backlog[streams[k]]
            /\ event'[streams[k]] = event[streams[k]]
  PROVE  Waiting(k)' = Waiting(k) /\ Current(k)' = Current(k)
BY NoStream, ItsStream, NoStreamNext, ItsStreamNext

(* Streams of different keys are different.                                *)
LEMMA OtherStream ==
  ASSUME IInv, NEW k \in Keys, NEW w \in Workers, k # keyOf[w]
  PROVE  streams[k] # w
BY DEF IInv, TypeOK, StreamsMatchWorkers

LEMMA UnmarkedStream ==
  ASSUME IInv, NEW k \in Keys, streams[k] # NoWorker, phase \in {"streaming", "cancelled", "raised"}
  PROVE  backlog[streams[k]] \in Seq(Nat) /\ Unmarked(backlog[streams[k]])
BY DEF IInv, TypeOK, UnmarkedBefore, Unmarked

-----------------------------------------------------------------------------
(* The steps of the streams.                                               *)

Serving == phase = "streaming" /\ NoFailure

LEMMA Stutters ==
  ASSUME Serving' = Serving, UNCHANGED <<sent, handled>>,
         \A k \in Keys : Waiting(k)' = Waiting(k) /\ Current(k)' = Current(k)
  PROVE  UNCHANGED Streams!vars
BY DEF Streams!vars, Serving

LEMMA Arrives ==
  ASSUME NEW k \in Keys, Serving' = Serving, sent[k] < MaxEvents,
         sent' = [sent EXCEPT ![k] = @ + 1], handled' = handled,
         Waiting(k)' = Append(Waiting(k), sent[k] + 1), Current(k)' = Current(k),
         \A l \in Keys \ {k} : Waiting(l)' = Waiting(l) /\ Current(l)' = Current(l)
  PROVE  Streams!Next
<1>1. Streams!Arrive(k)
  BY DEF Streams!Arrive, Serving
<1> QED BY <1>1 DEF Streams!Next

LEMMA Begins ==
  ASSUME NEW k \in Keys, Serving' = Serving, UNCHANGED <<sent, handled>>,
         Current(k) = 0, Waiting(k) # <<>>,
         Current(k)' = Head(Waiting(k)), Waiting(k)' = Tail(Waiting(k)),
         \A l \in Keys \ {k} : Waiting(l)' = Waiting(l) /\ Current(l)' = Current(l)
  PROVE  Streams!Next
<1>1. Streams!Begin(k)
  BY DEF Streams!Begin, Serving
<1> QED BY <1>1 DEF Streams!Next

LEMMA Completes ==
  ASSUME NEW k \in Keys, Serving' = Serving, sent' = sent,
         handled' = [handled EXCEPT ![k] = Current(k)],
         Current(k) # 0, Current(k)' = 0, Waiting(k)' = Waiting(k),
         \A l \in Keys \ {k} : Waiting(l)' = Waiting(l) /\ Current(l)' = Current(l)
  PROVE  Streams!Next
<1>1. Streams!Complete(k)
  BY DEF Streams!Complete, Serving
<1> QED BY <1>1 DEF Streams!Next

LEMMA Drops ==
  ASSUME NEW k \in Keys, ~Serving', UNCHANGED <<sent, handled>>,
         Current(k)' = 0, Waiting(k)' = <<>>,
         \A l \in Keys \ {k} : Waiting(l)' = Waiting(l) /\ Current(l)' = Current(l)
  PROVE  Streams!Next
<1>1. Streams!Drop(k)
  BY DEF Streams!Drop, Serving
<1> QED BY <1>1 DEF Streams!Next

LEMMA Stops ==
  ASSUME Serving, ~Serving', UNCHANGED <<sent, handled>>,
         \A k \in Keys : Waiting(k)' = Waiting(k) /\ Current(k)' = Current(k)
  PROVE  Streams!Next
<1>1. Streams!StopServing
  BY DEF Streams!StopServing, Serving
<1> QED BY <1>1 DEF Streams!Next
-----------------------------------------------------------------------------
(* Whether the operator serves changes only as the failures and the phase. *)
LEMMA SameServing ==
  ASSUME \/ phase' = phase
         \/ phase # "streaming" /\ phase' # "streaming",
         workerError' = workerError,
         \A w \in Workers : job'[w] = "failed" <=> job[w] = "failed"
  PROVE  Serving' = Serving
<1>1. NoFailure' = NoFailure
  BY DEF NoFailure
<1> QED BY <1>1 DEF Serving

(* What changes neither the dict nor the streams nor the events in hands.  *)
LEMMA SameStreams ==
  ASSUME UNCHANGED <<streams, backlog, event>>
  PROVE  \A k \in Keys : Waiting(k)' = Waiting(k) /\ Current(k)' = Current(k)
BY SameStream

(* A task that owns a stream and is over drops it, with what is in it.     *)
LEMMA OwnedStream ==
  ASSUME IInv, NEW w \in Workers, job[w] \in LiveStates
  PROVE  keyOf[w] \in Keys /\ streams[keyOf[w]] = w /\ w # NoWorker
BY DEF IInv, TypeOK, StreamsMatchWorkers

LEMMA DroppedStream ==
  ASSUME IInv, NEW w \in Workers, job[w] \in LiveStates, NEW k \in Keys, k = keyOf[w],
         NEW result, LeaveStream(w, result)
  PROVE  /\ Current(k)' = 0 /\ Waiting(k)' = <<>>
         /\ \A l \in Keys \ {k} : Waiting(l)' = Waiting(l) /\ Current(l)' = Current(l)
<1>1. streams' = [streams EXCEPT ![k] = NoWorker] /\ backlog' = backlog
      /\ event' = [event EXCEPT ![w] = 0]
  BY DEF LeaveStream, DropStream
<1>2. streams'[k] = NoWorker
  BY <1>1 DEF IInv, TypeOK
<1>3. ASSUME NEW l \in Keys \ {k} PROVE Waiting(l)' = Waiting(l) /\ Current(l)' = Current(l)
  <2>1. streams'[l] = streams[l] /\ streams[l] # w
    BY <1>1, OtherStream DEF IInv, TypeOK
  <2>2. streams[l] # NoWorker => event'[streams[l]] = event[streams[l]]
    BY <1>1, <2>1 DEF IInv, TypeOK
  <2> QED BY <1>1, <2>1, <2>2, SameStream
<1> QED BY <1>2, <1>3, NoStreamNext

(* A worker leaves its stream: with nothing in it, or when nobody serves.  *)
LEMMA LeavingRefines ==
  ASSUME IInv, NEW w \in Workers, job[w] \in LiveStates, NEW result, LeaveStream(w, result),
         handled' = handled,
         \/ ~Serving'
         \/ Serving' = Serving /\ Current(keyOf[w]) = 0 /\ Waiting(keyOf[w]) = <<>>
  PROVE  Streams!Next \/ UNCHANGED Streams!vars
<1>1. PICK k \in Keys : k = keyOf[w]
  BY OwnedStream
<1>2. sent' = sent
  BY DEF LeaveStream
<1>3. /\ Current(k)' = 0 /\ Waiting(k)' = <<>>
      /\ \A l \in Keys \ {k} : Waiting(l)' = Waiting(l) /\ Current(l)' = Current(l)
  BY <1>1, DroppedStream
<1>4. CASE ~Serving'
  BY <1>2, <1>3, <1>4, Drops
<1>5. CASE Serving' = Serving /\ Current(k) = 0 /\ Waiting(k) = <<>>
  <2>1. \A l \in Keys : Waiting(l)' = Waiting(l) /\ Current(l)' = Current(l)
    BY <1>3, <1>5
  <2> QED BY <1>2, <1>5, <2>1, Stutters
<1> QED BY <1>1, <1>4, <1>5

-----------------------------------------------------------------------------
(* The watcher.                                                            *)
LEMMA ReceiveKnownRefines ==
  ASSUME IInv, NEW k \in Keys, ReceiveKnown(k)
  PROVE  Streams!Next
<1>1. PICK w \in Workers : w = streams[k]
  BY DEF ReceiveKnown, HasStream, IInv, TypeOK
<1>2. w # NoWorker /\ keyOf[w] = k
  BY <1>1 DEF IInv, StreamsMatchWorkers
<1>3. backlog[w] \in Seq(Nat) /\ Unmarked(backlog[w])
  BY <1>1, <1>2, UnmarkedStream DEF ReceiveKnown
<1>4. sent[k] + 1 \in Nat /\ sent[k] + 1 # EOS
  BY DEF IInv, TypeOK
<1>5. UNCHANGED <<streams, event>> /\ backlog' = [backlog EXCEPT ![w] = Append(@, sent[k] + 1)]
  BY <1>1 DEF ReceiveKnown
<1>6. backlog'[w] = Append(backlog[w], sent[k] + 1)
  BY <1>5 DEF IInv, TypeOK
<1>7. Waiting(k)' = Append(Waiting(k), sent[k] + 1) /\ Current(k)' = Current(k)
  BY <1>1, <1>2, <1>3, <1>4, <1>5, <1>6, AppendedContent, ItsStream, ItsStreamNext
<1>8. ASSUME NEW l \in Keys \ {k} PROVE Waiting(l)' = Waiting(l) /\ Current(l)' = Current(l)
  <2>1. streams[l] # w
    BY <1>2, OtherStream
  <2>2. streams[l] # NoWorker => backlog'[streams[l]] = backlog[streams[l]]
    BY <1>5, <2>1 DEF IInv, TypeOK
  <2> QED BY <1>5, <2>2, SameStream
<1>9. Serving' = Serving
  BY SameServing DEF ReceiveKnown, watcherVars
<1>10. sent[k] < MaxEvents /\ sent' = [sent EXCEPT ![k] = @ + 1] /\ handled' = handled
  BY DEF ReceiveKnown
<1> QED BY <1>7, <1>8, <1>9, <1>10, Arrives

LEMMA ReceiveNewRefines ==
  ASSUME IInv, NEW k \in Keys, NEW w \in Workers, ReceiveNew(k, w)
  PROVE  Streams!Next
<1>1. streams' = [streams EXCEPT ![k] = w] /\ backlog' = [backlog EXCEPT ![w] = <<sent[k] + 1>>]
      /\ event' = event /\ streams[k] = NoWorker /\ job[w] = "free"
  BY DEF ReceiveNew, HasStream
<1>2. streams'[k] = w /\ backlog'[w] = <<sent[k] + 1>> /\ w # NoWorker /\ event[w] = 0
  BY <1>1 DEF IInv, TypeOK, EventWhileProcessing
<1>3. sent[k] + 1 \in Nat /\ sent[k] + 1 # EOS
  BY DEF IInv, TypeOK
<1>4. Content(<<sent[k] + 1>>) = Append(<<>>, sent[k] + 1)
  BY <1>3, SingleContent
<1>5. Waiting(k)' = Append(Waiting(k), sent[k] + 1) /\ Current(k)' = Current(k)
  BY <1>1, <1>2, <1>4, NoStream, ItsStreamNext
<1>6. ASSUME NEW l \in Keys \ {k} PROVE Waiting(l)' = Waiting(l) /\ Current(l)' = Current(l)
  <2>1. streams[l] # w
    BY <1>1 DEF IInv, ServedUntilClosed, SchedulerClosed, ReceiveNew, LiveStates
  <2>2. streams'[l] = streams[l]
    BY <1>1 DEF IInv, TypeOK
  <2>3. streams[l] # NoWorker => backlog'[streams[l]] = backlog[streams[l]]
    BY <1>1, <2>1 DEF IInv, TypeOK
  <2> QED BY <1>1, <2>2, <2>3, SameStream
<1>7. Serving' = Serving
  <2>1. \A v \in Workers : job'[v] = "failed" <=> job[v] = "failed"
    BY <1>1 DEF ReceiveNew, IInv, TypeOK
  <2> QED BY <2>1, SameServing DEF ReceiveNew, watcherVars
<1>8. sent[k] < MaxEvents /\ sent' = [sent EXCEPT ![k] = @ + 1] /\ handled' = handled
  BY DEF ReceiveNew
<1> QED BY <1>5, <1>6, <1>7, <1>8, Arrives

LEMMA StopWatcherRefines ==
  ASSUME IInv, StopWatcher
  PROVE  Streams!Next \/ UNCHANGED Streams!vars
<1>1. \A k \in Keys : Waiting(k)' = Waiting(k) /\ Current(k)' = Current(k)
  BY SameStreams DEF StopWatcher, streamVars
<1>2. UNCHANGED <<sent, handled>> /\ ~Serving'
  BY DEF StopWatcher, Serving
<1>3. CASE Serving
  BY <1>1, <1>2, <1>3, Stops
<1>4. CASE ~Serving
  <2>1. Serving' = Serving
    BY <1>2, <1>4 DEF Serving
  <2> QED BY <1>1, <1>2, <2>1, Stutters
<1> QED BY <1>3, <1>4

LEMMA UnwindRefines ==
  ASSUME IInv, Unwind
  PROVE  UNCHANGED Streams!vars
<1>1. Serving' = Serving /\ UNCHANGED <<sent, handled>>
  <2>1. phase # "streaming" /\ phase' # "streaming" /\ job' = job /\ workerError' = workerError
        /\ UNCHANGED <<sent, handled>>
    BY DEF Unwind, StartDepletion, CheckDepletion, DepletionTimeout, CloseScheduler, CheckClosed
  <2> QED BY <2>1, SameServing
<1>2. \A k \in Keys : Waiting(k)' = Waiting(k) /\ Current(k)' = Current(k)
  <2>1. CASE StartDepletion
    <3> SUFFICES ASSUME NEW k \in Keys
                 PROVE  Waiting(k)' = Waiting(k) /\ Current(k)' = Current(k)
      OBVIOUS
    <3>1. UNCHANGED <<streams, event>>
      BY <2>1 DEF StartDepletion
    <3>2. CASE streams[k] = NoWorker
      BY <3>1, <3>2, SameStream
    <3>3. CASE streams[k] # NoWorker
      <4>1. PICK w \in Workers : w = streams[k]
        BY <3>3 DEF IInv, TypeOK
      <4>2. backlog'[w] = Append(backlog[w], EOS)
        BY <2>1, <4>1 DEF StartDepletion, WithEOS
      <4>3. backlog[w] \in Seq(Nat) /\ Unmarked(backlog[w])
        BY <2>1, <3>3, <4>1, UnmarkedStream DEF StartDepletion
      <4>4. Content(backlog'[w]) = Content(backlog[w])
        BY <4>2, <4>3, EndedContent
      <4> QED BY <3>1, <3>3, <4>1, <4>4, ItsStream, ItsStreamNext
    <3> QED BY <3>2, <3>3
  <2>2. CASE CheckDepletion \/ DepletionTimeout \/ CloseScheduler \/ CheckClosed
    BY <2>2, SameStreams
       DEF CheckDepletion, DepletionTimeout, CloseScheduler, CheckClosed, streamVars
  <2> QED BY <2>1, <2>2 DEF Unwind
<1> QED BY <1>1, <1>2, Stutters

-----------------------------------------------------------------------------
(* The worker.                                                             *)
LEMMA TakeEventRefines ==
  ASSUME IInv, NEW w \in Workers, TakeEvent(w)
  PROVE  Streams!Next
<1>1. PICK k \in Keys : k = keyOf[w]
  BY DEF IInv, TypeOK
<1>2. streams[k] = w /\ w # NoWorker
  BY <1>1, OwnedStream DEF TakeEvent, LiveStates
<1>3. backlog[w] \in Seq(Nat) /\ backlog[w] # <<>> /\ Head(backlog[w]) # EOS
  BY DEF TakeEvent, IInv, TypeOK
<1>4. streams' = streams /\ backlog'[w] = Tail(backlog[w]) /\ event'[w] = Head(backlog[w])
  BY DEF TakeEvent, IInv, TypeOK
<1>5. Current(k) = 0 /\ Waiting(k) = Content(backlog[w])
  BY <1>2, ItsStream DEF TakeEvent, IInv, EventWhileProcessing
<1>6. Current(k)' = Head(Waiting(k)) /\ Waiting(k)' = Tail(Waiting(k)) /\ Waiting(k) # <<>>
  BY <1>2, <1>3, <1>4, <1>5, HeadOfContent, ItsStreamNext
<1>7. ASSUME NEW l \in Keys \ {k} PROVE Waiting(l)' = Waiting(l) /\ Current(l)' = Current(l)
  <2>1. streams[l] # w
    BY <1>1, OtherStream
  <2>2. streams[l] # NoWorker =>
          backlog'[streams[l]] = backlog[streams[l]] /\ event'[streams[l]] = event[streams[l]]
    BY <2>1 DEF TakeEvent, IInv, TypeOK
  <2> QED BY <1>4, <2>2, SameStream
<1>8. Serving' = Serving
  <2>1. \A v \in Workers : job'[v] = "failed" <=> job[v] = "failed"
    BY DEF TakeEvent, IInv, TypeOK
  <2> QED BY <2>1, SameServing DEF TakeEvent, watcherVars
<1>9. UNCHANGED <<sent, handled>>
  BY DEF TakeEvent
<1> QED BY <1>5, <1>6, <1>7, <1>8, <1>9, Begins

LEMMA FinishEventRefines ==
  ASSUME IInv, NEW w \in Workers, FinishEvent(w)
  PROVE  Streams!Next
<1>1. PICK k \in Keys : k = keyOf[w]
  BY DEF IInv, TypeOK
<1>2. streams[k] = w /\ w # NoWorker
  BY <1>1, OwnedStream DEF FinishEvent, LiveStates
<1>3. UNCHANGED <<streams, backlog, sent>> /\ event'[w] = 0
      /\ handled' = [handled EXCEPT ![k] = event[w]]
  BY <1>1 DEF FinishEvent, streamVars, IInv, TypeOK
<1>4. Current(k) = event[w] /\ Current(k) # 0
  BY <1>2, ItsStream DEF FinishEvent, IInv, EventWhileProcessing
<1>5. Current(k)' = 0 /\ Waiting(k)' = Waiting(k)
  BY <1>2, <1>3, ItsStream, ItsStreamNext
<1>6. ASSUME NEW l \in Keys \ {k} PROVE Waiting(l)' = Waiting(l) /\ Current(l)' = Current(l)
  <2>1. streams[l] # w
    BY <1>1, OtherStream
  <2>2. streams[l] # NoWorker => event'[streams[l]] = event[streams[l]]
    BY <2>1 DEF FinishEvent, IInv, TypeOK
  <2> QED BY <1>3, <2>2, SameStream
<1>7. Serving' = Serving
  <2>1. \A v \in Workers : job'[v] = "failed" <=> job[v] = "failed"
    BY DEF FinishEvent, IInv, TypeOK
  <2> QED BY <2>1, SameServing DEF FinishEvent, watcherVars
<1> QED BY <1>3, <1>4, <1>5, <1>6, <1>7, Completes

LEMMA LeavesRefine ==
  ASSUME IInv, NEW w \in Workers,
         TakeEOS(w) \/ ExitIdle(w) \/ CancelStarted(w) \/ FailEvent(w)
  PROVE  Streams!Next \/ UNCHANGED Streams!vars
<1>1. job[w] \in LiveStates
  BY DEF TakeEOS, ExitIdle, CancelStarted, FailEvent, LiveStates
<1>2. keyOf[w] \in Keys /\ streams[keyOf[w]] = w /\ w # NoWorker
  BY <1>1, OwnedStream
<1>3. CASE FailEvent(w)
  <2>1. LeaveStream(w, "failed") /\ handled' = handled
    BY <1>3 DEF FailEvent
  <2>2. job'[w] = "failed"
    BY <2>1 DEF LeaveStream, IInv, TypeOK
  <2>3. ~Serving'
    BY <2>2 DEF Serving, NoFailure
  <2> QED BY <1>1, <2>1, <2>3, LeavingRefines
<1>4. ASSUME LeaveStream(w, "ended") PROVE Serving' = Serving
  <2>1. \A v \in Workers : job'[v] = "failed" <=> job[v] = "failed"
    BY <1>1, <1>4 DEF LeaveStream, LiveStates, IInv, TypeOK
  <2> QED BY <1>4, <2>1, SameServing DEF LeaveStream, watcherVars
<1>5. CASE ExitIdle(w)
  <2>1. LeaveStream(w, "ended") /\ handled' = handled
    BY <1>5 DEF ExitIdle
  <2>2. Current(keyOf[w]) = 0 /\ Waiting(keyOf[w]) = <<>>
    BY <1>2, <1>5, ItsStream DEF ExitIdle, TrulyIdle, Content, IInv, EventWhileProcessing
  <2> QED BY <1>1, <1>4, <2>1, <2>2, LeavingRefines
<1>6. CASE TakeEOS(w) \/ CancelStarted(w)
  <2>1. LeaveStream(w, "ended") /\ handled' = handled
    BY <1>6 DEF TakeEOS, CancelStarted
  <2>2. phase # "streaming"
    <3>1. CASE CancelStarted(w)
      BY <3>1 DEF CancelStarted, IInv, ServedUntilClosed, SchedulerClosed
    <3>2. CASE TakeEOS(w)
      <4>1. backlog[w] \in Seq(Nat) /\ backlog[w] # <<>> /\ backlog[w][1] = EOS
        BY <3>2 DEF TakeEOS, IInv, TypeOK
      <4>2. 1 \in 1..Len(backlog[w])
        BY <4>1, EmptySeq
      <4> QED BY <1>2, <4>1, <4>2, UnmarkedStream DEF Unmarked
    <3> QED BY <1>6, <3>1, <3>2
  <2>3. ~Serving'
    BY <1>4, <2>1, <2>2 DEF Serving
  <2> QED BY <1>1, <2>1, <2>3, LeavingRefines
<1> QED BY <1>3, <1>5, <1>6

LEMMA IdlingRefines ==
  ASSUME IInv, NEW w \in Workers,
         StartWorker(w) \/ IdleTimeout(w) \/ ContinueAfterTimeout(w) \/ CancelUnstarted(w)
  PROVE  UNCHANGED Streams!vars
<1> USE DEF StartWorker, IdleTimeout, ContinueAfterTimeout, CancelUnstarted
<1>1. UNCHANGED <<streams, backlog, event, sent, handled>>
  BY DEF streamVars
<1>2. \A v \in Workers : job'[v] = "failed" <=> job[v] = "failed"
  BY DEF IInv, TypeOK
<1>3. Serving' = Serving
  BY <1>2, SameServing DEF watcherVars
<1> QED BY <1>1, <1>3, SameStreams, Stutters

-----------------------------------------------------------------------------
(* The scheduler.                                                          *)
LEMMA SchedulerRefines ==
  ASSUME IInv, SpawnerRuns \/ \E w \in Workers : SchedulerStep(w)
  PROVE  UNCHANGED Streams!vars
<1>1. CASE SpawnerRuns
  <2>1. UNCHANGED <<streams, backlog, event, sent, handled, phase, workerError>>
    BY <1>1 DEF SpawnerRuns, streamVars, watcherVars
  <2>2. \A v \in Workers : job'[v] = IF v \in Spawned THEN "created" ELSE job[v]
    BY <1>1 DEF SpawnerRuns, Spawned, SpawnCount
  <2>3. \A v \in Spawned : job[v] = "pending"
    BY SpawnedArePending DEF IInv
  <2>4. \A v \in Workers : job'[v] = "failed" <=> job[v] = "failed"
    BY <2>2, <2>3
  <2>5. Serving' = Serving
    BY <2>1, <2>4, SameServing
  <2> QED BY <2>1, <2>5, SameStreams, Stutters
<1>2. ASSUME NEW w \in Workers, CleanerRuns(w) PROVE UNCHANGED Streams!vars
  <2>1. UNCHANGED <<streams, backlog, event, sent, handled, phase, workerError>>
    BY <1>2 DEF CleanerRuns, streamVars, watcherVars
  <2>2. \A v \in Workers : job'[v] = "failed" <=> job[v] = "failed"
    BY <1>2 DEF CleanerRuns, IInv, TypeOK
  <2>3. Serving' = Serving
    BY <2>1, <2>2, SameServing
  <2> QED BY <2>1, <2>3, SameStreams, Stutters
<1>3. ASSUME NEW w \in Workers, TaskDone(w) PROVE UNCHANGED Streams!vars
  <2>1. UNCHANGED <<streams, backlog, event, sent, handled>>
    BY <1>3 DEF TaskDone, streamVars
  <2>2. CASE job[w] = "failed"
    <3>1. workerError'
      BY <1>3, <2>2 DEF TaskDone, EscalateFailure, IInv, TypeOK
    <3>2. ~NoFailure /\ ~NoFailure'
      BY <2>2, <3>1 DEF NoFailure
    <3>3. Serving' = Serving
      BY <3>2 DEF Serving
    <3> QED BY <2>1, <3>3, SameStreams, Stutters
  <2>3. CASE job[w] # "failed"
    <3>1. UNCHANGED <<phase, workerError>>
      BY <1>3, <2>3 DEF TaskDone, EscalateFailure
    <3>2. \A v \in Workers : job'[v] = "failed" <=> job[v] = "failed"
      BY <1>3, <2>3 DEF TaskDone, IInv, TypeOK
    <3>3. Serving' = Serving
      BY <3>1, <3>2, SameServing
    <3> QED BY <2>1, <3>3, SameStreams, Stutters
  <2> QED BY <2>2, <2>3
<1> QED BY <1>1, <1>2, <1>3 DEF SchedulerStep

-----------------------------------------------------------------------------
LEMMA InitRefines == Init => Streams!Init
<1> SUFFICES ASSUME Init PROVE Streams!Init
  OBVIOUS
<1>1. \A k \in Keys : Waiting(k) = <<>> /\ Current(k) = 0
  BY NoStream DEF Init
<1>2. NoFailure
  BY DEF Init, NoFailure
<1> QED BY <1>1, <1>2 DEF Init, Streams!Init

LEMMA StutterRefines == UNCHANGED vars => UNCHANGED Streams!vars
<1> SUFFICES ASSUME UNCHANGED vars PROVE UNCHANGED Streams!vars
  OBVIOUS
<1>1. UNCHANGED <<streams, backlog, event, sent, handled, phase, workerError, job>>
  BY DEF vars
<1>2. Serving' = Serving
  BY <1>1, SameServing
<1> QED BY <1>1, <1>2, SameStreams, Stutters

LEMMA NextRefines == IInv /\ [Next]_vars => [Streams!Next]_(Streams!vars)
<1> SUFFICES ASSUME IInv, [Next]_vars PROVE Streams!Next \/ UNCHANGED Streams!vars
  OBVIOUS
<1>1. ASSUME NEW w \in Workers, WorkerStep(w) \/ FailEvent(w)
      PROVE  Streams!Next \/ UNCHANGED Streams!vars
  BY <1>1, TakeEventRefines, FinishEventRefines, LeavesRefine, IdlingRefines DEF WorkerStep
<1>2. CASE Next
  BY <1>1, <1>2, ReceiveKnownRefines, ReceiveNewRefines, StopWatcherRefines, UnwindRefines,
     SchedulerRefines, StutterRefines DEF Next, Terminated
<1> QED BY <1>2, StutterRefines

(***************************************************************************)
(* The multiplexer, with its tasks that come and go, its queues, its pool  *)
(* and its shutdown, implements the streams per object: the events of each *)
(* object are handled one by one, in the order of arrival, and none is     *)
(* skipped as long as the operator serves.                                 *)
(***************************************************************************)
THEOREM StreamsAreImplemented == Spec => ImplementsStreams
<1>1. Init => Streams!Init
  BY InitRefines
<1>2. IInv /\ [Next]_vars => [Streams!Next]_(Streams!vars)
  BY NextRefines
<1> QED BY <1>1, <1>2, IInvHolds, PTL DEF Spec, ImplementsStreams, Streams!Spec
=============================================================================
