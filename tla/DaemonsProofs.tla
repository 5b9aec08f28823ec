--------------------------- MODULE DaemonsProofs ---------------------------
(***************************************************************************)
(* For any set of daemons, whatever they do and whichever way they are     *)
(* stopped: all running daemons of an object read the same live body, the  *)
(* one that their memory keeps fresh, a daemon that has exited on its own  *)
(* is never spawned again, and the worker does not rest with work undone.  *)
(***************************************************************************)
EXTENDS Daemons, FiniteSetTheorems, TLAPS

-----------------------------------------------------------------------------
(* The inductive invariant: the types, those of the worker's locals too,   *)
(* and what relates the running daemons to their memory.                   *)

ClusterOK ==
  /\ object \in [there : BOOLEAN, match : SUBSET Ids, deleting : BOOLEAN,
                 blocked : BOOLEAN]
  /\ stream \in Seq(Event)

OperatorOK == watched \in BOOLEAN /\ paused \in BOOLEAN /\ exiting \in BOOLEAN

MemoryOK ==
  memory \in [known : BOOLEAN, forever : SUBSET Ids, live : {0} \cup Bodies,
              remaining : {"keep", "add", "remove"}]

RunningOK ==
  DOMAIN running \subseteq Ids /\ running \in [DOMAIN running -> Daemon]

WorkerOK ==
  /\ worker.pc \in {"taken", "stopping", "asked", "escalated", "applying"}
       => worker.event \in Event
  /\ worker.pc = "taken" => worker.body \in Bodies
  /\ worker.pc \in {"stopping", "asked", "escalated"} => worker.reason \in Reasons
  /\ worker.pc = "applying" => worker.patch \in {"keep", "add", "remove"}

KillerOK ==
  killer \in [pc : {"waiting", "resting", "draining", "done", "failed"} \cup Sweeps,
              visited : SUBSET Ids, size : 0..Cardinality(Ids)]

(* The body is released with the last daemon only, so that a new one is    *)
(* made when there is no daemon that could have the old one.               *)
FreedWithLast == memory.live = 0 => DOMAIN running = {}

IInv ==
  /\ ClusterOK /\ OperatorOK /\ MemoryOK /\ RunningOK /\ WorkerOK /\ KillerOK
  /\ FreedWithLast /\ BodyIsLive /\ OwnExitIsFinal

-----------------------------------------------------------------------------
USE DaemonsAssumption

LEMMA BodiesExist == Cardinality(Ids) \in Nat /\ 1 \in Bodies /\ 0 \notin Bodies
<1>1. Cardinality(Ids) \in Nat
  BY FS_CardinalityType
<1> QED BY <1>1 DEF Bodies

(* As many daemons as there are ids. *)
LEMMA RunningSize ==
  ASSUME RunningOK
  PROVE  Cardinality(DOMAIN running) \in 0..Cardinality(Ids)
<1>1. /\ IsFiniteSet(DOMAIN running)
      /\ Cardinality(DOMAIN running) <= Cardinality(Ids)
  BY FS_Subset DEF RunningOK
<1>2. Cardinality(DOMAIN running) \in Nat
  BY <1>1, FS_CardinalityType
<1> QED BY <1>1, <1>2, BodiesExist

LEMMA GraceType == \A d : Grace(d) \in 0..2
BY DEF Grace

LEMMA SnapshotType ==
  ASSUME NEW o \in [there : BOOLEAN, match : SUBSET Ids, deleting : BOOLEAN,
                    blocked : BOOLEAN],
         NEW edited \in BOOLEAN
  PROVE  Snapshot(o, edited) \in Event
<1>1. (~o.there) \in BOOLEAN /\ (edited \/ ~Diffbase) \in BOOLEAN
  OBVIOUS
<1> QED BY <1>1 DEF Snapshot, Event

LEMMA BecomesType ==
  ASSUME ClusterOK, OperatorOK,
         NEW o \in [there : BOOLEAN, match : SUBSET Ids, deleting : BOOLEAN,
                    blocked : BOOLEAN],
         NEW edited \in BOOLEAN, Becomes(o, edited)
  PROVE  ClusterOK'
<1>1. Snapshot(o, edited) \in Event
  BY SnapshotType
<1> QED BY <1>1 DEF Becomes, ClusterOK

(* A change of one daemon's record that leaves its body leaves the rest.   *)
LEMMA RecordChange ==
  ASSUME IInv, UNCHANGED memory,
         NEW d \in DOMAIN running, NEW r \in Daemon,
         r.body = running[d].body,
         running' = [running EXCEPT ![d] = r]
  PROVE  RunningOK' /\ FreedWithLast' /\ BodyIsLive' /\ OwnExitIsFinal'
BY DEF IInv, RunningOK, FreedWithLast, BodyIsLive, OwnExitIsFinal

(* A step that leaves the daemons and their memory. *)
LEMMA DaemonsUnchanged ==
  ASSUME IInv, UNCHANGED <<memory, running>>
  PROVE  /\ MemoryOK' /\ RunningOK' /\ FreedWithLast' /\ BodyIsLive'
         /\ OwnExitIsFinal'
BY DEF IInv, MemoryOK, RunningOK, FreedWithLast, BodyIsLive, OwnExitIsFinal

LEMMA InitIInv == Init => IInv
<1> SUFFICES ASSUME Init PROVE IInv
  OBVIOUS
<1> USE DEF Init
<1>1. ClusterOK
  <2>1. object \in [there : BOOLEAN, match : SUBSET Ids, deleting : BOOLEAN,
                    blocked : BOOLEAN]
    OBVIOUS
  <2>2. Snapshot(object, TRUE) \in Event
    BY <2>1, SnapshotType
  <2>3. \A e \in Event : <<e>> \in Seq(Event)
    OBVIOUS
  <2> QED BY <2>1, <2>2, <2>3 DEF ClusterOK
<1>2. OperatorOK /\ MemoryOK
  BY DEF OperatorOK, MemoryOK
<1>3. DOMAIN running = {} /\ running = [d \in {} |-> running[d]]
  OBVIOUS
<1>4. RunningOK
  BY <1>3 DEF RunningOK
<1>5. WorkerOK
  BY DEF WorkerOK, Idle
<1>6. KillerOK
  BY BodiesExist DEF KillerOK
<1>7. FreedWithLast /\ BodyIsLive /\ OwnExitIsFinal
  BY <1>3 DEF FreedWithLast, BodyIsLive, OwnExitIsFinal
<1> QED BY <1>1, <1>2, <1>4, <1>5, <1>6, <1>7 DEF IInv

-----------------------------------------------------------------------------
(* The cluster and the operator change nothing of the daemons.             *)

LEMMA OutsideIInv ==
  ASSUME IInv,
         UserEdits \/ UserDeletes \/ Pause \/ Disconnect \/ Resume \/ Exit
  PROVE  IInv'
<1> USE DEF IInv, clusterVars, operatorVars
<1>1. UNCHANGED <<memory, running, worker>>
  BY DEF UserEdits, UserDeletes, Pause, Disconnect, Resume, Exit
<1>2. /\ MemoryOK' /\ RunningOK' /\ FreedWithLast' /\ BodyIsLive'
      /\ OwnExitIsFinal'
  BY <1>1, DaemonsUnchanged
<1>3. WorkerOK'
  BY <1>1 DEF WorkerOK
<1>4. OperatorOK'
  BY DEF OperatorOK, UserEdits, UserDeletes, Pause, Disconnect, Resume, Exit
<1>5. KillerOK'
  <2>1. CASE Exit
    BY <2>1, BodiesExist DEF Exit, KillerOK, Sweep, Sweeps
  <2>2. CASE ~Exit
    <3>1. UNCHANGED killer
      BY <2>2 DEF UserEdits, UserDeletes, Pause, Disconnect, Resume
    <3> QED BY <3>1 DEF KillerOK
  <2> QED BY <2>1, <2>2
<1>6. ClusterOK'
  <2>1. CASE UserEdits
    <3>1. PICK m \in SUBSET Ids : Becomes([object EXCEPT !.match = m], TRUE)
      BY <2>1 DEF UserEdits
    <3>2. [object EXCEPT !.match = m] \in
             [there : BOOLEAN, match : SUBSET Ids, deleting : BOOLEAN,
              blocked : BOOLEAN]
      BY DEF ClusterOK
    <3> QED BY <3>1, <3>2, BecomesType
  <2>2. CASE UserDeletes
    <3> DEFINE o == IF object.blocked THEN [object EXCEPT !.deleting = TRUE]
                                      ELSE [object EXCEPT !.there = FALSE]
    <3>1. Becomes(o, FALSE)
      BY <2>2 DEF UserDeletes
    <3>2. o \in [there : BOOLEAN, match : SUBSET Ids, deleting : BOOLEAN,
                 blocked : BOOLEAN]
      BY DEF ClusterOK
    <3> QED BY <3>1, <3>2, BecomesType
  <2>3. CASE Resume
    <3>1. Snapshot(object, FALSE) \in Event
      BY SnapshotType DEF ClusterOK
    <3>2. \A e \in Event : Append(stream, e) \in Seq(Event)
      BY DEF ClusterOK
    <3>3. stream' \in Seq(Event) /\ object' = object
      BY <2>3, <3>1, <3>2 DEF Resume, ClusterOK
    <3> QED BY <3>3 DEF ClusterOK
  <2>4. CASE Pause \/ Disconnect \/ Exit
    BY <2>4 DEF Pause, Disconnect, Exit, ClusterOK
  <2> QED BY <2>1, <2>2, <2>3, <2>4
<1> QED BY <1>2, <1>3, <1>4, <1>5, <1>6

-----------------------------------------------------------------------------
(* The tasks of the daemons and those of their stoppers.                   *)

LEMMA OthersUnchanged ==
  ASSUME IInv, UNCHANGED <<object, stream, watched, paused, exiting, worker>>
  PROVE  ClusterOK' /\ OperatorOK' /\ WorkerOK'
BY DEF IInv, ClusterOK, OperatorOK, WorkerOK

LEMMA LeaveIInv ==
  ASSUME IInv, NEW d \in DOMAIN running, Leave(d)
  PROVE  IInv'
<1> USE DEF IInv, Leave, clusterVars, operatorVars
<1>1. ClusterOK' /\ OperatorOK' /\ WorkerOK'
  BY OthersUnchanged
<1>2. KillerOK'
  BY DEF KillerOK
<1>3. d \in Ids /\ DOMAIN running' = DOMAIN running \ {d}
  BY DEF RunningOK, Others
<1>4. MemoryOK'
  BY <1>3, BodiesExist DEF MemoryOK, ForeverStopped
<1>5. RunningOK'
  BY <1>3 DEF RunningOK, Others
<1>6. memory'.live = memory.live \/ DOMAIN running' = {}
  BY <1>3 DEF MemoryOK, CanFree, Others
<1>7. memory'.forever \subseteq memory.forever \cup {d}
  BY DEF MemoryOK, ForeverStopped
<1>8. \A e \in DOMAIN running' : running'[e] = running[e]
  BY DEF Others
<1>9. FreedWithLast' /\ BodyIsLive'
  BY <1>3, <1>6, <1>8 DEF FreedWithLast, BodyIsLive
<1>10. OwnExitIsFinal'
  BY <1>3, <1>7 DEF OwnExitIsFinal
<1> QED BY <1>1, <1>2, <1>4, <1>5, <1>9, <1>10

LEMMA DaemonIInv ==
  ASSUME IInv, NEW d \in DOMAIN running,
         \/ ExitsOnItsOwn(d) \/ ExitsOnRequest(d) \/ TimerDozes(d)
         \/ AgePasses(d) \/ ChaserSteps(d)
  PROVE  IInv'
<1>1. CASE ExitsOnItsOwn(d) \/ ExitsOnRequest(d)
  BY <1>1, LeaveIInv DEF ExitsOnItsOwn, ExitsOnRequest
<1>2. CASE ~(ExitsOnItsOwn(d) \/ ExitsOnRequest(d))
  <2>1. UNCHANGED <<object, stream, watched, paused, exiting, worker, memory,
                    killer>>
    BY <1>2 DEF TimerDozes, AgePasses, ChaserSteps, clusterVars, operatorVars
  <2>2. ClusterOK' /\ OperatorOK' /\ WorkerOK'
    BY <2>1, OthersUnchanged
  <2>3. KillerOK' /\ MemoryOK'
    BY <2>1 DEF IInv, KillerOK, MemoryOK
  <2>4. running[d] \in Daemon
    BY DEF IInv, RunningOK
  <2>5. RunningOK' /\ FreedWithLast' /\ BodyIsLive' /\ OwnExitIsFinal'
    <3>1. CASE TimerDozes(d)
      <4> DEFINE r == [running[d] EXCEPT !.dozing = TRUE]
      <4>1. r \in Daemon /\ r.body = running[d].body
        BY <2>4 DEF Daemon
      <4>2. running' = [running EXCEPT ![d] = r]
        BY <3>1 DEF TimerDozes
      <4> QED BY <2>1, <4>1, <4>2, RecordChange
    <3>2. CASE AgePasses(d)
      <4> DEFINE r == [running[d] EXCEPT !.age = running[d].age + 1]
      <4>1. running[d].age + 1 \in 0..2
        BY <2>4, <3>2, GraceType DEF AgePasses, Daemon
      <4>2. r \in Daemon /\ r.body = running[d].body
        BY <2>4, <4>1 DEF Daemon
      <4>3. running' = [running EXCEPT ![d] = r]
        BY <3>2 DEF AgePasses
      <4> QED BY <2>1, <4>2, <4>3, RecordChange
    <3>3. CASE ChaserSteps(d)
      <4>1. PICK c \in running[d].chasers :
              running' = [running EXCEPT
                ![d].reasons = @ \cup {StageReason(c[1], NextStage(d, c[2]))},
                ![d].chasers = (@ \ {c}) \cup {<<c[1], NextStage(d, c[2])>>}]
        BY <3>3 DEF ChaserSteps
      <4> DEFINE next == NextStage(d, c[2])
                 r == [running[d] EXCEPT
                         !.reasons = @ \cup {StageReason(c[1], next)},
                         !.chasers = (@ \ {c}) \cup {<<c[1], next>>}]
      <4>2. c[1] \in {"pausing", "exiting"} /\ c \in Chasers
        BY <2>4 DEF Daemon, Chasers
      <4>3. next \in {"instant", "backoff", "timeout", "given up"}
        BY DEF NextStage
      <4>4. StageReason(c[1], next) \in Reasons
        BY <4>2, <4>3 DEF StageReason, Reasons
      <4>5. <<c[1], next>> \in Chasers
        BY <4>2, <4>3 DEF Chasers
      <4> HIDE DEF next
      <4>6. r \in Daemon /\ r.body = running[d].body
        BY <2>4, <4>4, <4>5 DEF Daemon
      <4>7. running' = [running EXCEPT ![d] = r]
        BY <4>1 DEF next
      <4> QED BY <2>1, <4>6, <4>7, RecordChange
    <3> QED BY <1>2, <3>1, <3>2, <3>3
  <2> QED BY <2>2, <2>3, <2>5 DEF IInv
<1> QED BY <1>1, <1>2

-----------------------------------------------------------------------------
(* The worker.                                                             *)

(* Everything but the worker, the daemons and the object.                  *)
LEMMA SteadyWorker ==
  ASSUME IInv, UNCHANGED <<object, stream, watched, paused, exiting, memory,
                           running, killer>>
  PROVE  /\ ClusterOK' /\ OperatorOK' /\ MemoryOK' /\ RunningOK' /\ KillerOK'
         /\ FreedWithLast' /\ BodyIsLive' /\ OwnExitIsFinal'
BY DaemonsUnchanged DEF IInv, ClusterOK, OperatorOK, KillerOK

LEMMA TakeEventIInv ==
  ASSUME IInv, TakeEvent
  PROVE  IInv'
<1> USE DEF IInv, TakeEvent, operatorVars
<1>1. Head(stream) \in Event /\ Tail(stream) \in Seq(Event)
  BY DEF ClusterOK
<1>2. ClusterOK' /\ OperatorOK' /\ KillerOK'
  BY <1>1 DEF ClusterOK, OperatorOK, KillerOK
<1>3. memory.live = 0 => NewBody \in Bodies
  <2>1. memory.live = 0 =>
          \E b \in Bodies :
            b # memory.live /\ \A d \in DOMAIN running : running[d].body # b
    BY BodiesExist DEF FreedWithLast
  <2> QED BY <2>1 DEF NewBody
<1>4. WorkerOK'
  BY <1>1, <1>3 DEF WorkerOK, MemoryOK
<1>5. (~Head(stream).gone) \in BOOLEAN
  OBVIOUS
<1>6. MemoryOK' /\ memory'.live = memory.live /\ memory'.forever = memory.forever
  BY <1>5 DEF MemoryOK
<1>7. RunningOK' /\ FreedWithLast' /\ BodyIsLive' /\ OwnExitIsFinal'
  BY <1>6 DEF RunningOK, FreedWithLast, BodyIsLive, OwnExitIsFinal
<1> QED BY <1>2, <1>4, <1>6, <1>7

LEMMA SpawnDaemonsIInv ==
  ASSUME IInv, SpawnDaemons
  PROVE  IInv'
<1> DEFINE event == worker.event
           body  == IF memory.live = 0 THEN worker.body ELSE memory.live
           added == IF event.deleting THEN {}
                    ELSE HandlersFor(event) \ DOMAIN running
<1>1. event \in Event /\ worker.body \in Bodies
  BY DEF IInv, WorkerOK, SpawnDaemons
<1>2. added \subseteq Ids \ memory.forever /\ added \cap DOMAIN running = {}
  BY <1>1 DEF HandlersFor, Event
<1>3. body \in Bodies /\ (DOMAIN running # {} => body = memory.live)
  BY <1>1 DEF IInv, MemoryOK, FreedWithLast
<1>4. DOMAIN running' = DOMAIN running \cup added
  BY DEF SpawnDaemons
<1>5. \A d \in DOMAIN running : running'[d] = Reset(running, event)[d]
  BY <1>2, <1>4 DEF SpawnDaemons
<1>6. \A d \in added : running'[d] = Spawned(body)
  BY <1>4 DEF SpawnDaemons
<1>7. Spawned(body) \in Daemon /\ Spawned(body).body = body
  BY <1>3 DEF Spawned, Daemon
<1>8. \A d \in DOMAIN running :
        /\ Reset(running, event)[d] \in Daemon
        /\ Reset(running, event)[d].body = running[d].body
  <2> TAKE d \in DOMAIN running
  <2>1. running[d] \in Daemon
    BY DEF IInv, RunningOK
  <2>2. (running[d].dozing /\ ~event.edited) \in BOOLEAN
    OBVIOUS
  <2> QED BY <2>1, <2>2 DEF Reset, Daemon
<1>9. memory' = [memory EXCEPT !.live = body]
  BY DEF SpawnDaemons
<1>10. running' \in [DOMAIN running' -> Daemon]
  <2>1. running' = [d \in DOMAIN running' |-> running'[d]]
    BY DEF SpawnDaemons
  <2>2. \A d \in DOMAIN running' : running'[d] \in Daemon
    BY <1>4, <1>5, <1>6, <1>7, <1>8
  <2> QED BY <2>1, <2>2
<1> HIDE DEF body, added
<1>11. RunningOK'
  BY <1>2, <1>4, <1>10 DEF IInv, RunningOK
<1>12. MemoryOK' /\ memory'.live = body /\ memory'.forever = memory.forever
  BY <1>3, <1>9 DEF IInv, MemoryOK
<1>13. FreedWithLast'
  BY <1>3, <1>12, BodiesExist DEF FreedWithLast
<1>14. BodyIsLive'
  BY <1>3, <1>4, <1>5, <1>6, <1>7, <1>8, <1>12 DEF IInv, BodyIsLive
<1>15. OwnExitIsFinal'
  BY <1>2, <1>4, <1>12 DEF IInv, OwnExitIsFinal
<1>16. ClusterOK' /\ OperatorOK'
  BY DEF IInv, SpawnDaemons, ClusterOK, OperatorOK, clusterVars, operatorVars
<1>17. KillerOK'
  <2>1. killer' = [killer EXCEPT !.visited = @ \ added]
    BY DEF SpawnDaemons, added
  <2> QED BY <2>1 DEF IInv, KillerOK
<1>18. WorkerOK'
  <2>1. worker'.pc = "stopping" /\ worker'.event = event
        /\ worker'.reason \in {"deleted", "mismatch"}
    BY DEF SpawnDaemons, Stopping
  <2> QED BY <1>1, <2>1 DEF WorkerOK, Reasons
<1> QED BY <1>11, <1>12, <1>13, <1>14, <1>15, <1>16, <1>17, <1>18 DEF IInv

LEMMA MarkType ==
  ASSUME IInv, UNCHANGED memory,
         NEW d \in DOMAIN running, NEW reason \in Reasons, Mark(d, reason)
  PROVE  RunningOK' /\ FreedWithLast' /\ BodyIsLive' /\ OwnExitIsFinal'
<1> DEFINE r == [running[d] EXCEPT !.reasons = @ \cup {reason}]
<1>1. running[d] \in Daemon
  BY DEF IInv, RunningOK
<1>2. r \in Daemon /\ r.body = running[d].body
  BY <1>1 DEF Daemon
<1>3. running' = [running EXCEPT ![d] = r]
  BY DEF Mark
<1> QED BY <1>2, <1>3, RecordChange

(* Where the worker goes on from a daemon of its list. *)
LEMMA VisitedType ==
  ASSUME IInv, worker.pc \in {"stopping", "asked", "escalated"}, NEW d,
         \/ \E delayed \in BOOLEAN : Visited(d, delayed)
         \/ \E pc \in {"asked", "escalated"} : Await(d, pc)
  PROVE  WorkerOK'
BY DEF IInv, WorkerOK, Visited, Await

LEMMA EscalateType ==
  ASSUME IInv, worker.pc \in {"stopping", "asked"}, NEW d, Escalate(d),
         UNCHANGED memory
  PROVE  /\ RunningOK' /\ FreedWithLast' /\ BodyIsLive' /\ OwnExitIsFinal'
         /\ WorkerOK'
<1> DEFINE stage == Stage(d, worker.ages[d])
<1>1. CASE UNCHANGED running /\ (Visited(d, FALSE) \/ Visited(d, TRUE))
  BY <1>1, DaemonsUnchanged, VisitedType
<1>2. CASE /\ d \in DOMAIN running /\ stage \in {"signalled", "cancelled"}
           /\ Mark(d, stage) /\ Await(d, "escalated")
  <2>1. stage \in Reasons
    BY <1>2 DEF Reasons
  <2> QED BY <1>2, <2>1, MarkType, VisitedType
<1>3. CASE /\ d \in DOMAIN running
           /\ Mark(d, "abandoned") /\ Visited(d, FALSE)
  <2>1. "abandoned" \in Reasons
    BY DEF Reasons
  <2> QED BY <1>3, <2>1, MarkType, VisitedType
<1> QED BY <1>1, <1>2, <1>3 DEF Escalate

LEMMA StoppingIInv ==
  ASSUME IInv, (\E d \in Ids : StopDaemon(d)) \/ InstantExitIsOver
  PROVE  IInv'
<1>1. UNCHANGED <<object, stream, watched, paused, exiting, memory, killer>>
  BY DEF StopDaemon, InstantExitIsOver, clusterVars, operatorVars
<1>2. ClusterOK' /\ OperatorOK' /\ MemoryOK' /\ KillerOK'
  BY <1>1 DEF IInv, ClusterOK, OperatorOK, MemoryOK, KillerOK
<1>3. /\ RunningOK' /\ FreedWithLast' /\ BodyIsLive' /\ OwnExitIsFinal'
      /\ WorkerOK'
  <2>1. ASSUME NEW d \in Ids, StopDaemon(d)
        PROVE  /\ RunningOK' /\ FreedWithLast' /\ BodyIsLive'
               /\ OwnExitIsFinal' /\ WorkerOK'
    <3>1. worker.pc = "stopping" /\ worker.reason \in Reasons
      BY <2>1 DEF StopDaemon, IInv, WorkerOK
    <3>2. CASE AlreadyAsked(d)
      BY <1>1, <2>1, <3>1, <3>2, EscalateType DEF StopDaemon
    <3>3. CASE ~AlreadyAsked(d)
      <4>1. d \in DOMAIN running /\ Mark(d, worker.reason) /\ Await(d, "asked")
        BY <2>1, <3>3 DEF StopDaemon, AlreadyAsked
      <4> QED BY <1>1, <3>1, <4>1, MarkType, VisitedType
    <3> QED BY <3>2, <3>3
  <2>2. ASSUME worker.pc = "asked", Escalate(worker.daemon)
        PROVE  /\ RunningOK' /\ FreedWithLast' /\ BodyIsLive'
               /\ OwnExitIsFinal' /\ WorkerOK'
    BY <1>1, <2>2, EscalateType
  <2>3. ASSUME worker.pc = "escalated", UNCHANGED running,
               Visited(worker.daemon, worker.daemon \in DOMAIN running)
        PROVE  /\ RunningOK' /\ FreedWithLast' /\ BodyIsLive'
               /\ OwnExitIsFinal' /\ WorkerOK'
    <3>1. (worker.daemon \in DOMAIN running) \in BOOLEAN
      OBVIOUS
    <3> QED BY <1>1, <2>3, <3>1, DaemonsUnchanged, VisitedType
  <2> QED BY <2>1, <2>2, <2>3 DEF InstantExitIsOver
<1> QED BY <1>2, <1>3 DEF IInv

LEMMA DecideIInv ==
  ASSUME IInv, PauseDaemons \/ Decide \/ WakeUp
  PROVE  IInv'
<1>1. UNCHANGED <<object, stream, watched, paused, exiting, memory, running,
                  killer>>
  BY DEF PauseDaemons, Decide, WakeUp, clusterVars, operatorVars
<1>2. WorkerOK'
  <2>1. CASE PauseDaemons
    BY <2>1 DEF PauseDaemons, IInv, WorkerOK, Stopping, Reasons
  <2>2. CASE Decide
    <3>1. Decision(worker.event, worker.delays) \in {"keep", "add", "remove"}
      BY DEF IInv, MemoryOK, Decision
    <3> QED BY <2>2, <3>1 DEF Decide, IInv, WorkerOK
  <2>3. CASE WakeUp
    BY <2>3 DEF WakeUp, WorkerOK, Idle
  <2> QED BY <2>1, <2>2, <2>3
<1> QED BY <1>1, <1>2, SteadyWorker DEF IInv

LEMMA ApplyIInv ==
  ASSUME IInv, Apply \/ NothingToApply \/ Touch
  PROVE  IInv'
<1>1. UNCHANGED <<watched, paused, exiting, running, killer>>
  BY DEF Apply, NothingToApply, Touch, clusterVars, operatorVars
<1>2. OperatorOK' /\ KillerOK'
  BY <1>1 DEF IInv, OperatorOK, KillerOK
<1>3. WorkerOK'
  <2>1. worker' = [pc |-> "idle"] \/ worker' = [pc |-> "sleeping"]
    BY DEF Apply, NothingToApply, Touch, Idle
  <2>2. worker'.pc \in {"idle", "sleeping"}
    BY <2>1
  <2> QED BY <2>2 DEF WorkerOK
<1>4. \/ UNCHANGED memory
      \/ memory' = [memory EXCEPT !.remaining = "keep"]
      \/ memory' = [memory EXCEPT !.remaining = worker.patch]
         /\ worker.patch \in {"keep", "add", "remove"}
  BY DEF Apply, NothingToApply, Touch, IInv, WorkerOK
<1>5. /\ MemoryOK'
      /\ memory'.live = memory.live /\ memory'.forever = memory.forever
  BY <1>4 DEF IInv, MemoryOK
<1>6. RunningOK' /\ FreedWithLast' /\ BodyIsLive' /\ OwnExitIsFinal'
  BY <1>1, <1>5 DEF IInv, RunningOK, FreedWithLast, BodyIsLive, OwnExitIsFinal
<1>7. ClusterOK'
  <2>1. CASE UNCHANGED clusterVars
    BY <2>1 DEF IInv, ClusterOK, clusterVars
  <2>2. CASE Becomes(Patched, FALSE)
    <3>1. (~object.there \/ ~object.deleting) \in BOOLEAN
      OBVIOUS
    <3>2. Patched \in [there : BOOLEAN, match : SUBSET Ids, deleting : BOOLEAN,
                       blocked : BOOLEAN]
      BY <3>1 DEF IInv, ClusterOK, Patched
    <3> QED BY <2>2, <3>2, BecomesType DEF IInv
  <2>3. CASE Becomes(object, FALSE)
    BY <2>3, BecomesType DEF IInv, ClusterOK
  <2> QED BY <2>1, <2>2, <2>3 DEF Apply, NothingToApply, Touch
<1> QED BY <1>2, <1>3, <1>5, <1>6, <1>7 DEF IInv

-----------------------------------------------------------------------------
(* The killer.                                                             *)

LEMMA KillerIInv ==
  ASSUME IInv, Killer
  PROVE  IInv'
<1> USE DEF Sweeps, Sweep, Rest
<1>1. UNCHANGED <<object, stream, paused, memory, worker>>
  BY DEF Killer, SweepPausing, KillerVisits, SweepEnds, SweepBreaks,
         KillerReturnsToWait, KillerIsDone, clusterVars, operatorVars
<1>2. ClusterOK' /\ MemoryOK' /\ WorkerOK'
  BY <1>1 DEF IInv, ClusterOK, MemoryOK, WorkerOK
<1>3. OperatorOK'
  BY DEF Killer, SweepPausing, KillerVisits, SweepEnds, SweepBreaks, IInv,
         KillerReturnsToWait, KillerIsDone, clusterVars, operatorVars, OperatorOK
<1>4. CASE KillerVisits
  <2>1. PICK d \in Unvisited :
          /\ Chase(d, killer.pc)
          /\ killer' = [killer EXCEPT !.visited = @ \cup {d},
                                      !.size = Cardinality(DOMAIN running)]
    BY <1>4 DEF KillerVisits
  <2>2. d \in DOMAIN running /\ d \in Ids
    BY DEF Unvisited, IInv, RunningOK
  <2>3. KillerOK'
    BY <2>1, <2>2, RunningSize DEF IInv, KillerOK
  <2>4. RunningOK' /\ FreedWithLast' /\ BodyIsLive' /\ OwnExitIsFinal'
    <3>1. CASE IsChased(d, killer.pc)
      BY <1>1, <2>1, <3>1, DaemonsUnchanged DEF Chase
    <3>2. CASE ~IsChased(d, killer.pc)
      <4> DEFINE c == <<killer.pc, "new">>
                 r == [running[d] EXCEPT !.chasers = @ \cup {c}]
      <4>1. running[d] \in Daemon
        BY <2>2 DEF IInv, RunningOK
      <4>2. c \in Chasers
        BY <1>4 DEF KillerVisits, Chasers
      <4> HIDE DEF c
      <4>3. r \in Daemon /\ r.body = running[d].body
        BY <4>1, <4>2 DEF Daemon
      <4>4. running' = [running EXCEPT ![d] = r]
        BY <2>1, <3>2 DEF Chase, c
      <4> QED BY <1>1, <2>2, <4>3, <4>4, RecordChange
    <3> QED BY <3>1, <3>2
  <2> QED BY <1>2, <1>3, <2>3, <2>4 DEF IInv
<1>5. CASE ~KillerVisits
  <2>1. UNCHANGED running
    BY <1>5 DEF Killer, SweepPausing, SweepEnds, SweepBreaks,
                KillerReturnsToWait, KillerIsDone
  <2>2. KillerOK'
    BY <1>5, BodiesExist
       DEF Killer, SweepPausing, SweepEnds, SweepBreaks, KillerReturnsToWait,
           KillerIsDone, KillerOK
  <2> QED BY <1>1, <1>2, <1>3, <2>1, <2>2, DaemonsUnchanged DEF IInv
<1> QED BY <1>4, <1>5

-----------------------------------------------------------------------------
LEMMA NextIInv == IInv /\ [Next]_vars => IInv'
<1> SUFFICES ASSUME IInv, [Next]_vars PROVE IInv'
  OBVIOUS
<1>1. CASE UserEdits \/ UserDeletes \/ Pause \/ Disconnect \/ Resume \/ Exit
  BY <1>1, OutsideIInv
<1>2. CASE Worker
  BY <1>2, TakeEventIInv, SpawnDaemonsIInv, StoppingIInv, DecideIInv, ApplyIInv
     DEF Worker
<1>3. CASE Killer
  BY <1>3, KillerIInv
<1>4. ASSUME NEW d \in DOMAIN running,
             \/ ExitsOnItsOwn(d) \/ ExitsOnRequest(d) \/ TimerDozes(d)
             \/ AgePasses(d) \/ ChaserSteps(d)
      PROVE  IInv'
  BY <1>4, DaemonIInv
<1>5. CASE UNCHANGED vars
  <2>1. UNCHANGED worker
    BY <1>5 DEF vars
  <2> QED BY <1>5, <2>1, SteadyWorker DEF vars, IInv, WorkerOK
<1> QED BY <1>1, <1>2, <1>3, <1>4, <1>5 DEF Next

-----------------------------------------------------------------------------
(* The release of the object: what the worker knows in the middle of       *)
(* stop_daemons() of an object being deleted.  As long as no delay has     *)
(* come up, the daemons it has dealt with have exited or are abandoned;    *)
(* and nobody spawns a daemon before the cycle ends.                       *)

AllAbandoned(daemons) == \A d \in daemons : "abandoned" \in running[d].reasons

StoppedForDeletion ==
  /\ worker.pc \in {"stopping", "asked", "escalated"} /\ worker.event.deleting
       => /\ worker.reason = "deleted"
          /\ ~worker.delays => AllAbandoned(DOMAIN running \ worker.todo)
  /\ worker.pc = "applying" /\ worker.event.deleting /\ ~worker.delays
       => AllAbandoned(DOMAIN running)

(* The reasons of a daemon are only added to, until it exits. *)
ReasonsGrow ==
  \A d \in DOMAIN running' :
    d \in DOMAIN running /\ running[d].reasons \subseteq running'[d].reasons

LEMMA SpawnStopped ==
  ASSUME SpawnDaemons
  PROVE  StoppedForDeletion'
<1>1. worker'.pc = "stopping" /\ worker'.event = worker.event
  BY DEF SpawnDaemons, Stopping
<1>2. CASE worker.event.deleting
  <2>1. worker'.reason = "deleted" /\ worker'.todo = DOMAIN running'
    BY <1>2 DEF SpawnDaemons, Stopping
  <2> QED BY <1>1, <2>1 DEF StoppedForDeletion, AllAbandoned
<1>3. CASE ~worker.event.deleting
  BY <1>1, <1>3 DEF StoppedForDeletion
<1> QED BY <1>2, <1>3

LEMMA StoppedWhileOthersStep ==
  ASSUME StoppedForDeletion, ReasonsGrow, UNCHANGED worker
  PROVE  StoppedForDeletion'
BY DEF StoppedForDeletion, AllAbandoned, ReasonsGrow

LEMMA MarkGrows ==
  ASSUME IInv, NEW d \in DOMAIN running, NEW reason, Mark(d, reason)
  PROVE  ReasonsGrow /\ DOMAIN running' = DOMAIN running
                     /\ reason \in running'[d].reasons
<1>1. running[d] \in Daemon
  BY DEF IInv, RunningOK
<1>2. /\ DOMAIN running' = DOMAIN running
      /\ \A e \in DOMAIN running \ {d} : running'[e] = running[e]
      /\ running'[d].reasons = running[d].reasons \cup {reason}
  BY <1>1 DEF Mark, Daemon
<1> QED BY <1>2 DEF ReasonsGrow

LEMMA VisitStopped ==
  ASSUME StoppedForDeletion, worker.pc \in {"stopping", "asked", "escalated"},
         ReasonsGrow, NEW d,
         \/ \E pc \in {"asked", "escalated"} : Await(d, pc)
         \/ Visited(d, TRUE)
         \/ /\ Visited(d, FALSE)
            /\ d \in DOMAIN running' => "abandoned" \in running'[d].reasons
  PROVE  StoppedForDeletion'
<1>1. /\ worker'.pc \in {"stopping", "asked", "escalated"}
      /\ worker'.event = worker.event /\ worker'.reason = worker.reason
  BY DEF Await, Visited
<1>2. SUFFICES ASSUME worker.event.deleting, ~worker'.delays
               PROVE  AllAbandoned(DOMAIN running \ worker.todo)'
  BY <1>1 DEF StoppedForDeletion
<1>3. CASE \E pc \in {"asked", "escalated"} : Await(d, pc)
  <2>1. worker'.delays = worker.delays /\ worker'.todo = worker.todo
    BY <1>3 DEF Await
  <2>2. AllAbandoned(DOMAIN running \ worker.todo)
    BY <1>2, <2>1 DEF StoppedForDeletion
  <2> QED BY <2>1, <2>2 DEF AllAbandoned, ReasonsGrow
<1>4. ASSUME NEW delayed \in BOOLEAN, Visited(d, delayed)
      PROVE  ~worker.delays /\ ~delayed /\ worker'.todo = worker.todo \ {d}
  <2>1. worker'.delays = (worker.delays \/ delayed)
    BY <1>4, Zenon DEF Visited
  <2>2. worker'.todo = worker.todo \ {d}
    BY <1>4 DEF Visited
  <2> QED BY <1>2, <2>1, <2>2
<1>5. CASE /\ Visited(d, FALSE)
           /\ d \in DOMAIN running' => "abandoned" \in running'[d].reasons
  <2>1. AllAbandoned(DOMAIN running \ worker.todo)
    BY <1>2, <1>4, <1>5 DEF StoppedForDeletion
  <2> QED BY <1>4, <1>5, <2>1 DEF AllAbandoned, ReasonsGrow
<1>6. ~Visited(d, TRUE)
  BY <1>4
<1> QED BY <1>3, <1>5, <1>6

LEMMA EscalateStopped ==
  ASSUME IInv, StoppedForDeletion, worker.pc \in {"stopping", "asked"}, NEW d,
         Escalate(d)
  PROVE  StoppedForDeletion'
<1> DEFINE stage == Stage(d, worker.ages[d])
<1>1. CASE UNCHANGED running
           /\ \/ Visited(d, FALSE) /\ d \notin DOMAIN running
              \/ Visited(d, TRUE)
  <2>1. ReasonsGrow
    BY <1>1 DEF ReasonsGrow
  <2> QED BY <1>1, <2>1, VisitStopped
<1>2. CASE /\ d \in DOMAIN running
           /\ Mark(d, stage) /\ Await(d, "escalated")
  BY <1>2, MarkGrows, VisitStopped
<1>3. CASE /\ d \in DOMAIN running
           /\ Mark(d, "abandoned") /\ Visited(d, FALSE)
  BY <1>3, MarkGrows, VisitStopped
<1> QED BY <1>1, <1>2, <1>3 DEF Escalate

LEMMA StoppingStopped ==
  ASSUME IInv, StoppedForDeletion,
         (\E d \in Ids : StopDaemon(d)) \/ InstantExitIsOver
  PROVE  StoppedForDeletion'
<1>1. ASSUME NEW d \in Ids, StopDaemon(d) PROVE StoppedForDeletion'
  <2>1. worker.pc = "stopping"
    BY <1>1 DEF StopDaemon
  <2>2. CASE AlreadyAsked(d)
    BY <1>1, <2>1, <2>2, EscalateStopped DEF StopDaemon
  <2>3. CASE ~AlreadyAsked(d)
    <3>1. d \in DOMAIN running /\ Mark(d, worker.reason) /\ Await(d, "asked")
      BY <1>1, <2>3 DEF StopDaemon, AlreadyAsked
    <3> QED BY <2>1, <3>1, MarkGrows, VisitStopped
  <2> QED BY <2>2, <2>3
<1>2. ASSUME worker.pc = "asked", Escalate(worker.daemon)
      PROVE  StoppedForDeletion'
  BY <1>2, EscalateStopped
<1>3. ASSUME worker.pc = "escalated", UNCHANGED running,
             Visited(worker.daemon, worker.daemon \in DOMAIN running)
      PROVE  StoppedForDeletion'
  <2>1. ReasonsGrow
    BY <1>3 DEF ReasonsGrow
  <2>2. CASE worker.daemon \in DOMAIN running
    <3>1. Visited(worker.daemon, TRUE)
      BY <1>3, <2>2 DEF Visited
    <3> QED BY <1>3, <2>1, <3>1, VisitStopped
  <2>3. CASE worker.daemon \notin DOMAIN running
    <3>1. Visited(worker.daemon, FALSE)
      BY <1>3, <2>3 DEF Visited
    <3> QED BY <1>3, <2>1, <2>3, <3>1, VisitStopped
  <2> QED BY <2>2, <2>3
<1> QED BY <1>1, <1>2, <1>3 DEF InstantExitIsOver

LEMMA WorkerStopped ==
  ASSUME IInv, StoppedForDeletion, Worker
  PROVE  StoppedForDeletion'
<1>1. CASE SpawnDaemons
  BY <1>1, SpawnStopped
<1>2. CASE (\E d \in Ids : StopDaemon(d)) \/ InstantExitIsOver
  BY <1>2, StoppingStopped
<1>3. CASE PauseDaemons
  <2>1. /\ worker'.event = worker.event /\ worker'.pc = "stopping"
        /\ worker.pc = "stopping" /\ worker.reason = "mismatch"
    BY <1>3 DEF PauseDaemons, Stopping
  <2> QED BY <2>1 DEF StoppedForDeletion
<1>4. CASE Decide
  <2>1. /\ worker'.event = worker.event /\ worker'.delays = worker.delays
        /\ worker'.pc = "applying" /\ UNCHANGED running
        /\ worker.pc = "stopping" /\ worker.todo = {}
    BY <1>4 DEF Decide
  <2>2. DOMAIN running \ worker.todo = DOMAIN running
    BY <2>1
  <2> QED BY <2>1, <2>2 DEF StoppedForDeletion, AllAbandoned
<1>5. CASE TakeEvent \/ Apply \/ NothingToApply \/ WakeUp \/ Touch
  <2>1. worker'.pc \in {"taken", "idle", "sleeping"}
    <3>1. CASE TakeEvent
      BY <3>1 DEF TakeEvent
    <3>2. CASE Apply \/ NothingToApply \/ WakeUp \/ Touch
      <4>1. worker' = [pc |-> "idle"] \/ worker' = [pc |-> "sleeping"]
        BY <3>2 DEF Apply, NothingToApply, WakeUp, Touch, Idle
      <4> QED BY <4>1
    <3> QED BY <1>5, <3>1, <3>2
  <2> QED BY <2>1 DEF StoppedForDeletion
<1> QED BY <1>1, <1>2, <1>3, <1>4, <1>5 DEF Worker

(* The tasks other than the worker only add reasons, or exit. *)
LEMMA OthersGrowReasons ==
  ASSUME IInv, [Next]_vars, ~Worker
  PROVE  ReasonsGrow /\ UNCHANGED worker
<1>1. CASE UNCHANGED <<running, worker>>
  BY <1>1 DEF ReasonsGrow
<1>2. CASE UserEdits \/ UserDeletes \/ Pause \/ Disconnect \/ Resume \/ Exit
  BY <1>1, <1>2 DEF UserEdits, UserDeletes, Pause, Disconnect, Resume, Exit
<1>3. CASE Killer /\ ~KillerVisits
  BY <1>1, <1>3 DEF Killer, SweepPausing, SweepEnds, SweepBreaks,
                    KillerReturnsToWait, KillerIsDone
<1>4. CASE KillerVisits
  <2>1. PICK d \in Unvisited : Chase(d, killer.pc)
    BY <1>4 DEF KillerVisits
  <2>2. d \in DOMAIN running /\ running[d] \in Daemon
    BY DEF Unvisited, IInv, RunningOK
  <2>3. ReasonsGrow
    BY <2>1, <2>2 DEF Chase, ReasonsGrow, Daemon
  <2> QED BY <1>4, <2>3 DEF KillerVisits
<1>5. ASSUME NEW d \in DOMAIN running,
             \/ ExitsOnItsOwn(d) \/ ExitsOnRequest(d) \/ TimerDozes(d)
             \/ AgePasses(d) \/ ChaserSteps(d)
      PROVE  ReasonsGrow /\ UNCHANGED worker
  <2>1. running[d] \in Daemon
    BY DEF IInv, RunningOK
  <2>2. CASE Leave(d)
    BY <2>2 DEF Leave, Others, ReasonsGrow
  <2>3. CASE TimerDozes(d) \/ AgePasses(d)
    BY <2>1, <2>3 DEF TimerDozes, AgePasses, ReasonsGrow, Daemon
  <2>4. CASE ChaserSteps(d)
    <3>1. PICK reason, chasers :
            running' = [running EXCEPT ![d].reasons = @ \cup {reason},
                                       ![d].chasers = chasers]
      BY <2>4 DEF ChaserSteps
    <3> QED BY <2>1, <2>4, <3>1 DEF ChaserSteps, ReasonsGrow, Daemon
  <2> QED BY <1>5, <2>2, <2>3, <2>4 DEF ExitsOnItsOwn, ExitsOnRequest
<1> QED BY <1>1, <1>2, <1>3, <1>4, <1>5 DEF Next, vars

LEMMA NextStopped ==
  ASSUME IInv, StoppedForDeletion, [Next]_vars
  PROVE  StoppedForDeletion'
BY WorkerStopped, OthersGrowReasons, StoppedWhileOthersStep

LEMMA InitStopped == Init => StoppedForDeletion
BY DEF Init, StoppedForDeletion, Idle

(* Only the worker removes a deleted object, and only by its patch. *)
LEMMA OnlyAppliedPatchReleases ==
  ASSUME IInv, [Next]_vars, object.deleting, object.there, ~object'.there
  PROVE  Apply
<1>1. ~ UNCHANGED object
  OBVIOUS
<1>2. ~UserDeletes
  BY DEF UserDeletes
<1>3. ~UserEdits
  BY DEF UserEdits, Becomes, IInv, ClusterOK
<1>4. ~Touch
  BY <1>1 DEF Touch, Becomes, clusterVars
<1>5. ~(Killer \/ Pause \/ Disconnect \/ Resume \/ Exit)
  BY <1>1 DEF Killer, SweepPausing, KillerVisits, SweepEnds, SweepBreaks,
              KillerReturnsToWait, KillerIsDone, Pause, Disconnect, Resume,
              Exit, clusterVars
<1>6. ~ \E d \in DOMAIN running :
          \/ ExitsOnItsOwn(d) \/ ExitsOnRequest(d) \/ TimerDozes(d)
          \/ AgePasses(d) \/ ChaserSteps(d)
  BY <1>1 DEF ExitsOnItsOwn, ExitsOnRequest, Leave, TimerDozes, AgePasses,
              ChaserSteps, clusterVars
<1>7. ~(TakeEvent \/ SpawnDaemons \/ PauseDaemons \/ Decide \/ NothingToApply
        \/ WakeUp \/ InstantExitIsOver \/ \E d \in Ids : StopDaemon(d))
  BY <1>1 DEF TakeEvent, SpawnDaemons, PauseDaemons, Decide, NothingToApply,
              WakeUp, InstantExitIsOver, StopDaemon, clusterVars
<1> QED BY <1>1, <1>2, <1>3, <1>4, <1>5, <1>6, <1>7 DEF Next, Worker, vars

THEOREM IInvHolds == Spec => []IInv
BY InitIInv, NextIInv, PTL DEF Spec

(***************************************************************************)
(* Every variable stays in its type; in particular, daemons exist only for *)
(* the declared handlers, and only reasons of the code stop them.          *)
(***************************************************************************)
THEOREM TypeCorrect == Spec => []TypeOK
<1>1. IInv => TypeOK
  BY DEF IInv, TypeOK, ClusterOK, OperatorOK, MemoryOK, RunningOK, KillerOK
<1> QED BY IInvHolds, <1>1, PTL

(***************************************************************************)
(* live_fresh_body: however many daemons are spawned, stopped and exit, in *)
(* whichever order, they all read the body that the worker refreshes.      *)
(***************************************************************************)
THEOREM BodiesAreLive == Spec => []BodyIsLive
<1>1. IInv => BodyIsLive
  BY DEF IInv
<1> QED BY IInvHolds, <1>1, PTL

(***************************************************************************)
(* forever_stopped: a daemon that has exited without being asked to is not *)
(* spawned again, however the object changes and the operator pauses.      *)
(***************************************************************************)
THEOREM OwnExitsAreFinal == Spec => []OwnExitIsFinal
<1>1. IInv => OwnExitIsFinal
  BY DEF IInv
<1> QED BY IInvHolds, <1>1, PTL

(***************************************************************************)
(* However the worker, the killer, the pauses and the exits interleave, a  *)
(* deleted object is released by a decision of the operator only when its  *)
(* matching daemons have exited or are abandoned.                          *)
(***************************************************************************)
THEOREM ReleasedAfterItsDaemons == Spec => ReleasedAfterDaemons
<1> DEFINE Obliged ==
      \A d \in DOMAIN running \cap worker.event.match :
         "abandoned" \in running[d].reasons
<1>1. ASSUME IInv, StoppedForDeletion, [Next]_vars,
             object.deleting, object.there, ~object'.there,
             MustRelease(worker.event, worker.delays)
      PROVE  Obliged
  <2>1. worker.pc = "applying"
    BY <1>1, OnlyAppliedPatchReleases DEF Apply
  <2>2. CASE ~MustBlock(worker.event)
    <3>1. worker.event.match \subseteq memory.forever
      BY <2>2 DEF MustBlock, HandlersFor
    <3> QED BY <1>1, <3>1 DEF IInv, OwnExitIsFinal
  <2>3. CASE IsReleased(worker.event, worker.delays)
    <3>1. AllAbandoned(DOMAIN running)
      BY <1>1, <2>1, <2>3 DEF IsReleased, StoppedForDeletion
    <3> QED BY <3>1 DEF AllAbandoned
  <2> QED BY <1>1, <2>2, <2>3 DEF MustRelease
<1>2. Spec => [](IInv /\ StoppedForDeletion)
  BY InitIInv, NextIInv, InitStopped, NextStopped, PTL DEF Spec
<1>3. IInv /\ StoppedForDeletion /\ [Next]_vars =>
        [object.deleting /\ object.there /\ ~object'.there
           /\ MustRelease(worker.event, worker.delays) => Obliged]_vars
  BY <1>1
<1> QED BY <1>2, <1>3, PTL DEF Spec, ReleasedAfterDaemons

-----------------------------------------------------------------------------
(* The rest of the worker.  Its last event shows the object as it is, if   *)
(* the object is watched; but nobody except the worker adds and removes    *)
(* the finalizer, and only on the last event, so that all events on the    *)
(* way agree on it.  Hence a patch of the finalizer, or what is left over  *)
(* from a conflict, always has something to do, and its event comes.       *)

InLoop == worker.pc \in {"stopping", "asked", "escalated"}
HasEvent == InLoop \/ worker.pc \in {"taken", "applying"}

DelaysOK == InLoop \/ worker.pc = "applying" => worker.delays \in BOOLEAN

DeletionIsBlocked == object.there /\ object.deleting => object.blocked

ExitingIsUnwatched == exiting => ~watched

BlockIsSeen ==
  object.there =>
    /\ \A i \in 1..Len(stream) : stream[i].blocked = object.blocked
    /\ HasEvent => worker.event.blocked = object.blocked

Shows(event) ==
  /\ event.match = object.match /\ event.deleting = object.deleting
  /\ event.blocked = object.blocked /\ ~event.gone

LatestIsSeen ==
  watched /\ object.there =>
    /\ stream # <<>> => Shows(stream[Len(stream)])
    /\ stream = <<>> /\ HasEvent => Shows(worker.event)

Fits(patch) ==
  object.there => /\ patch = "add" => ~object.blocked
                  /\ patch = "remove" => object.blocked

PatchesFit ==
  /\ Fits(memory.remaining)
  /\ worker.pc = "applying" => Fits(worker.patch)

KnownUnlessGone == HasEvent => memory.known = ~worker.event.gone

(* In stop_daemons(): the mismatching daemons are on the list, or waited   *)
(* for with a delay, or abandoned.                                         *)
LoopGoesOn ==
  InLoop =>
    \A d \in DOMAIN running \ worker.event.match :
       d \in worker.todo \/ worker.delays \/ "abandoned" \in running[d].reasons

(* Without a patch and a delay, the cycle ends only in a settled state.    *)
ApplyingGoesOn ==
  (/\ worker.pc = "applying" /\ worker.patch = "keep" /\ ~worker.delays
   /\ stream = <<>> /\ watched /\ object.there) => IsSettled

SInv ==
  /\ DelaysOK /\ DeletionIsBlocked /\ ExitingIsUnwatched
  /\ BlockIsSeen /\ LatestIsSeen /\ PatchesFit /\ KnownUnlessGone
  /\ LoopGoesOn /\ ApplyingGoesOn /\ RestIsSettled

LEMMA InitSInv == Init => SInv
<1> SUFFICES ASSUME Init PROVE SInv
  OBVIOUS
<1> USE DEF Init, Idle
<1>1. ~InLoop /\ ~HasEvent /\ worker.pc # "applying"
  BY DEF InLoop, HasEvent
<1>2. stream # <<>> /\ Len(stream) = 1 /\ stream[1] = Snapshot(object, TRUE)
  OBVIOUS
<1>3. Snapshot(object, TRUE).blocked = object.blocked /\ Shows(Snapshot(object, TRUE))
  BY DEF Snapshot, Shows
<1>4. BlockIsSeen /\ LatestIsSeen
  <2>1. \A i \in 1..Len(stream) : i = 1
    BY <1>2
  <2> HIDE DEF Init
  <2> QED BY <1>1, <1>2, <1>3, <2>1 DEF BlockIsSeen, LatestIsSeen
<1>5. RestIsSettled
  BY <1>2 DEF RestIsSettled, AtRest
<1>6. PatchesFit
  BY <1>1 DEF PatchesFit, Fits
<1> QED BY <1>1, <1>4, <1>5, <1>6
        DEF SInv, DelaysOK, DeletionIsBlocked, ExitingIsUnwatched, KnownUnlessGone,
            LoopGoesOn, ApplyingGoesOn

(* What is settled stays so while the daemons exit or are asked to.        *)
LEMMA StaysSettled ==
  ASSUME UNCHANGED object, memory.forever \subseteq memory'.forever, ReasonsGrow,
         IsSettled
  PROVE  IsSettled'
BY DEF IsSettled, ReasonsGrow

(* The steps of all but the worker and the object. *)
LEMMA OthersSInv ==
  ASSUME SInv, UNCHANGED <<object, stream, worker>>,
         watched' \in {watched, FALSE}, exiting' => ~watched',
         memory'.known = memory.known, memory'.remaining = memory.remaining,
         memory.forever \subseteq memory'.forever, ReasonsGrow
  PROVE  SInv'
<1> USE DEF SInv, InLoop, HasEvent
<1>1. watched' => watched
  OBVIOUS
<1>2. DelaysOK' /\ DeletionIsBlocked' /\ ExitingIsUnwatched'
  BY DEF DelaysOK, DeletionIsBlocked, ExitingIsUnwatched
<1>3. BlockIsSeen' /\ LatestIsSeen'
  BY <1>1 DEF BlockIsSeen, LatestIsSeen, Shows
<1>4. PatchesFit' /\ KnownUnlessGone'
  BY DEF PatchesFit, Fits, KnownUnlessGone
<1>5. LoopGoesOn'
  BY DEF LoopGoesOn, ReasonsGrow
<1>6. ApplyingGoesOn' /\ RestIsSettled'
  BY <1>1, StaysSettled DEF ApplyingGoesOn, RestIsSettled, AtRest
<1> QED BY <1>2, <1>3, <1>4, <1>5, <1>6

(* A change of the object that is not of the finalizer makes an event, if  *)
(* anybody watches.                                                        *)
LEMMA BecomesSInv ==
  ASSUME IInv, SInv, UNCHANGED <<watched, exiting, memory, running>>,
         worker' = worker \/ worker' = Idle,
         NEW o \in [there : BOOLEAN, match : SUBSET Ids, deleting : BOOLEAN,
                    blocked : BOOLEAN],
         NEW edited \in BOOLEAN, Becomes(o, edited),
         o.there => object.there /\ o.blocked = object.blocked,
         o.there /\ o.deleting => o.blocked
  PROVE  SInv'
<1> DEFINE s == Snapshot(o, edited)
<1>1. s \in Event /\ stream \in Seq(Event)
  BY SnapshotType DEF IInv, ClusterOK
<1>2. o.there => s.blocked = o.blocked /\ Shows(s)'
  BY DEF Becomes, Shows, Snapshot
<1> HIDE DEF s
<1>3. object' = o /\ stream' = IF watched THEN Append(stream, s) ELSE stream
  BY DEF Becomes, s
<1>4. watched => /\ stream' # <<>> /\ Len(stream') = Len(stream) + 1
                 /\ stream'[Len(stream')] = s
                 /\ \A i \in 1..Len(stream) : stream'[i] = stream[i]
  BY <1>1, <1>3
<1>5. /\ InLoop' => InLoop /\ worker' = worker
      /\ HasEvent' => HasEvent /\ worker' = worker
      /\ worker'.pc = "applying" => worker' = worker
  BY DEF InLoop, HasEvent, Idle
<1>6. DelaysOK' /\ DeletionIsBlocked' /\ ExitingIsUnwatched'
  BY <1>3, <1>5 DEF SInv, DelaysOK, DeletionIsBlocked, ExitingIsUnwatched
<1>7. BlockIsSeen'
  <2>1. ASSUME object'.there, NEW i \in 1..Len(stream')
        PROVE  stream'[i].blocked = object'.blocked
    <3>1. Len(stream) \in Nat /\ o.there
      BY <1>1, <1>3, <2>1
    <3>2. CASE watched
      <4>1. CASE i = Len(stream')
        BY <1>2, <1>3, <1>4, <3>1, <3>2, <4>1
      <4>2. CASE i # Len(stream')
        <5>1. i \in 1..Len(stream)
          BY <1>4, <2>1, <3>1, <3>2, <4>2
        <5> QED BY <1>3, <1>4, <3>1, <3>2, <5>1 DEF SInv, BlockIsSeen
      <4> QED BY <4>1, <4>2
    <3>3. CASE ~watched
      BY <1>3, <2>1, <3>1, <3>3 DEF SInv, BlockIsSeen
    <3> QED BY <3>2, <3>3
  <2>2. object'.there /\ HasEvent' => worker'.event.blocked = object'.blocked
    BY <1>3, <1>5 DEF SInv, BlockIsSeen
  <2> QED BY <2>1, <2>2 DEF BlockIsSeen
<1>8. LatestIsSeen'
  BY <1>2, <1>3, <1>4 DEF LatestIsSeen
<1>9. PatchesFit' /\ KnownUnlessGone' /\ LoopGoesOn'
  BY <1>3, <1>5 DEF SInv, PatchesFit, Fits, KnownUnlessGone, LoopGoesOn
<1>10. ApplyingGoesOn' /\ RestIsSettled'
  BY <1>4 DEF ApplyingGoesOn, RestIsSettled, AtRest
<1> QED BY <1>6, <1>7, <1>8, <1>9, <1>10 DEF SInv

(* The listing shows the object to a watcher that is connected again.      *)
LEMMA ResumeSInv ==
  ASSUME IInv, SInv, Resume
  PROVE  SInv'
<1> DEFINE s == Snapshot(object, FALSE)
<1>1. s \in Event /\ stream \in Seq(Event)
  BY SnapshotType DEF IInv, ClusterOK
<1>2. object.there => s.blocked = object.blocked /\ Shows(s)
  BY DEF Shows, Snapshot
<1> HIDE DEF s
<1>3. /\ stream' = IF ~watched /\ object.there THEN Append(stream, s) ELSE stream
      /\ watched' /\ ~exiting' /\ UNCHANGED <<object, memory, running, worker>>
  BY DEF Resume, s
<1>4. CASE ~watched /\ object.there
  <2>1. /\ stream' # <<>> /\ Len(stream') = Len(stream) + 1
        /\ stream'[Len(stream')] = s
        /\ \A i \in 1..Len(stream) : stream'[i] = stream[i]
    BY <1>1, <1>3, <1>4
  <2>2. \A i \in 1..Len(stream') : i \in 1..Len(stream) \/ i = Len(stream')
    BY <1>1, <2>1
  <2>3. BlockIsSeen'
    BY <1>2, <1>3, <2>1, <2>2 DEF SInv, BlockIsSeen, HasEvent, InLoop
  <2>4. LatestIsSeen'
    BY <1>2, <1>3, <1>4, <2>1 DEF LatestIsSeen, Shows
  <2>5. ApplyingGoesOn' /\ RestIsSettled'
    BY <2>1 DEF ApplyingGoesOn, RestIsSettled, AtRest
  <2> QED BY <1>3, <2>3, <2>4, <2>5
          DEF SInv, DelaysOK, DeletionIsBlocked, ExitingIsUnwatched, PatchesFit, Fits,
              KnownUnlessGone, LoopGoesOn, HasEvent, InLoop
<1>5. CASE ~object.there
  BY <1>3, <1>5
     DEF SInv, DelaysOK, DeletionIsBlocked, ExitingIsUnwatched, BlockIsSeen,
         LatestIsSeen, PatchesFit, Fits, KnownUnlessGone, LoopGoesOn, ApplyingGoesOn,
         RestIsSettled, AtRest, HasEvent, InLoop
<1>6. CASE watched
  <2>1. ReasonsGrow
    BY <1>3 DEF ReasonsGrow
  <2> QED BY <1>3, <1>6, <2>1, OthersSInv DEF IInv, OperatorOK
<1> QED BY <1>4, <1>5, <1>6

(* The steps of the worker.                                                *)

LEMMA TakeEventSInv ==
  ASSUME IInv, SInv, TakeEvent
  PROVE  SInv'
<1>1. /\ stream \in Seq(Event) /\ stream # <<>> /\ stream' = Tail(stream)
      /\ worker'.pc = "taken" /\ worker'.event = stream[1]
      /\ UNCHANGED <<object, watched, exiting, running>>
      /\ memory' = [memory EXCEPT !.known = ~stream[1].gone]
  BY DEF TakeEvent, IInv, ClusterOK, operatorVars
<1>2. /\ Len(stream) \in Nat \ {0} /\ Len(stream') = Len(stream) - 1
      /\ \A i \in 1..Len(stream') : stream'[i] = stream[i + 1]
      /\ stream' = <<>> => Len(stream) = 1
      /\ stream' # <<>> => Len(stream') \in 1..Len(stream')
  <2>1. Len(stream) \in Nat /\ Len(stream) # 0
    BY <1>1
  <2>2. Len(stream') = Len(stream) - 1 /\ stream' \in Seq(Event)
    BY <1>1, <2>1
  <2>3. \A i \in 1..Len(stream') : stream'[i] = stream[i + 1]
    BY <1>1, <2>1, <2>2
  <2>4. stream' = <<>> => Len(stream') = 0
    OBVIOUS
  <2>5. stream' # <<>> => Len(stream') # 0 /\ Len(stream') \in Nat
    BY <2>2
  <2> QED BY <2>1, <2>2, <2>3, <2>4, <2>5
<1>3. memory'.known = ~stream[1].gone /\ memory'.remaining = memory.remaining
  BY <1>1 DEF IInv, MemoryOK
<1>4. HasEvent' /\ ~InLoop' /\ worker'.pc # "applying" /\ worker'.pc # "idle"
  BY <1>1 DEF HasEvent, InLoop
<1>5. BlockIsSeen'
  <2>1. ASSUME object.there
        PROVE  /\ stream[1].blocked = object.blocked
               /\ \A i \in 1..Len(stream') : stream'[i].blocked = object.blocked
    <3>1. \A i \in 1..Len(stream) : stream[i].blocked = object.blocked
      BY <2>1 DEF SInv, BlockIsSeen
    <3>2. \A i \in 1..Len(stream') : i + 1 \in 1..Len(stream)
      BY <1>2
    <3> QED BY <1>2, <3>1, <3>2
  <2> QED BY <1>1, <2>1 DEF BlockIsSeen
<1>6. LatestIsSeen'
  <2>1. ASSUME watched, object.there
        PROVE  /\ stream' # <<>> => Shows(stream'[Len(stream')])
               /\ stream' = <<>> => Shows(stream[1])
    <3>1. Shows(stream[Len(stream)])
      BY <1>1, <2>1 DEF SInv, LatestIsSeen
    <3>2. stream' # <<>> => stream'[Len(stream')] = stream[Len(stream)]
      BY <1>2
    <3> QED BY <1>2, <3>1, <3>2
  <2> QED BY <1>1, <2>1 DEF LatestIsSeen, Shows
<1>7. PatchesFit' /\ KnownUnlessGone'
  BY <1>1, <1>3, <1>4 DEF SInv, PatchesFit, Fits, KnownUnlessGone
<1> QED BY <1>1, <1>4, <1>5, <1>6, <1>7
        DEF SInv, DelaysOK, DeletionIsBlocked, ExitingIsUnwatched, LoopGoesOn,
            ApplyingGoesOn, RestIsSettled, AtRest

(* A step of the worker in the cycle: it keeps the event it has.           *)
LEMMA CycleSInv ==
  ASSUME SInv, UNCHANGED <<object, stream, watched, exiting>>,
         memory'.known = memory.known, memory'.remaining = memory.remaining,
         HasEvent, HasEvent', worker'.event = worker.event,
         DelaysOK', LoopGoesOn', ApplyingGoesOn',
         worker'.pc = "applying" => Fits(worker'.patch)
  PROVE  SInv'
<1>1. worker'.pc # "idle"
  BY DEF HasEvent, InLoop
<1>2. BlockIsSeen' /\ LatestIsSeen' /\ KnownUnlessGone' /\ PatchesFit'
  BY DEF SInv, BlockIsSeen, LatestIsSeen, Shows, KnownUnlessGone, PatchesFit, Fits
<1> QED BY <1>1, <1>2
        DEF SInv, DeletionIsBlocked, ExitingIsUnwatched, RestIsSettled, AtRest

LEMMA SpawnDaemonsSInv ==
  ASSUME IInv, SInv, SpawnDaemons
  PROVE  SInv'
<1>1. /\ worker.pc = "taken" /\ worker'.pc = "stopping"
      /\ worker'.event = worker.event /\ worker'.delays = FALSE
      /\ UNCHANGED <<object, stream, watched, exiting>>
      /\ DOMAIN running' \ HandlersFor(worker.event) \subseteq worker'.todo
  BY DEF SpawnDaemons, Stopping, clusterVars, operatorVars
<1>2. memory'.known = memory.known /\ memory'.remaining = memory.remaining
  BY DEF SpawnDaemons, IInv, MemoryOK
<1>3. HasEvent /\ HasEvent' /\ InLoop' /\ worker'.pc # "applying"
  BY <1>1 DEF HasEvent, InLoop
<1>4. LoopGoesOn'
  BY <1>1 DEF LoopGoesOn, HandlersFor
<1> QED BY <1>1, <1>2, <1>3, <1>4, CycleSInv DEF DelaysOK, ApplyingGoesOn

LEMMA VisitSInv ==
  ASSUME SInv, InLoop, ReasonsGrow, NEW d,
         UNCHANGED <<object, stream, watched, exiting, memory>>,
         \/ \E pc \in {"asked", "escalated"} : Await(d, pc)
         \/ Visited(d, TRUE)
         \/ /\ Visited(d, FALSE)
            /\ d \in DOMAIN running' => "abandoned" \in running'[d].reasons
  PROVE  SInv'
<1>1. /\ InLoop' /\ worker'.event = worker.event /\ worker'.pc # "applying"
      /\ HasEvent /\ HasEvent' /\ worker.delays \in BOOLEAN
  BY DEF Await, Visited, InLoop, HasEvent, SInv, DelaysOK
<1>2. CASE \E pc \in {"asked", "escalated"} : Await(d, pc)
  <2>1. worker'.delays = worker.delays /\ worker'.todo = worker.todo
    BY <1>2 DEF Await
  <2>2. LoopGoesOn'
    BY <1>1, <2>1 DEF SInv, LoopGoesOn, ReasonsGrow
  <2> QED BY <1>1, <2>1, <2>2, CycleSInv DEF DelaysOK, ApplyingGoesOn
<1>3. ASSUME NEW delayed \in BOOLEAN, Visited(d, delayed)
      PROVE  /\ worker'.delays = (worker.delays \/ delayed)
             /\ worker'.delays \in BOOLEAN /\ worker'.todo = worker.todo \ {d}
  <2>1. worker'.delays = (worker.delays \/ delayed)
    BY <1>3, Zenon DEF Visited
  <2>2. worker'.todo = worker.todo \ {d}
    BY <1>3 DEF Visited
  <2> QED BY <2>1, <2>2
<1>4. CASE Visited(d, TRUE)
  <2>1. worker'.delays = TRUE
    BY <1>3, <1>4
  <2>2. LoopGoesOn'
    BY <2>1 DEF LoopGoesOn
  <2> QED BY <1>1, <2>1, <2>2, CycleSInv DEF DelaysOK, ApplyingGoesOn
<1>5. CASE /\ Visited(d, FALSE)
           /\ d \in DOMAIN running' => "abandoned" \in running'[d].reasons
  <2>1. /\ worker.delays => worker'.delays
        /\ worker'.delays \in BOOLEAN /\ worker'.todo = worker.todo \ {d}
    BY <1>3, <1>5
  <2>2. ASSUME NEW e \in DOMAIN running' \ worker.event.match
        PROVE  \/ e \in worker'.todo \/ worker'.delays
               \/ "abandoned" \in running'[e].reasons
    <3>1. /\ e \in DOMAIN running \ worker.event.match
          /\ running[e].reasons \subseteq running'[e].reasons
      BY DEF ReasonsGrow
    <3>2. \/ e \in worker.todo \/ worker.delays
          \/ "abandoned" \in running[e].reasons
      BY <3>1 DEF SInv, LoopGoesOn
    <3> QED BY <1>5, <2>1, <3>1, <3>2
  <2>3. LoopGoesOn'
    BY <1>1, <2>2 DEF LoopGoesOn
  <2> QED BY <1>1, <2>1, <2>3, CycleSInv DEF DelaysOK, ApplyingGoesOn
<1> QED BY <1>2, <1>4, <1>5

LEMMA EscalateSInv ==
  ASSUME IInv, SInv, worker.pc \in {"stopping", "asked"}, NEW d, Escalate(d),
         UNCHANGED <<object, stream, watched, exiting, memory>>
  PROVE  SInv'
<1> DEFINE stage == Stage(d, worker.ages[d])
<1>1. InLoop
  BY DEF InLoop
<1>2. CASE UNCHANGED running
           /\ \/ Visited(d, FALSE) /\ d \notin DOMAIN running
              \/ Visited(d, TRUE)
  <2>1. ReasonsGrow
    BY <1>2 DEF ReasonsGrow
  <2> QED BY <1>1, <1>2, <2>1, VisitSInv
<1>3. CASE /\ d \in DOMAIN running
           /\ Mark(d, stage) /\ Await(d, "escalated")
  BY <1>1, <1>3, MarkGrows, VisitSInv
<1>4. CASE /\ d \in DOMAIN running
           /\ Mark(d, "abandoned") /\ Visited(d, FALSE)
  BY <1>1, <1>4, MarkGrows, VisitSInv
<1> QED BY <1>2, <1>3, <1>4 DEF Escalate

LEMMA StoppingSInv ==
  ASSUME IInv, SInv, (\E d \in Ids : StopDaemon(d)) \/ InstantExitIsOver
  PROVE  SInv'
<1>1. UNCHANGED <<object, stream, watched, exiting, memory>>
  BY DEF StopDaemon, InstantExitIsOver, clusterVars, operatorVars
<1>2. ASSUME NEW d \in Ids, StopDaemon(d) PROVE SInv'
  <2>1. worker.pc = "stopping" /\ InLoop
    BY <1>2 DEF StopDaemon, InLoop
  <2>2. CASE AlreadyAsked(d)
    BY <1>1, <1>2, <2>1, <2>2, EscalateSInv DEF StopDaemon
  <2>3. CASE ~AlreadyAsked(d)
    <3>1. d \in DOMAIN running /\ Mark(d, worker.reason) /\ Await(d, "asked")
      BY <1>2, <2>3 DEF StopDaemon, AlreadyAsked
    <3> QED BY <1>1, <2>1, <3>1, MarkGrows, VisitSInv
  <2> QED BY <2>2, <2>3
<1>3. ASSUME worker.pc = "asked", Escalate(worker.daemon)
      PROVE  SInv'
  BY <1>1, <1>3, EscalateSInv
<1>4. ASSUME worker.pc = "escalated", UNCHANGED running,
             Visited(worker.daemon, worker.daemon \in DOMAIN running)
      PROVE  SInv'
  <2>1. ReasonsGrow /\ InLoop
    BY <1>4 DEF ReasonsGrow, InLoop
  <2>2. CASE worker.daemon \in DOMAIN running
    <3>1. Visited(worker.daemon, TRUE)
      BY <1>4, <2>2 DEF Visited
    <3> QED BY <1>1, <2>1, <3>1, VisitSInv
  <2>3. CASE worker.daemon \notin DOMAIN running
    <3>1. Visited(worker.daemon, FALSE)
      BY <1>4, <2>3 DEF Visited
    <3> QED BY <1>1, <1>4, <2>1, <2>3, <3>1, VisitSInv
  <2> QED BY <2>2, <2>3
<1> QED BY <1>2, <1>3, <1>4 DEF InstantExitIsOver

(* Without delays, "keep" is decided in a settled state only.              *)
LEMMA DecideSInv ==
  ASSUME IInv, SInv, Decide \/ PauseDaemons
  PROVE  SInv'
<1>1. CASE PauseDaemons
  <2>1. /\ worker.pc = "stopping" /\ worker'.pc = "stopping"
        /\ worker'.event = worker.event /\ worker'.delays = worker.delays
        /\ worker'.todo = DOMAIN running
        /\ UNCHANGED <<object, stream, watched, exiting, memory, running>>
    BY <1>1 DEF PauseDaemons, Stopping, clusterVars, operatorVars
  <2>2. HasEvent /\ HasEvent' /\ InLoop /\ InLoop' /\ worker'.pc # "applying"
    BY <2>1 DEF HasEvent, InLoop
  <2>3. DelaysOK' /\ LoopGoesOn' /\ ApplyingGoesOn'
    BY <2>1, <2>2 DEF SInv, DelaysOK, LoopGoesOn, ApplyingGoesOn
  <2> QED BY <2>1, <2>2, <2>3, CycleSInv
<1>2. CASE Decide
  <2> DEFINE event == worker.event
             delays == worker.delays
  <2>1. /\ worker.pc = "stopping" /\ worker.todo = {} /\ worker'.pc = "applying"
        /\ worker'.event = event /\ worker'.delays = delays
        /\ worker'.patch = Decision(event, delays)
        /\ UNCHANGED <<object, stream, watched, exiting, memory, running>>
    BY <1>2 DEF Decide, clusterVars, operatorVars
  <2>2. HasEvent /\ HasEvent' /\ InLoop /\ ~InLoop'
    BY <2>1 DEF HasEvent, InLoop
  <2>3. DelaysOK' /\ LoopGoesOn'
    BY <2>1, <2>2 DEF SInv, DelaysOK, LoopGoesOn
  <2>4. event \in Event /\ delays \in BOOLEAN
    BY <2>1, <2>2 DEF SInv, DelaysOK, IInv, WorkerOK
  <2>5. Fits(worker'.patch)
    <3>1. object.there => event.blocked = object.blocked
      BY <2>2 DEF SInv, BlockIsSeen
    <3>2. Fits(memory.remaining)
      BY DEF SInv, PatchesFit
    <3>3. CASE MustRelease(event, delays)
      <4>1. worker'.patch = "remove" /\ event.blocked
        BY <2>1, <3>3 DEF Decision, MustRelease, IsReleased
      <4> QED BY <3>1, <4>1 DEF Fits
    <3>4. CASE ~MustRelease(event, delays)
      <4>1. worker'.patch = memory.remaining
              \/ (worker'.patch = "add" /\ ~event.blocked)
        BY <2>1, <3>4 DEF Decision
      <4> QED BY <3>1, <3>2, <4>1 DEF Fits
    <3> QED BY <3>3, <3>4
  <2>6. ASSUME worker'.patch = "keep", ~delays, stream = <<>>, watched, object.there
        PROVE  IsSettled
    <3>1. Shows(event)
      BY <2>2, <2>6 DEF SInv, LatestIsSeen
    <3>2. ~MustRelease(event, delays)
          /\ ~(MustBlock(event) /\ ~event.blocked /\ ~event.deleting)
      BY <2>1, <2>6 DEF Decision
    <3>3. event.deleting => event.blocked
      BY <2>6, <3>1 DEF Shows, SInv, DeletionIsBlocked
    <3>4. ~event.deleting
      BY <2>6, <3>1, <3>2, <3>3 DEF Shows, MustRelease, IsReleased
    <3>5. event.blocked <=> MustBlock(event)
      BY <3>2, <3>4 DEF MustRelease
    <3>6. \A d \in DOMAIN running \ event.match : "abandoned" \in running[d].reasons
      BY <2>1, <2>2, <2>6 DEF SInv, LoopGoesOn
    <3> QED BY <3>1, <3>4, <3>5, <3>6 DEF IsSettled, Shows, MustBlock, HandlersFor
  <2>7. ApplyingGoesOn'
    BY <2>1, <2>6 DEF ApplyingGoesOn, IsSettled
  <2> QED BY <2>1, <2>2, <2>3, <2>5, <2>7, CycleSInv
<1> QED BY <1>1, <1>2

(* The worker ends its cycle, or sleeps, with the object as it is.         *)
LEMMA EndSInv ==
  ASSUME IInv, SInv, UNCHANGED <<object, stream, watched, exiting, running>>,
         memory'.known = memory.known, memory'.forever = memory.forever,
         Fits(memory'.remaining), worker'.pc \in {"idle", "sleeping"},
         RestIsSettled'
  PROVE  SInv'
<1>1. ~InLoop' /\ ~HasEvent' /\ worker'.pc # "applying"
  BY DEF InLoop, HasEvent
<1>2. BlockIsSeen' /\ LatestIsSeen' /\ PatchesFit'
  BY <1>1 DEF SInv, BlockIsSeen, LatestIsSeen, Shows, PatchesFit, Fits
<1> QED BY <1>1, <1>2
        DEF SInv, DelaysOK, DeletionIsBlocked, ExitingIsUnwatched, KnownUnlessGone,
            LoopGoesOn, ApplyingGoesOn

LEMMA ApplySInv ==
  ASSUME IInv, SInv, Apply
  PROVE  SInv'
<1> DEFINE patch == worker.patch
           event == worker.event
           fitting == event.blocked = (patch = "add")
<1>1. /\ worker.pc = "applying" /\ patch # "keep" /\ ~event.gone /\ worker' = Idle
      /\ UNCHANGED <<watched, exiting, running>>
      /\ ~InLoop' /\ ~HasEvent' /\ worker'.pc = "idle" /\ HasEvent
  BY DEF Apply, operatorVars, clusterVars, Idle, InLoop, HasEvent
<1>2. /\ event \in Event /\ patch \in {"add", "remove"}
      /\ event.blocked \in BOOLEAN /\ object.blocked \in BOOLEAN
  BY <1>1 DEF IInv, WorkerOK, ClusterOK, Event
<1>3. object.there => Fits(patch) /\ event.blocked = object.blocked /\ ~fitting
  <2>1. Fits(patch) /\ (object.there => event.blocked = object.blocked)
    BY <1>1 DEF SInv, PatchesFit, BlockIsSeen
  <2> QED BY <1>2, <2>1 DEF Fits
<1>4. CASE ~object.there
  <2>1. UNCHANGED <<object, stream>>
    BY <1>4 DEF Apply, clusterVars
  <2>2. memory'.known = memory.known /\ memory'.forever = memory.forever
    BY DEF Apply, IInv, MemoryOK
  <2>3. Fits(memory'.remaining) /\ RestIsSettled'
    BY <1>4, <2>1 DEF Fits, RestIsSettled, AtRest
  <2> QED BY <1>1, <2>1, <2>2, <2>3, EndSInv
<1>5. CASE object.there /\ IsUnchanged
  <2>1. /\ memory' = [memory EXCEPT !.remaining = "keep"]
        /\ Becomes(Patched, FALSE)
    BY <1>3, <1>5 DEF Apply
  <2>2. /\ memory'.known = memory.known /\ memory'.forever = memory.forever
        /\ memory'.remaining = "keep"
    BY <2>1 DEF IInv, MemoryOK
  <2>3. stream = <<>>
    BY <1>5 DEF IsUnchanged
  <2> PICK s : s = Snapshot(Patched, FALSE)
    OBVIOUS
  <2>4. object' = Patched /\ stream' = IF watched THEN <<s>> ELSE <<>>
    BY <2>1, <2>3 DEF Becomes
  <2>5. Shows(s)' \/ ~object'.there
    BY <2>4 DEF Shows, Snapshot
  <2>6. s.blocked = object'.blocked
    BY <2>4 DEF Snapshot
  <2>7. object'.there /\ object'.deleting => object'.blocked
    <3>1. CASE patch = "add"
      BY <2>4, <3>1 DEF Patched, IInv, ClusterOK
    <3>2. CASE patch # "add"
      BY <1>5, <2>4, <3>2 DEF Patched, IInv, ClusterOK
    <3> QED BY <3>1, <3>2
  <2>8. /\ watched => stream' # <<>> /\ Len(stream') = 1 /\ stream'[1] = s
        /\ ~watched => Len(stream') = 0
    BY <2>4
  <2>9. BlockIsSeen'
    <3>1. \A i \in 1..Len(stream') : stream'[i] = s
      <4>1. CASE watched
        <5>1. Len(stream') = 1 /\ stream'[1] = s
          BY <2>8, <4>1
        <5>2. \A i \in 1..1 : i = 1
          OBVIOUS
        <5> QED BY <5>1, <5>2
      <4>2. CASE ~watched
        BY <2>8, <4>2
      <4> QED BY <4>1, <4>2
    <3> QED BY <1>1, <2>6, <3>1 DEF BlockIsSeen
  <2>10. LatestIsSeen'
    BY <1>1, <2>5, <2>8 DEF LatestIsSeen
  <2>11. PatchesFit'
    BY <1>1, <2>2 DEF PatchesFit, Fits
  <2>12. RestIsSettled'
    BY <1>1, <2>8 DEF RestIsSettled, AtRest
  <2> QED BY <1>1, <2>7, <2>9, <2>10, <2>11, <2>12
          DEF SInv, DelaysOK, DeletionIsBlocked, ExitingIsUnwatched, KnownUnlessGone,
              LoopGoesOn, ApplyingGoesOn
<1>6. CASE object.there /\ ~IsUnchanged
  <2>1. /\ memory' = [memory EXCEPT !.remaining = patch]
        /\ UNCHANGED <<object, stream>>
    BY <1>3, <1>6 DEF Apply, clusterVars
  <2>2. /\ memory'.known = memory.known /\ memory'.forever = memory.forever
        /\ memory'.remaining = patch
    BY <2>1 DEF IInv, MemoryOK
  <2>3. ~(watched /\ stream = <<>>)
    <3>1. watched /\ stream = <<>> => Shows(event)
      BY <1>1, <1>6 DEF SInv, LatestIsSeen
    <3> QED BY <1>6, <3>1 DEF IsUnchanged, Shows
  <2>4. RestIsSettled'
    BY <1>1, <2>1, <2>3 DEF RestIsSettled, AtRest
  <2> QED BY <1>1, <1>3, <1>6, <2>1, <2>2, <2>4, EndSInv
<1> QED BY <1>4, <1>5, <1>6

LEMMA NothingToApplySInv ==
  ASSUME IInv, SInv, NothingToApply
  PROVE  SInv'
<1>1. /\ worker.pc = "applying" /\ (worker.event.gone \/ worker.patch = "keep")
      /\ UNCHANGED <<object, stream, watched, exiting, running>>
  BY DEF NothingToApply, clusterVars, operatorVars
<1>2. /\ memory'.known = memory.known /\ memory'.forever = memory.forever
      /\ worker.event.gone \/ memory'.remaining = "keep"
      /\ memory'.remaining \in {memory.remaining, "keep"}
  BY DEF NothingToApply, IInv, MemoryOK
<1>3. Fits(memory'.remaining)
  BY <1>2 DEF Fits, SInv, PatchesFit
<1>4. worker'.pc \in {"idle", "sleeping"}
  BY DEF NothingToApply, Idle
<1>5. RestIsSettled'
  <2> SUFFICES ASSUME AtRest'
               PROVE  /\ IsSettled' /\ memory'.known /\ memory'.remaining = "keep"
    BY DEF RestIsSettled
  <2>1. worker'.pc = "idle" /\ stream = <<>> /\ watched /\ object.there
    BY <1>1 DEF AtRest
  <2>2. HasEvent /\ Shows(worker.event)
    BY <1>1, <2>1 DEF HasEvent, SInv, LatestIsSeen
  <2>3. ~worker.event.gone /\ memory.known
    BY <2>2 DEF Shows, SInv, KnownUnlessGone
  <2>4. ~worker.delays
    BY <2>1, <2>3 DEF NothingToApply
  <2>5. IsSettled
    BY <1>1, <2>1, <2>3, <2>4 DEF SInv, ApplyingGoesOn
  <2> QED BY <1>1, <1>2, <2>3, <2>5 DEF IsSettled
<1> QED BY <1>1, <1>2, <1>3, <1>4, <1>5, EndSInv

(* A sleep is interrupted by an event, or ends in one.                     *)
LEMMA SleepSInv ==
  ASSUME IInv, SInv, WakeUp \/ Touch
  PROVE  SInv'
<1>1. UNCHANGED <<watched, exiting, memory, running>> /\ worker' = Idle
  BY DEF WakeUp, Touch, clusterVars, operatorVars
<1>2. worker'.pc \in {"idle", "sleeping"} /\ Fits(memory'.remaining)
  BY <1>1 DEF Idle, Fits, SInv, PatchesFit
<1>3. CASE WakeUp
  <2>1. UNCHANGED <<object, stream>> /\ (stream # <<>> \/ exiting)
    BY <1>3 DEF WakeUp, clusterVars
  <2>2. RestIsSettled' /\ Fits(memory'.remaining)
    BY <1>1, <1>2, <2>1 DEF RestIsSettled, AtRest, SInv, ExitingIsUnwatched, Fits
  <2> QED BY <1>1, <1>2, <2>1, <2>2, EndSInv
<1>4. CASE Touch /\ ~object.there
  <2>1. UNCHANGED <<object, stream>>
    BY <1>4 DEF Touch, clusterVars
  <2>2. RestIsSettled'
    BY <1>4, <2>1 DEF RestIsSettled, AtRest
  <2> QED BY <1>1, <1>2, <2>1, <2>2, EndSInv
<1>5. CASE Touch /\ object.there
  <2>1. Becomes(object, FALSE)
    BY <1>5 DEF Touch
  <2>2. object \in [there : BOOLEAN, match : SUBSET Ids, deleting : BOOLEAN,
                    blocked : BOOLEAN]
    BY DEF IInv, ClusterOK
  <2>3. object.there /\ object.deleting => object.blocked
    BY DEF SInv, DeletionIsBlocked
  <2> QED BY <1>1, <2>1, <2>2, <2>3, BecomesSInv
<1> QED BY <1>3, <1>4, <1>5

(* The users. *)
LEMMA UserSInv ==
  ASSUME IInv, SInv, UserEdits \/ UserDeletes
  PROVE  SInv'
<1>1. UNCHANGED <<watched, exiting, memory, running, worker>>
  BY DEF UserEdits, UserDeletes, operatorVars
<1>2. object \in [there : BOOLEAN, match : SUBSET Ids, deleting : BOOLEAN,
                  blocked : BOOLEAN]
  BY DEF IInv, ClusterOK
<1>3. object.there /\ object.deleting => object.blocked
  BY DEF SInv, DeletionIsBlocked
<1>4. CASE UserEdits
  <2>1. PICK m \in SUBSET Ids : Becomes([object EXCEPT !.match = m], TRUE)
    BY <1>4 DEF UserEdits
  <2> DEFINE o == [object EXCEPT !.match = m]
  <2>2. /\ o \in [there : BOOLEAN, match : SUBSET Ids, deleting : BOOLEAN,
                   blocked : BOOLEAN]
        /\ o.there = object.there /\ o.blocked = object.blocked
        /\ o.deleting = object.deleting
    BY <1>2
  <2>3. Becomes(o, TRUE)
    BY <2>1
  <2> HIDE DEF o
  <2> QED BY <1>1, <1>3, <2>2, <2>3, BecomesSInv
<1>5. CASE UserDeletes
  <2> DEFINE o == IF object.blocked THEN [object EXCEPT !.deleting = TRUE]
                                    ELSE [object EXCEPT !.there = FALSE]
  <2>1. Becomes(o, FALSE) /\ object.there
    BY <1>5 DEF UserDeletes
  <2>2. /\ o \in [there : BOOLEAN, match : SUBSET Ids, deleting : BOOLEAN,
                   blocked : BOOLEAN]
        /\ o.blocked = object.blocked
        /\ o.there => object.there /\ o.blocked
    BY <1>2, <2>1
  <2> HIDE DEF o
  <2> QED BY <1>1, <2>1, <2>2, BecomesSInv
<1> QED BY <1>4, <1>5

(* The daemons, the killer, and the operator that pauses and exits.        *)
LEMMA OutsideSInv ==
  ASSUME IInv, SInv, [Next]_vars, ~Worker, ~UserEdits, ~UserDeletes, ~Resume
  PROVE  SInv'
<1>1. ReasonsGrow /\ UNCHANGED worker
  BY OthersGrowReasons
<1>2. /\ UNCHANGED <<object, stream>> /\ watched' \in {watched, FALSE}
      /\ exiting' => ~watched'
      /\ memory'.known = memory.known /\ memory'.remaining = memory.remaining
      /\ memory.forever \subseteq memory'.forever
  <2>1. exiting => ~watched
    BY DEF SInv, ExitingIsUnwatched
  <2>2. CASE UNCHANGED vars
    BY <2>1, <2>2 DEF vars
  <2>3. CASE Pause \/ Disconnect \/ Exit
    <3>1. /\ UNCHANGED <<object, stream, memory>>
          /\ UNCHANGED <<watched, exiting>> \/ watched' = FALSE
      BY <2>3 DEF Pause, Disconnect, Exit, clusterVars, operatorVars
    <3>2. CASE UNCHANGED <<watched, exiting>>
      BY <2>1, <3>1, <3>2
    <3>3. CASE watched' = FALSE
      BY <3>1, <3>3
    <3> QED BY <3>1, <3>2, <3>3
  <2>4. CASE Killer
    <3>1. /\ UNCHANGED <<object, stream, memory>>
          /\ UNCHANGED <<watched, exiting>> \/ watched' = FALSE
      BY <2>4 DEF Killer, SweepPausing, KillerVisits, SweepEnds, SweepBreaks,
                  KillerReturnsToWait, KillerIsDone, clusterVars, operatorVars
    <3>2. CASE UNCHANGED <<watched, exiting>>
      BY <2>1, <3>1, <3>2
    <3>3. CASE watched' = FALSE
      BY <3>1, <3>3
    <3> QED BY <3>1, <3>2, <3>3
  <2>5. ASSUME NEW d \in DOMAIN running, Leave(d)
        PROVE  /\ UNCHANGED <<object, stream, watched, exiting>>
               /\ memory'.known = memory.known /\ memory'.remaining = memory.remaining
               /\ memory.forever \subseteq memory'.forever
    BY <2>5 DEF Leave, ForeverStopped, IInv, MemoryOK, clusterVars, operatorVars
  <2>6. ASSUME NEW d \in DOMAIN running, TimerDozes(d) \/ AgePasses(d) \/ ChaserSteps(d)
        PROVE  UNCHANGED <<object, stream, watched, exiting, memory>>
    BY <2>6 DEF TimerDozes, AgePasses, ChaserSteps, clusterVars, operatorVars
  <2> QED BY <2>1, <2>2, <2>3, <2>4, <2>5, <2>6 DEF Next, ExitsOnItsOwn, ExitsOnRequest
<1> QED BY <1>1, <1>2, OthersSInv

LEMMA NextSInv ==
  ASSUME IInv, SInv, [Next]_vars
  PROVE  SInv'
BY TakeEventSInv, SpawnDaemonsSInv, StoppingSInv, DecideSInv, ApplySInv,
   NothingToApplySInv, SleepSInv, UserSInv, ResumeSInv, OutsideSInv
   DEF Worker

(***************************************************************************)
(* process_resource_event(), for the daemons: however the events, the      *)
(* edits, the exits of the daemons, the pauses and the conflicts           *)
(* interleave, the worker does not rest while there is anything to do:     *)
(* a deletion, a finalizer to be added, removed or given up, a daemon to   *)
(* be stopped.                                                             *)
(***************************************************************************)
THEOREM RestsSettled == Spec => []RestIsSettled
<1>1. SInv => RestIsSettled
  BY DEF SInv
<1>2. Spec => [](IInv /\ SInv)
  BY InitIInv, NextIInv, InitSInv, NextSInv, PTL DEF Spec
<1> QED BY <1>1, <1>2, PTL
=============================================================================
