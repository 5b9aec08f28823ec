---------------------------- MODULE OperatorProofs ----------------------------
(***************************************************************************)
(* For any set of root tasks and clients, with or without a stop-flag and  *)
(* an ultimate timeout, and for any number of cancellations, the operator  *)
(* exits in order.                                                         *)
(***************************************************************************)
EXTENDS Operator, TLAPS

-----------------------------------------------------------------------------
(* The inductive invariant.                                                *)

(* A cancellation is on its way only to those who can get it, and only     *)
(* those who run wait for credentials.                                     *)
AskedAreAlive == asked \subseteq Alive
BlockedAreRunning == \A t \in blocked : state[t] = "running"
AllButSubExist == \A t \in Tasks \ {"sub"} : state[t] # "absent"

(* A guarded task does not begin, and so does not fail, before the start.  *)
StartedFirst ==
    \A t \in Guarded : state[t] \in {"running", "exiting", "done", "failed"} => started

(* The activities task: how it has come to the stage it is in.             *)
OthersOver == \A t \in OtherRoots : Over(t)
EndedInOrder ==
    /\ Over("retriever")
    /\ CoreFailed => state["activities"] = "failed"
    /\ ~CoreFailed => cleaned

StagesInOrder ==
    /\ state["activities"] \in {"running"} \cup Ended
    /\ stage = "over" <=> Over("activities")
    /\ stage = "startup" => ~started
    /\ stage \in {"sleeping", "awaiting", "cleanup"} => started
    /\ stage = "awaiting" => told >= 1

CoreInOrder ==
    stage = "core" =>
        /\ mood = "normal" => started /\ told >= 1 /\ OthersOver
        /\ mood = "failed" => ~started
        /\ mood = "cancelled" => ~started \/ told >= 2

CleanupInOrder ==
    stage = "cleanup" => told >= 1 /\ OthersOver /\ Over("retriever") /\ ~CoreFailed

OverInOrder == stage = "over" /\ started => told >= 2 \/ EndedInOrder

(* The credentials retriever is stopped after the roots, unless it has     *)
(* never begun, or the activities task is cancelled again.                 *)
IsRetrieverAsked == "retriever" \in asked \/ state["retriever"] = "exiting"
RetrieverIsLast ==
    IsRetrieverAsked =>
        \/ \A t \in Roots : Over(t)
        \/ ~started /\ stage # "startup"
        \/ told >= 2
        \/ loopClosed

(* The activities task is told to exit once, but by a cancelled operator.  *)
ToldOnce ==
    /\ runner = "waiting" => told = 0 /\ "activities" \notin asked
    /\ runner \notin {"cancelled", "killed"} =>
          /\ told <= 1
          /\ "activities" \in asked => told = 0
    /\ loopClosed => runner \in {"succeeded", "failed", "cancelled", "killed"}

(* Whom the runner waits for, and what it knows of the failures.           *)
RootsOver == \A t \in RootTasks : Over(t)
RootsAreAwaited ==
    /\ runner \in {"stopRoots", "cancelRoots"} => \A t \in RootTasks : t \in awaited \/ Over(t)
    /\ runner \in {"waitHung", "stopHung", "cancelHung", "succeeded", "failed"} => RootsOver

HungAreAwaited ==
    /\ runner \in {"waitHung", "stopHung"} => Alive \subseteq awaited
    /\ runner \in {"succeeded", "failed"} => Alive = {}

FailuresAreKnown ==
    /\ runner = "stopRoots" => Failed(RootTasks) \subseteq failures \cup awaited
    /\ runner \in {"waitHung", "stopHung", "succeeded", "failed"} =>
          Failed(RootTasks) \subseteq failures
    /\ runner = "succeeded" => failures = {}

TasksInOrder == TypeOK /\ AskedAreAlive /\ BlockedAreRunning /\ AllButSubExist /\ StartedFirst
ActivitiesInOrder == StagesInOrder /\ CoreInOrder /\ CleanupInOrder /\ OverInOrder
TellingInOrder == RetrieverIsLast /\ ToldOnce
RunnerInOrder == RootsAreAwaited /\ HungAreAwaited /\ FailuresAreKnown

IInv == TasksInOrder /\ ActivitiesInOrder /\ TellingInOrder /\ RunnerInOrder

-----------------------------------------------------------------------------
USE OperatorAssumption
    DEF WorldUnchanged, ActivitiesUnchanged, InstanceUnchanged, TasksUnchanged,
        RootTasks, Guarded, Tasks, OtherRoots, Ended, States

(* The tasks: their states, their cancellations. *)
LEMMA NextTasks ==
  ASSUME IInv, Next
  PROVE  TasksInOrder'
<1> USE DEF IInv, TasksInOrder, TypeOK, AskedAreAlive, BlockedAreRunning, AllButSubExist,
            StartedFirst, Alive, Failed, Ending, Killed
<1>1. ASSUME NEW t \in Guarded, Begin(t) PROVE TasksInOrder'
  BY <1>1 DEF Begin
<1>2. ASSUME NEW t \in Guarded, Obey(t) PROVE TasksInOrder'
  BY <1>2 DEF Obey, Finish
<1>3. ASSUME NEW t \in Guarded, Exit(t) PROVE TasksInOrder'
  BY <1>3 DEF Exit, Finish
<1>4. ASSUME NEW t \in Roots, Collapse(t) PROVE TasksInOrder'
  BY <1>4 DEF Collapse, Finish
<1>5. ASSUME NEW t \in Clients, Call(t) PROVE TasksInOrder'
  BY <1>5 DEF Call, Finish
<1>6. ASSUME NEW t \in Clients, Unblock(t) PROVE TasksInOrder'
  BY <1>6 DEF Unblock, Finish
<1>7. CASE Deplete \/ Authenticate
  BY <1>7 DEF Deplete, Authenticate, Finish
<1>8. CASE Spawn \/ SubEnds
  BY <1>8 DEF Spawn, SubEnds, Finish
<1>9. CASE Raise \/ CheckerExits
  BY <1>9 DEF Raise, CheckerExits, Finish
<1>10. CASE TerminatorExits \/ Kill
  <2>1. fuse' \in BOOLEAN
    BY <1>10 DEF TerminatorExits, Kill, MustKill
  <2> QED BY <1>10, <2>1 DEF TerminatorExits, Kill, Finish
<1>11. CASE StartupSucceeds
  BY <1>11 DEF StartupSucceeds, InStage
<1>12. CASE StartupFails
  BY <1>12 DEF StartupFails, InStage, StopCore, Cancel
<1>13. CASE ActivitiesCancelled
  BY <1>13 DEF ActivitiesCancelled, StopCore, Finish
<1>14. CASE OthersExited
  BY <1>14 DEF OthersExited, InStage, StopCore, Cancel
<1>15. CASE CoreStopped
  BY <1>15 DEF CoreStopped, InStage, Finish
<1>16. CASE CleanupEnds
  BY <1>16 DEF CleanupEnds, InStage, Finish
<1>17. CASE RootExited
  BY <1>17 DEF RootExited, Cancel
<1>18. CASE RootsStopped
  BY <1>18 DEF RootsStopped, AwaitedOver
<1>19. CASE HungWaited
  BY <1>19 DEF HungWaited, Cancel
<1>20. CASE HungStopped
  BY <1>20 DEF HungStopped, AwaitedOver
<1>21. CASE CancelOperator
  BY <1>21 DEF CancelOperator, Cancel
<1>22. CASE CancelledStops
  BY <1>22 DEF CancelledStops, AwaitedOver, Cancel
<1>23. CASE CloseLoop
  BY <1>23 DEF CloseLoop, Cancel
<1> QED
  BY <1>1, <1>2, <1>3, <1>4, <1>5, <1>6, <1>7, <1>8, <1>9, <1>10, <1>11, <1>12, <1>13, <1>14,
     <1>15, <1>16, <1>17, <1>18, <1>19, <1>20, <1>21, <1>22, <1>23
     DEF Next, Activities, Runner

(* The activities task. *)
LEMMA NextActivities ==
  ASSUME IInv, Next
  PROVE  ActivitiesInOrder'
<1> USE DEF IInv, TasksInOrder, TypeOK, AllButSubExist, BlockedAreRunning, StartedFirst,
            ActivitiesInOrder, StagesInOrder, CoreInOrder, CleanupInOrder, OverInOrder,
            TellingInOrder, ToldOnce, OthersOver, EndedInOrder, CoreFailed, Over
<1>1. ASSUME NEW t \in Guarded, Begin(t) PROVE ActivitiesInOrder'
  BY <1>1 DEF Begin
<1>2. ASSUME NEW t \in Guarded, Obey(t) PROVE ActivitiesInOrder'
  BY <1>2 DEF Obey, Finish
<1>3. ASSUME NEW t \in Guarded, Exit(t) PROVE ActivitiesInOrder'
  BY <1>3 DEF Exit, Finish
<1>4. ASSUME NEW t \in Roots, Collapse(t) PROVE ActivitiesInOrder'
  BY <1>4 DEF Collapse, Finish
<1>5. ASSUME NEW t \in Clients, Call(t) PROVE ActivitiesInOrder'
  BY <1>5 DEF Call, Finish
<1>6. ASSUME NEW t \in Clients, Unblock(t) PROVE ActivitiesInOrder'
  BY <1>6 DEF Unblock, Finish
<1>7. CASE Deplete \/ Authenticate
  BY <1>7 DEF Deplete, Authenticate, Finish
<1>8. CASE Spawn \/ SubEnds
  BY <1>8 DEF Spawn, SubEnds, Finish
<1>9. CASE Raise \/ CheckerExits
  BY <1>9 DEF Raise, CheckerExits, Finish
<1>10. CASE TerminatorExits \/ Kill
  BY <1>10 DEF TerminatorExits, Kill, MustKill, Finish
<1>11. CASE StartupSucceeds
  BY <1>11 DEF StartupSucceeds, InStage
<1>12. CASE StartupFails
  BY <1>12 DEF StartupFails, InStage, StopCore, Cancel
<1>13. CASE ActivitiesCancelled
  BY <1>13 DEF ActivitiesCancelled, StopCore, Finish
<1>14. CASE OthersExited
  BY <1>14 DEF OthersExited, InStage, StopCore, Cancel
<1>15. CASE CoreStopped
  BY <1>15 DEF CoreStopped, InStage, Finish
<1>16. CASE CleanupEnds
  BY <1>16 DEF CleanupEnds, InStage, Finish
<1>17. CASE RootExited
  BY <1>17 DEF RootExited, Cancel
<1>18. CASE RootsStopped
  BY <1>18 DEF RootsStopped, AwaitedOver
<1>19. CASE HungWaited
  BY <1>19 DEF HungWaited, Cancel
<1>20. CASE HungStopped
  BY <1>20 DEF HungStopped, AwaitedOver
<1>21. CASE CancelOperator
  BY <1>21 DEF CancelOperator, Cancel
<1>22. CASE CancelledStops
  BY <1>22 DEF CancelledStops, AwaitedOver, Cancel
<1>23. CASE CloseLoop
  BY <1>23 DEF CloseLoop, Cancel
<1> QED
  BY <1>1, <1>2, <1>3, <1>4, <1>5, <1>6, <1>7, <1>8, <1>9, <1>10, <1>11, <1>12, <1>13, <1>14,
     <1>15, <1>16, <1>17, <1>18, <1>19, <1>20, <1>21, <1>22, <1>23
     DEF Next, Activities, Runner

(* Who is told to exit, when and how often. *)
LEMMA NextTelling ==
  ASSUME IInv, Next
  PROVE  TellingInOrder'
<1> USE DEF IInv, TasksInOrder, TypeOK, AskedAreAlive, BlockedAreRunning, StartedFirst,
            ActivitiesInOrder, StagesInOrder, TellingInOrder, RetrieverIsLast,
            IsRetrieverAsked, ToldOnce, RunnerInOrder, RootsAreAwaited, HungAreAwaited,
            RootsOver, OthersOver, Alive, Over, Killed
<1>1. ASSUME NEW t \in Guarded, Begin(t) PROVE TellingInOrder'
  BY <1>1 DEF Begin
<1>2. ASSUME NEW t \in Guarded, Obey(t) PROVE TellingInOrder'
  BY <1>2 DEF Obey, Finish
<1>3. ASSUME NEW t \in Guarded, Exit(t) PROVE TellingInOrder'
  BY <1>3 DEF Exit, Finish
<1>4. ASSUME NEW t \in Roots, Collapse(t) PROVE TellingInOrder'
  BY <1>4 DEF Collapse, Finish
<1>5. ASSUME NEW t \in Clients, Call(t) PROVE TellingInOrder'
  BY <1>5 DEF Call, Finish
<1>6. ASSUME NEW t \in Clients, Unblock(t) PROVE TellingInOrder'
  BY <1>6 DEF Unblock, Finish
<1>7. CASE Deplete \/ Authenticate
  BY <1>7 DEF Deplete, Authenticate, Finish
<1>8. CASE Spawn \/ SubEnds
  BY <1>8 DEF Spawn, SubEnds, Finish
<1>9. CASE Raise \/ CheckerExits
  BY <1>9 DEF Raise, CheckerExits, Finish
<1>10. CASE TerminatorExits \/ Kill
  BY <1>10 DEF TerminatorExits, Kill, MustKill, Finish
<1>11. CASE StartupSucceeds
  BY <1>11 DEF StartupSucceeds, InStage
<1>12. CASE StartupFails
  BY <1>12 DEF StartupFails, InStage, StopCore, Cancel
<1>13. CASE ActivitiesCancelled
  BY <1>13 DEF ActivitiesCancelled, StopCore, Finish
<1>14. CASE OthersExited
  BY <1>14 DEF OthersExited, InStage, StopCore, Cancel
<1>15. CASE CoreStopped
  BY <1>15 DEF CoreStopped, InStage, Finish
<1>16. CASE CleanupEnds
  BY <1>16 DEF CleanupEnds, InStage, Finish
<1>17. CASE RootExited
  BY <1>17 DEF RootExited, Cancel
<1>18. CASE RootsStopped
  BY <1>18 DEF RootsStopped, AwaitedOver
<1>19. CASE HungWaited
  BY <1>19 DEF HungWaited, Cancel
<1>20. CASE HungStopped
  BY <1>20 DEF HungStopped, AwaitedOver
<1>21. CASE CancelOperator
  BY <1>21 DEF CancelOperator, Cancel
<1>22. CASE CancelledStops
  BY <1>22 DEF CancelledStops, AwaitedOver, Cancel
<1>23. CASE CloseLoop
  BY <1>23 DEF CloseLoop, Cancel
<1> QED
  BY <1>1, <1>2, <1>3, <1>4, <1>5, <1>6, <1>7, <1>8, <1>9, <1>10, <1>11, <1>12, <1>13, <1>14,
     <1>15, <1>16, <1>17, <1>18, <1>19, <1>20, <1>21, <1>22, <1>23
     DEF Next, Activities, Runner

(* The task of the operator. *)
LEMMA NextRunner ==
  ASSUME IInv, Next
  PROVE  RunnerInOrder'
<1> USE DEF IInv, TasksInOrder, TypeOK, AskedAreAlive, BlockedAreRunning, AllButSubExist,
            RunnerInOrder, RootsAreAwaited, HungAreAwaited, FailuresAreKnown, TellingInOrder,
            ToldOnce, RootsOver, Alive, Failed, Over, Killed
<1>1. ASSUME NEW t \in Guarded, Begin(t) PROVE RunnerInOrder'
  BY <1>1 DEF Begin
<1>2. ASSUME NEW t \in Guarded, Obey(t) PROVE RunnerInOrder'
  BY <1>2 DEF Obey, Finish
<1>3. ASSUME NEW t \in Guarded, Exit(t) PROVE RunnerInOrder'
  BY <1>3 DEF Exit, Finish
<1>4. ASSUME NEW t \in Roots, Collapse(t) PROVE RunnerInOrder'
  BY <1>4 DEF Collapse, Finish
<1>5. ASSUME NEW t \in Clients, Call(t) PROVE RunnerInOrder'
  BY <1>5 DEF Call, Finish
<1>6. ASSUME NEW t \in Clients, Unblock(t) PROVE RunnerInOrder'
  BY <1>6 DEF Unblock, Finish
<1>7. CASE Deplete \/ Authenticate
  BY <1>7 DEF Deplete, Authenticate, Finish
<1>8. CASE Spawn \/ SubEnds
  BY <1>8 DEF Spawn, SubEnds, Finish
<1>9. CASE Raise \/ CheckerExits
  BY <1>9 DEF Raise, CheckerExits, Finish
<1>10. CASE TerminatorExits \/ Kill
  BY <1>10 DEF TerminatorExits, Kill, MustKill, Finish
<1>11. CASE StartupSucceeds
  BY <1>11 DEF StartupSucceeds, InStage
<1>12. CASE StartupFails
  BY <1>12 DEF StartupFails, InStage, StopCore, Cancel
<1>13. CASE ActivitiesCancelled
  BY <1>13 DEF ActivitiesCancelled, StopCore, Finish
<1>14. CASE OthersExited
  BY <1>14 DEF OthersExited, InStage, StopCore, Cancel
<1>15. CASE CoreStopped
  BY <1>15 DEF CoreStopped, InStage, Finish
<1>16. CASE CleanupEnds
  BY <1>16 DEF CleanupEnds, InStage, Finish
<1>17. CASE RootExited
  BY <1>17 DEF RootExited, Cancel
<1>18. CASE RootsStopped
  BY <1>18 DEF RootsStopped, AwaitedOver
<1>19. CASE HungWaited
  BY <1>19 DEF HungWaited, Cancel
<1>20. CASE HungStopped
  BY <1>20 DEF HungStopped, AwaitedOver
<1>21. CASE CancelOperator
  BY <1>21 DEF CancelOperator, Cancel
<1>22. CASE CancelledStops
  BY <1>22 DEF CancelledStops, AwaitedOver, Cancel
<1>23. CASE CloseLoop
  BY <1>23 DEF CloseLoop, Cancel
<1> QED
  BY <1>1, <1>2, <1>3, <1>4, <1>5, <1>6, <1>7, <1>8, <1>9, <1>10, <1>11, <1>12, <1>13, <1>14,
     <1>15, <1>16, <1>17, <1>18, <1>19, <1>20, <1>21, <1>22, <1>23
     DEF Next, Activities, Runner

LEMMA InitIInv == Init => IInv
<1> SUFFICES ASSUME Init PROVE IInv
  OBVIOUS
<1> USE DEF Init
<1>1. TypeOK
  <2>1. state \in [Tasks -> States]
    OBVIOUS
  <2>2. 0 \in 0 .. MaxCancels
    OBVIOUS
  <2> QED BY <2>1, <2>2 DEF TypeOK
<1>2. TasksInOrder
  BY <1>1 DEF TasksInOrder, AskedAreAlive, BlockedAreRunning, AllButSubExist, StartedFirst
<1>3. ActivitiesInOrder
  BY DEF ActivitiesInOrder, StagesInOrder, CoreInOrder, CleanupInOrder, OverInOrder, Over
<1>4. TellingInOrder
  BY DEF TellingInOrder, RetrieverIsLast, IsRetrieverAsked, ToldOnce
<1>5. RunnerInOrder
  BY DEF RunnerInOrder, RootsAreAwaited, HungAreAwaited, FailuresAreKnown
<1> QED BY <1>2, <1>3, <1>4, <1>5 DEF IInv

LEMMA StutterIInv == IInv /\ UNCHANGED vars => IInv'
<1> SUFFICES ASSUME IInv, UNCHANGED vars PROVE IInv'
  OBVIOUS
<1> USE DEF IInv, vars, Over, Alive
<1>1. TasksInOrder'
  BY DEF TasksInOrder, TypeOK, AskedAreAlive, BlockedAreRunning, AllButSubExist, StartedFirst
<1>2. ActivitiesInOrder'
  BY DEF ActivitiesInOrder, StagesInOrder, CoreInOrder, CleanupInOrder, OverInOrder,
         OthersOver, EndedInOrder, CoreFailed
<1>3. TellingInOrder'
  BY DEF TellingInOrder, RetrieverIsLast, IsRetrieverAsked, ToldOnce
<1>4. RunnerInOrder'
  BY DEF RunnerInOrder, RootsAreAwaited, HungAreAwaited, FailuresAreKnown, RootsOver, Failed
<1> QED BY <1>1, <1>2, <1>3, <1>4

THEOREM IInvHolds == Spec => []IInv
<1>1. IInv /\ [Next]_vars => IInv'
  BY NextTasks, NextActivities, NextTelling, NextRunner, StutterIInv DEF IInv
<1> QED BY InitIInv, <1>1, PTL DEF Spec

-----------------------------------------------------------------------------
(***************************************************************************)
(* The types of the variables of the operator, its tasks and its runner.   *)
(***************************************************************************)
THEOREM TypeCorrect == Spec => []TypeOK
<1>1. IInv => TypeOK
  BY DEF IInv, TasksInOrder
<1> QED BY IInvHolds, <1>1, PTL

(***************************************************************************)
(* Nothing runs before the startup handlers are over; the credentials      *)
(* retriever outlives the root tasks, and the cleanup handlers come last.  *)
(***************************************************************************)
THEOREM ExitsAreOrderly == Spec => []OrderlyExit
<1>1. IInv => OrderlyExit
  <2> SUFFICES ASSUME IInv PROVE OrderlyExit
    OBVIOUS
  <2> USE DEF IInv, ActivitiesInOrder, TasksInOrder, TellingInOrder
  <2>1. \A t \in Guarded : state[t] \in {"running", "exiting"} => started
    BY DEF StartedFirst
  <2>2. (started /\ told <= 1 /\ ~loopClosed /\ IsRetrieverAsked) => \A t \in Roots : Over(t)
    BY DEF RetrieverIsLast, TypeOK
  <2>3. stage = "cleanup" => \A t \in RootTasks \cup {"retriever"} : t = "activities" \/ Over(t)
    BY DEF CleanupInOrder, OthersOver
  <2> QED BY <2>1, <2>2, <2>3 DEF OrderlyExit, IsRetrieverAsked
<1> QED BY IInvHolds, <1>1, PTL

(***************************************************************************)
(* The cleanup handlers are called whatever the reason of the exit is.     *)
(***************************************************************************)
THEOREM CleanupsRun == Spec => []CleanupRuns
<1>1. IInv => CleanupRuns
  <2> SUFFICES ASSUME IInv, started, ~CoreFailed,
                      \/ runner \in {"succeeded", "failed"}
                      \/ runner = "cancelled" /\ told = 1 /\ Alive = {}
               PROVE  cleaned
    BY DEF CleanupRuns
  <2> USE DEF IInv, ActivitiesInOrder, TasksInOrder, TellingInOrder, RunnerInOrder
  <2>1. Over("activities")
    BY DEF RootsAreAwaited, RootsOver, Alive, AllButSubExist, TypeOK, Over
  <2>2. told <= 1 /\ told \in Nat
    BY DEF ToldOnce, TypeOK
  <2>3. EndedInOrder
    BY <2>1, <2>2 DEF StagesInOrder, OverInOrder
  <2> QED BY <2>3 DEF EndedInOrder
<1> QED BY IInvHolds, <1>1, PTL

(***************************************************************************)
(* An operator that is not cancelled leaves no task behind, and no failure *)
(* of its tasks unreported.                                                *)
(***************************************************************************)
THEOREM NothingIsLeftBehind == Spec => []NothingIsLeft
<1>1. IInv => NothingIsLeft
  <2> SUFFICES ASSUME IInv PROVE NothingIsLeft
    OBVIOUS
  <2> USE DEF IInv, ActivitiesInOrder, TasksInOrder, TellingInOrder, RunnerInOrder
  <2>1. runner \in {"succeeded", "failed"} => Alive = {}
    BY DEF HungAreAwaited
  <2>2. ASSUME runner = "succeeded" PROVE Failed(RootTasks) = {}
    BY <2>2 DEF FailuresAreKnown
  <2>3. ASSUME runner = "succeeded", state["retriever"] = "failed" PROVE FALSE
    <3>1. Over("activities") /\ started
      BY <2>3 DEF RootsAreAwaited, RootsOver, StartedFirst
    <3>2. told <= 1 /\ told \in Nat
      BY <2>3 DEF ToldOnce, TypeOK
    <3>3. EndedInOrder
      BY <3>1, <3>2 DEF StagesInOrder, OverInOrder
    <3> QED BY <2>2, <2>3, <3>3 DEF EndedInOrder, CoreFailed, Failed
  <2> QED BY <2>1, <2>2, <2>3 DEF NothingIsLeft, Failed
<1> QED BY IInvHolds, <1>1, PTL

-----------------------------------------------------------------------------
(* Nobody is waited for in vain.                                           *)

(* The runner waits for existing tasks, and the activities task is told to *)
(* exit together with all other root tasks.                                *)
AwaitedExist == \A t \in awaited : state[t] # "absent"
ToldTogether ==
    "activities" \in asked => \A t \in OtherRoots \cap Alive : IsTold(t)
EInv == AwaitedExist /\ ToldTogether /\ ExitGoesOn

LEMMA NextEInv ==
  ASSUME IInv, EInv, Next
  PROVE  EInv'
<1> USE DEF EInv, AwaitedExist, ToldTogether, ExitGoesOn, IsLeaving, IsTold, IInv, TasksInOrder,
            TypeOK, AskedAreAlive, AllButSubExist, Alive, Over, Ending, Killed
<1>1. ASSUME NEW t \in Guarded, Begin(t) PROVE EInv'
  BY <1>1 DEF Begin
<1>2. ASSUME NEW t \in Guarded, Obey(t) PROVE EInv'
  BY <1>2 DEF Obey, Finish
<1>3. ASSUME NEW t \in Guarded, Exit(t) PROVE EInv'
  BY <1>3 DEF Exit, Finish
<1>4. ASSUME NEW t \in Roots, Collapse(t) PROVE EInv'
  BY <1>4 DEF Collapse, Finish
<1>5. ASSUME NEW t \in Clients, Call(t) PROVE EInv'
  BY <1>5 DEF Call, Finish
<1>6. ASSUME NEW t \in Clients, Unblock(t) PROVE EInv'
  BY <1>6 DEF Unblock, Finish
<1>7. CASE Deplete \/ Authenticate
  BY <1>7 DEF Deplete, Authenticate, Finish
<1>8. CASE Spawn \/ SubEnds
  BY <1>8 DEF Spawn, SubEnds, Finish
<1>9. CASE Raise \/ CheckerExits
  BY <1>9 DEF Raise, CheckerExits, Finish
<1>10. CASE TerminatorExits \/ Kill
  BY <1>10 DEF TerminatorExits, Kill, MustKill, Finish
<1>11. CASE StartupSucceeds
  BY <1>11 DEF StartupSucceeds, InStage
<1>12. CASE StartupFails
  BY <1>12 DEF StartupFails, InStage, StopCore, Cancel
<1>13. CASE ActivitiesCancelled
  BY <1>13 DEF ActivitiesCancelled, StopCore, Finish
<1>14. CASE OthersExited
  BY <1>14 DEF OthersExited, InStage, StopCore, Cancel
<1>15. CASE CoreStopped
  BY <1>15 DEF CoreStopped, InStage, Finish
<1>16. CASE CleanupEnds
  BY <1>16 DEF CleanupEnds, InStage, Finish
<1>17. CASE RootExited
  BY <1>17 DEF RootExited, Cancel
<1>18. CASE RootsStopped
  BY <1>18 DEF RootsStopped, AwaitedOver
<1>19. CASE HungWaited
  BY <1>19 DEF HungWaited, Cancel, RunnerInOrder, RootsAreAwaited, RootsOver
<1>20. CASE HungStopped
  BY <1>20 DEF HungStopped, AwaitedOver
<1>21. CASE CancelOperator
  BY <1>21 DEF CancelOperator, Cancel, RunnerInOrder, RootsAreAwaited, RootsOver
<1>22. CASE CancelledStops
  BY <1>22 DEF CancelledStops, AwaitedOver, Cancel
<1>23. CASE CloseLoop
  BY <1>23 DEF CloseLoop, Cancel
<1> QED
  BY <1>1, <1>2, <1>3, <1>4, <1>5, <1>6, <1>7, <1>8, <1>9, <1>10, <1>11, <1>12, <1>13, <1>14,
     <1>15, <1>16, <1>17, <1>18, <1>19, <1>20, <1>21, <1>22, <1>23
     DEF Next, Activities, Runner


LEMMA EInvHolds == Spec => []EInv
<1>1. Init => EInv
  BY DEF Init, EInv, AwaitedExist, ToldTogether, ExitGoesOn, Ending
<1>2. IInv /\ EInv /\ [Next]_vars => EInv'
  <2>1. CASE UNCHANGED vars
    BY <2>1 DEF EInv, AwaitedExist, ToldTogether, ExitGoesOn, IsLeaving, IsTold, Alive, vars
  <2> QED BY <2>1, NextEInv
<1> QED BY <1>1, <1>2, IInvHolds, PTL DEF Spec

(***************************************************************************)
(* The exit is never stuck: whomever the runner, or the activities task,   *)
(* waits for has been told to exit, for any root tasks that end, fail or   *)
(* call the API meanwhile, and for any number of cancellations.            *)
(***************************************************************************)
THEOREM ExitIsNeverStuck == Spec => []ExitGoesOn
<1>1. EInv => ExitGoesOn
  BY DEF EInv
<1> QED BY EInvHolds, <1>1, PTL
=============================================================================
