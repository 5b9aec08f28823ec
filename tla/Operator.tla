------------------------------ MODULE Operator ------------------------------
(***************************************************************************)
(* The life of the whole operator: spawn_tasks(), run_tasks() and the few  *)
(* irregular tasks they start in kopf/_core/reactor/running.py, over the   *)
(* guards and the stopping of kopf/_cogs/aiokits/aiotasks.py.              *)
(*                                                                         *)
(* The regular root tasks (Roots) wait for the started-flag in a guard,    *)
(* then run until cancelled; those in Clients call the API. "checker",     *)
(* "terminator" and "activities" are root tasks without a guard.           *)
(* "retriever" is the credentials retriever, the one core task: it is not  *)
(* among the roots, the activities task stops it once they are gone.       *)
(* "sub" is whatever a root task leaves behind: a daemon, a thread of a    *)
(* handler, which nobody awaits. The runner is the task of run_tasks().    *)
(*                                                                         *)
(* A cancellation is requested at one moment and delivered at another: a   *)
(* task in "asked" will get CancelledError when it continues next.         *)
(***************************************************************************)
EXTENDS Naturals, FiniteSets

CONSTANTS
    Roots,          \* the guarded root tasks
    Clients,        \* those of them that call the API of the cluster
    StopFlag,       \* is the operator run with a stop-flag?
    KillTimeout,    \* is settings.process.ultimate_exiting_timeout set?
    MaxCancels      \* bound: how often the operator's own task is cancelled

ASSUME OperatorAssumption ==
    /\ Clients \subseteq Roots
    /\ Roots \cap {"checker", "terminator", "activities", "retriever", "sub"} = {}
    /\ StopFlag \in BOOLEAN
    /\ KillTimeout \in BOOLEAN
    /\ MaxCancels \in Nat

VARIABLES
    state,      \* [Tasks -> States]
    asked,      \* tasks with a cancellation not yet delivered
    stage,      \* where the activities task is in its code
    mood,       \* how the activities task leaves its try-block: normally or not
    started,    \* started_flag
    vault,      \* the credentials: not retrieved yet, available, or given up
    blocked,    \* clients that wait for the credentials
    raised,     \* what the stop-flag checker waits for: a signal, the stop-flag
    fuse,       \* ultimate termination: call_later() is scheduled
    runner,     \* where run_tasks() is in its code
    awaited,    \* the tasks the runner waits for
    failures,   \* failed tasks among those the runner will re-raise from
    cancels,    \* cancellations of the operator's task so far
    loopClosed, \* asyncio.run() cancelled whatever was left in its loop
    cleaned,    \* the cleanup handlers were all called
    told        \* history: cancellations delivered to the activities task

vars == << state, asked, stage, mood, started, vault, blocked, raised, fuse, runner,
           awaited, failures, cancels, loopClosed, cleaned, told >>

RootTasks == Roots \cup {"checker", "terminator", "activities"}
Guarded == Roots \cup {"retriever"}
Tasks == RootTasks \cup {"retriever", "sub"}

Ended == {"done", "failed", "cancelled"}
States == {"absent", "held", "running", "exiting"} \cup Ended
Over(t) == state[t] \in Ended
Alive == {t \in Tasks : state[t] \notin Ended \cup {"absent"}}
Killed == runner = "killed"
Ending == {"cancelRoots", "cancelHung", "stopRoots", "waitHung", "stopHung"}

TypeOK ==
    /\ state \in [Tasks -> States]
    /\ asked \subseteq Tasks
    /\ stage \in {"startup", "sleeping", "awaiting", "core", "cleanup", "over"}
    /\ mood \in {"normal", "failed", "cancelled"}
    /\ started \in BOOLEAN /\ cleaned \in BOOLEAN /\ loopClosed \in BOOLEAN
    /\ vault \in {"empty", "filled", "useless"}
    /\ blocked \subseteq Clients
    /\ raised \in {"nothing", "signal", "flag"}
    /\ fuse \in BOOLEAN
    /\ runner \in Ending \cup {"waiting", "succeeded", "failed", "cancelled", "killed"}
    /\ awaited \subseteq Tasks /\ failures \subseteq Tasks
    /\ cancels \in 0 .. MaxCancels
    /\ told \in Nat

(* spawn_tasks(): everything exists, the guarded tasks are in their guards. *)
Init ==
    /\ state = [t \in Tasks |-> IF t \in Guarded THEN "held"
                                ELSE IF t = "sub" THEN "absent" ELSE "running"]
    /\ asked = {} /\ stage = "startup" /\ mood = "normal" /\ started = FALSE
    /\ vault = "empty" /\ blocked = {} /\ raised = "nothing" /\ fuse = FALSE
    /\ runner = "waiting" /\ awaited = RootTasks /\ failures = {} /\ cancels = 0
    /\ loopClosed = FALSE /\ cleaned = FALSE /\ told = 0

----------------------------------------------------------------------------
(* What the tasks do.                                                      *)

(* A task ends. The failed are remembered if the runner collects them.     *)
Finish(t, how) ==
    /\ state' = [state EXCEPT ![t] = how]
    /\ asked' = asked \ {t}

(* task.cancel() of several tasks at once: nothing happens to the finished. *)
Cancel(tasks) == asked' = asked \cup (tasks \cap Alive)

WorldUnchanged ==
    UNCHANGED << runner, awaited, failures, cancels, loopClosed, raised >>
ActivitiesUnchanged == UNCHANGED << stage, mood, started, cleaned, told >>

(* guard(): the flag is set and noticed, the coroutine begins.             *)
Begin(t) ==
    /\ ~Killed
    /\ state[t] = "held" /\ started /\ t \notin asked
    /\ state' = [state EXCEPT ![t] = "running"]
    /\ WorldUnchanged /\ ActivitiesUnchanged
    /\ UNCHANGED << asked, vault, blocked, fuse >>

(* guard(): cancelled before the flag is set, the coroutine never begins;  *)
(* cancelled later, it has some exiting to do (to withdraw, to wait).      *)
Obey(t) ==
    /\ ~Killed
    /\ t \in asked
    /\ \/ /\ state[t] = "held"
          /\ Finish(t, "cancelled")
       \/ /\ state[t] \in {"running", "exiting"}
          /\ state' = [state EXCEPT ![t] = "exiting"]
          /\ asked' = asked \ {t}
    /\ blocked' = blocked \ {t}
    /\ WorldUnchanged /\ ActivitiesUnchanged
    /\ UNCHANGED << vault, fuse >>

(* The exiting is over. It may fail, also for the lack of credentials.     *)
Exit(t) ==
    /\ ~Killed
    /\ state[t] = "exiting" /\ t \notin asked
    /\ \E how \in {"cancelled", "failed"} : Finish(t, how)
    /\ WorldUnchanged /\ ActivitiesUnchanged
    /\ UNCHANGED << vault, blocked, fuse >>

(* A root task fails, or finishes unexpectedly: guard() only logs it.      *)
Collapse(t) ==
    /\ ~Killed
    /\ state[t] = "running" /\ t \notin asked
    /\ \E how \in {"done", "failed"} : Finish(t, how)
    /\ blocked' = blocked \ {t}
    /\ WorldUnchanged /\ ActivitiesUnchanged
    /\ UNCHANGED << vault, fuse >>

(* A client calls the API: it waits for the credentials while there are    *)
(* none. LoginError once the login handlers are known to have no more.     *)
Call(t) ==
    /\ ~Killed
    /\ state[t] = "running" /\ t \notin asked \cup blocked
    /\ \/ /\ vault = "empty"
          /\ blocked' = blocked \cup {t}
          /\ UNCHANGED << state, asked >>
       \/ /\ vault = "useless"
          /\ Finish(t, "failed")
          /\ UNCHANGED blocked
    /\ WorldUnchanged /\ ActivitiesUnchanged
    /\ UNCHANGED << vault, fuse >>

(* A blocked client continues as soon as the vault is populated, with      *)
(* credentials or with nothing; in the latter case the call fails.         *)
Unblock(t) ==
    /\ ~Killed
    /\ t \in blocked /\ t \notin asked
    /\ vault # "empty"
    /\ blocked' = blocked \ {t}
    /\ \/ vault = "filled" /\ UNCHANGED << state, asked >>
       \/ vault = "useless" /\ Finish(t, "failed")
    /\ WorldUnchanged /\ ActivitiesUnchanged
    /\ UNCHANGED << vault, fuse >>

(* The credentials are rejected by the cluster: the vault is empty again.  *)
Deplete ==
    /\ ~Killed
    /\ vault = "filled"
    /\ \E t \in Clients : state[t] = "running"
    /\ vault' = "empty"
    /\ WorldUnchanged /\ ActivitiesUnchanged
    /\ UNCHANGED << state, asked, blocked, fuse >>

(* authenticate(): the login handlers return something or nothing at all,  *)
(* which populates the vault either way; or one of them fails for good:    *)
(* ActivityError ends the retriever, and the vault remains as it was.      *)
Authenticate ==
    /\ ~Killed
    /\ state["retriever"] = "running" /\ "retriever" \notin asked
    /\ vault = "empty"
    /\ \/ vault' \in {"filled", "useless"} /\ UNCHANGED << state, asked >>
       \/ Finish("retriever", "failed") /\ UNCHANGED vault
    /\ WorldUnchanged /\ ActivitiesUnchanged
    /\ UNCHANGED << blocked, fuse >>

(* A root task spawns a sub-task; it may end at any time, or never.        *)
Spawn ==
    /\ ~Killed
    /\ state["sub"] = "absent"
    /\ \E t \in Roots : state[t] = "running"
    /\ state' = [state EXCEPT !["sub"] = "running"]
    /\ WorldUnchanged /\ ActivitiesUnchanged
    /\ UNCHANGED << asked, vault, blocked, fuse >>

SubEnds ==
    /\ ~Killed
    /\ state["sub"] = "running"
    /\ \E how \in {"done", "failed"} \cup (IF "sub" \in asked THEN {"cancelled"} ELSE {}) :
          Finish("sub", how)
    /\ WorldUnchanged /\ ActivitiesUnchanged
    /\ UNCHANGED << vault, blocked, fuse >>

----------------------------------------------------------------------------
(* The irregular root tasks: stop_flag_checker(), ultimate_termination().  *)

(* SIGINT, SIGTERM, or the stop-flag. Nothing happens to a signal if the   *)
(* checker is not there to see it.                                         *)
Raise ==
    /\ ~Killed
    /\ raised = "nothing"
    /\ raised' \in {"signal"} \cup (IF StopFlag THEN {"flag"} ELSE {})
    /\ ActivitiesUnchanged
    /\ UNCHANGED << state, asked, vault, blocked, fuse, runner, awaited, failures,
                    cancels, loopClosed >>

(* The checker exits when anything is raised or when it is cancelled.      *)
CheckerExits ==
    /\ ~Killed
    /\ state["checker"] = "running"
    /\ raised # "nothing" \/ "checker" \in asked
    /\ Finish("checker", "done")
    /\ WorldUnchanged /\ ActivitiesUnchanged
    /\ UNCHANGED << vault, blocked, fuse >>

(* A mutant: only a signal schedules the SIGKILL.                          *)
KillAfterSignals == KillTimeout /\ raised = "signal"

(* The stop-flag means an intentional stop: no SIGKILL is scheduled then.  *)
MustKill == KillTimeout /\ raised # "flag"

TerminatorExits ==
    /\ ~Killed
    /\ state["terminator"] = "running" /\ "terminator" \in asked
    /\ Finish("terminator", "done")
    /\ fuse' = MustKill
    /\ WorldUnchanged /\ ActivitiesUnchanged
    /\ UNCHANGED << vault, blocked >>

(* The loop's timer fires in whatever state the operator is.               *)
Kill ==
    /\ fuse /\ ~Killed
    /\ ~(loopClosed /\ Alive = {})
    /\ fuse' = FALSE
    /\ runner' = "killed"
    /\ UNCHANGED << state, asked, stage, mood, started, vault, blocked, raised, awaited,
                    failures, cancels, loopClosed, cleaned, told >>

----------------------------------------------------------------------------
(* startup_cleanup_activities(): the stages of one task.                   *)

InStage(s) ==
    /\ ~Killed
    /\ state["activities"] = "running"
    /\ stage = s
InstanceUnchanged == UNCHANGED << vault, blocked, fuse >>

(* The finally-block: the core tasks are cancelled, then awaited.          *)
StopCore(m) ==
    /\ stage' = "core"
    /\ mood' = m

StartupSucceeds ==
    /\ InStage("startup") /\ "activities" \notin asked
    /\ started' = TRUE
    /\ stage' = "sleeping"
    /\ WorldUnchanged /\ InstanceUnchanged
    /\ UNCHANGED << state, asked, mood, cleaned, told >>

StartupFails ==
    /\ InStage("startup") /\ "activities" \notin asked
    /\ StopCore("failed")
    /\ Cancel({"retriever"})
    /\ WorldUnchanged /\ InstanceUnchanged
    /\ UNCHANGED << state, started, cleaned, told >>

(* A cancellation interrupts the startup handlers, the waiting for other   *)
(* root tasks, the waiting for the core tasks, the cleanup handlers; but   *)
(* it is the normal end of the eternal sleep.                              *)
ActivitiesCancelled ==
    /\ ~Killed
    /\ state["activities"] = "running" /\ "activities" \in asked
    /\ told' = told + 1
    /\ \/ /\ stage \in {"startup", "awaiting"}
          /\ StopCore("cancelled")
          /\ asked' = (asked \ {"activities"}) \cup ({"retriever"} \cap Alive)
          /\ UNCHANGED state
       \/ /\ stage = "sleeping"
          /\ stage' = "awaiting"
          /\ asked' = asked \ {"activities"}
          /\ UNCHANGED << state, mood >>
       \/ /\ stage \in {"core", "cleanup"}
          /\ stage' = "over" /\ mood' = "cancelled"
          /\ Finish("activities", "cancelled")
    /\ WorldUnchanged /\ InstanceUnchanged
    /\ UNCHANGED << started, cleaned >>

(* A mutant: the activities task waits for no other root task.             *)
NoOtherRoots == {}

(* What the activities task waits for: all root tasks but itself.          *)
OtherRoots == RootTasks \ {"activities"}

OthersExited ==
    /\ InStage("awaiting") /\ "activities" \notin asked
    /\ \A t \in OtherRoots : Over(t)
    /\ StopCore("normal")
    /\ Cancel({"retriever"})
    /\ WorldUnchanged /\ InstanceUnchanged
    /\ UNCHANGED << state, started, cleaned, told >>

(* The core tasks are over: re-raise their failure, or what was raised in  *)
(* the try-block; continue with the cleanup handlers if neither.           *)
(* A mutant: the result of the core tasks is not looked at.                *)
CoreIgnored == FALSE

CoreFailed == state["retriever"] = "failed"

CoreStopped ==
    /\ InStage("core") /\ "activities" \notin asked
    /\ Over("retriever")
    /\ LET failed == CoreFailed \/ mood = "failed" IN
       \/ /\ ~failed /\ mood = "normal"
          /\ stage' = "cleanup"
          /\ UNCHANGED << state, asked, mood >>
       \/ /\ failed \/ mood = "cancelled"
          /\ stage' = "over"
          /\ mood' = IF failed THEN "failed" ELSE "cancelled"
          /\ Finish("activities", mood')
    /\ WorldUnchanged /\ InstanceUnchanged
    /\ UNCHANGED << started, cleaned, told >>

CleanupEnds ==
    /\ InStage("cleanup") /\ "activities" \notin asked
    /\ cleaned' = TRUE
    /\ stage' = "over"
    /\ \E how \in {"done", "failed"} : Finish("activities", how)
    /\ WorldUnchanged /\ InstanceUnchanged
    /\ UNCHANGED << mood, started, told >>

----------------------------------------------------------------------------
(* run_tasks(): the task of the operator itself.                           *)

TasksUnchanged ==
    /\ ActivitiesUnchanged
    /\ InstanceUnchanged
    /\ UNCHANGED << state, raised, loopClosed >>

Failed(tasks) == {t \in tasks : state[t] = "failed"}

(* asyncio.wait(..., return_when=FIRST_COMPLETED) of the root tasks.       *)
RootExited ==
    /\ runner = "waiting"
    /\ \E t \in RootTasks : Over(t)
    /\ runner' = "stopRoots"
    /\ awaited' = RootTasks \cap Alive
    /\ failures' = Failed(RootTasks)
    /\ Cancel(RootTasks)
    /\ TasksUnchanged
    /\ UNCHANGED cancels

(* A mutant: tasks are taken for stopped once they have got the news.      *)
AwaitedTold == \A t \in awaited : t \notin asked

(* aiotasks.stop(): cancelled first, then awaited until the last one ends. *)
AwaitedOver == \A t \in awaited : Over(t)

(* aiotasks.stop() of the root tasks has them all; the others, whatever    *)
(* is left of the operator, are given a few seconds to finish.             *)
RootsStopped ==
    /\ runner = "stopRoots"
    /\ AwaitedOver
    /\ runner' = "waitHung"
    /\ failures' = failures \cup Failed(awaited)
    /\ awaited' = Alive
    /\ TasksUnchanged
    /\ UNCHANGED << asked, cancels >>

(* They finish in time, or the time is over and they are cancelled too.    *)
HungWaited ==
    /\ runner = "waitHung"
    /\ runner' = "stopHung"
    /\ failures' = failures \cup Failed(awaited)
    /\ awaited' = awaited \cap Alive
    /\ Cancel(awaited)
    /\ TasksUnchanged
    /\ UNCHANGED cancels

HungStopped ==
    /\ runner = "stopHung"
    /\ AwaitedOver
    /\ failures' = failures \cup Failed(awaited)
    /\ runner' = IF failures' = {} THEN "succeeded" ELSE "failed"
    /\ TasksUnchanged
    /\ UNCHANGED << asked, awaited, cancels >>

(* The operator's own task is cancelled. There is no graceful period: the  *)
(* cancellation goes to the root tasks, later to the hung tasks; when it   *)
(* comes while tasks are being stopped, they are left as they are.         *)
CancelOperator ==
    /\ cancels < MaxCancels
    /\ cancels' = cancels + 1
    /\ \/ /\ runner = "waiting"
          /\ runner' = "cancelRoots"
          /\ awaited' = RootTasks \cap Alive
          /\ Cancel(RootTasks)
       \/ /\ runner = "waitHung"
          /\ runner' = "cancelHung"
          /\ Cancel(awaited)
          /\ UNCHANGED awaited
       \/ /\ runner \in {"stopRoots", "stopHung", "cancelRoots", "cancelHung"}
          /\ runner' = "cancelled"
          /\ UNCHANGED << awaited, asked >>
    /\ TasksUnchanged
    /\ UNCHANGED failures

(* The cancelled operator has stopped the root tasks, then the hung ones.  *)
CancelledStops ==
    /\ AwaitedOver
    /\ \/ /\ runner = "cancelRoots"
          /\ runner' = "cancelHung"
          /\ awaited' = Alive
          /\ Cancel(Alive)
       \/ /\ runner = "cancelHung"
          /\ runner' = "cancelled"
          /\ UNCHANGED << awaited, asked >>
    /\ TasksUnchanged
    /\ UNCHANGED << failures, cancels >>

(* asyncio.run() cancels what the operator has left in the loop.           *)
CloseLoop ==
    /\ runner \in {"succeeded", "failed", "cancelled"}
    /\ ~loopClosed
    /\ loopClosed' = TRUE
    /\ Cancel(Tasks)
    /\ ActivitiesUnchanged /\ InstanceUnchanged
    /\ UNCHANGED << state, raised, runner, awaited, failures, cancels >>

----------------------------------------------------------------------------
Runner ==
    \/ RootExited \/ RootsStopped \/ HungWaited \/ HungStopped
    \/ CancelledStops \/ CloseLoop
Activities ==
    \/ StartupSucceeds \/ StartupFails \/ ActivitiesCancelled \/ OthersExited
    \/ CoreStopped \/ CleanupEnds

Next ==
    \/ \E t \in Guarded : Begin(t) \/ Obey(t) \/ Exit(t)
    \/ \E t \in Roots : Collapse(t)
    \/ \E t \in Clients : Call(t) \/ Unblock(t)
    \/ Deplete \/ Authenticate
    \/ Spawn \/ SubEnds
    \/ Raise \/ CheckerExits \/ TerminatorExits \/ Kill
    \/ Activities \/ Runner \/ CancelOperator

Spec == Init /\ [][Next]_vars

(* The tasks of the framework make progress: they are short steps of the   *)
(* event loop. The handlers of the users are not trusted: startup and      *)
(* cleanup handlers, sub-tasks and the exiting of a root task (of daemons, *)
(* e.g.) may take forever, unless something else stops them.               *)
Fairness ==
    /\ \A t \in Guarded : WF_vars(Begin(t) \/ Obey(t))
    /\ WF_vars(CheckerExits \/ TerminatorExits)
    /\ WF_vars(ActivitiesCancelled \/ OthersExited \/ CoreStopped)
    /\ WF_vars(Runner)
    /\ WF_vars(Kill)
    /\ \A t \in Clients : WF_vars(Call(t)) /\ WF_vars(Unblock(t))

FairSpec == Init /\ [][Next]_vars /\ Fairness

----------------------------------------------------------------------------
(* Properties.                                                             *)

(* Nothing but the startup handlers runs before the operator has started   *)
(* (docs/startup.rst: it fails to start "without making any external API   *)
(* calls"). The credentials are kept fresh until the last root task has    *)
(* withdrawn from the cluster, and the cleanup handlers come after both,   *)
(* unless the activities task is cancelled for the second time.            *)
OrderlyExit ==
    /\ \A t \in Guarded : state[t] \in {"running", "exiting"} => started
    /\ (started /\ told <= 1 /\ ~loopClosed
            /\ ("retriever" \in asked \/ state["retriever"] = "exiting"))
          => \A t \in Roots : Over(t)
    /\ stage = "cleanup" => \A t \in RootTasks \cup {"retriever"} :
                               t = "activities" \/ Over(t)

(* The cleanup handlers are executed whatever the reason of the exit is, a *)
(* signal, an error, the stop-flag, a cancelled operator (docs/shutdown),  *)
(* but for an operator that never started, is killed, is cancelled while   *)
(* it stops, or whose credentials retriever has failed.                    *)
CleanupRuns ==
    (/\ started /\ ~CoreFailed
     /\ \/ runner \in {"succeeded", "failed"}
        \/ runner = "cancelled" /\ told = 1 /\ Alive = {})
    => cleaned

(* An operator that was not cancelled itself leaves no task behind, and it *)
(* does not report success if any of its own tasks has failed, not even if *)
(* the credentials retriever did, which run_tasks() knows nothing of.      *)
NothingIsLeft ==
    /\ runner \in {"succeeded", "failed"} => Alive = {}
    /\ runner = "succeeded" => Failed(RootTasks \cup {"retriever"}) = {}

(* Once any of the root tasks exits, so does the operator, also if a       *)
(* handler, a daemon or a thread hangs: by SIGKILL in the end, unless it   *)
(* is stopped with the stop-flag.                                          *)
Exited == runner \in {"succeeded", "failed", "cancelled", "killed"}
ExitCompletes ==
    (KillTimeout /\ \E t \in RootTasks : Over(t)) ~> (Exited \/ raised = "flag")

(* The safety side of that: whomever the operator waits for while it stops *)
(* its tasks has been told to exit, has got to its exiting, or is the      *)
(* activities task at its end; which waits only for root tasks and for a   *)
(* credentials retriever that have been told, too. So no circle of tasks   *)
(* waits for itself. Of a closed loop, nothing is left untold but a        *)
(* sub-task which a root task spawned after that.                          *)
IsTold(t) == t \in asked \/ state[t] = "exiting"
IsLeaving(t) == IsTold(t) \/ (t = "activities" /\ stage \in {"awaiting", "core", "cleanup"})
ExitGoesOn ==
    /\ runner \in Ending \ {"waitHung"} => \A t \in awaited \cap Alive : IsLeaving(t)
    /\ loopClosed => \A t \in Alive \ {"sub"} : IsLeaving(t)
    /\ stage = "awaiting" => \A t \in OtherRoots \cap Alive : IsTold(t)
    /\ stage = "core" /\ "retriever" \in Alive => IsTold("retriever")

(* docs/authentication.rst: without new credentials "the API calls fail,   *)
(* and so does the operator". Here: when the login handlers have failed.   *)
LoginFailureStops ==
    (state["retriever"] = "failed" /\ blocked # {}) ~> runner # "waiting"
=============================================================================
