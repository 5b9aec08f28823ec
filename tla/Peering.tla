-------------------------------- MODULE Peering --------------------------------
(***************************************************************************)
(* The peering of operators (kopf/_core/engines/peering.py): they keep     *)
(* their records alive in the status of one object, watch that object, and *)
(* pause in favour of those with a higher priority -- or all together if   *)
(* the priorities are equal -- until these leave or are presumed dead.     *)
(*                                                                         *)
(* Every operator runs a pinger (keepalive) and, for every event of the    *)
(* object, the handler (process_peering_event) in the worker of the object *)
(* (see Queueing), one event at a time and in the order of the changes.    *)
(*                                                                         *)
(* The time is discrete, the clocks agree.  The deadline of a record is    *)
(* kept as the time left for it, both in the object and in the events on   *)
(* their way: it runs out as the time passes.                              *)
(***************************************************************************)
EXTENDS Integers, Sequences, FiniteSets

CONSTANTS
  Operators,
  Priorities,   \* settings.peering.priority of all operators, one of these
  Lifetime,     \* settings.peering.lifetime
  Jitter,       \* how much earlier than that a record is refreshed
  Mandatory,    \* settings.peering.mandatory
  MaxLag,       \* bound: how many events anybody who lags has at most
  MaxTroubles   \* bound: how many times a request fails, an operator crashes, or
                \* the time passes while somebody lags behind it

ASSUME PeeringAssumption ==
  /\ IsFiniteSet(Operators) /\ Priorities \subseteq [Operators -> Int]
  /\ Lifetime \in Nat \ {0} /\ Jitter \subseteq Nat /\ Jitter # {}
  /\ Mandatory \in BOOLEAN /\ MaxTroubles \in Nat /\ MaxLag \in Nat

NoRecord == -1
Records == {NoRecord} \cup 0 .. Lifetime    \* the time left; at 0, it is dead

VARIABLES
  status,       \* status[o]: the record of an operator in the peering object
  priority,     \* priority[o]: as configured when the operator has started
  life,         \* new, running, leaving, left, crashed
  pinger,       \* off, on, removing
  due,          \* the time left until the next keep-alive
  inbox,        \* the events of the object on their way, and in the queue
  worker,       \* idle, cleaning, deciding, sleeping, touching, dead
  dead,         \* the peers to be cleaned
  rivals,       \* the live peers of the same or a higher priority
  alarm,        \* the time left until the first of the rivals is presumed dead
  paused,       \* conflicts_found: the toggle of the operator
  troubles,     \* history: how many troubles there were
  late          \* history: whether anyone has ever lagged behind the time

vars == <<status, priority, life, pinger, due, inbox, worker, dead, rivals, alarm, paused,
          troubles, late>>

IsLive(record) == record > 0
IsDead(record) == record = 0

Alive(o) == life[o] \in {"running", "leaving"}

Init ==
  /\ status = [o \in Operators |-> NoRecord]
  /\ priority \in Priorities
  /\ life = [o \in Operators |-> "new"]
  /\ pinger = [o \in Operators |-> "off"]
  /\ due = [o \in Operators |-> 0]
  /\ inbox = [o \in Operators |-> <<>>]
  /\ worker = [o \in Operators |-> "idle"]
  /\ dead = [o \in Operators |-> {}]
  /\ rivals = [o \in Operators |-> {}]
  /\ alarm = [o \in Operators |-> 0]
  /\ paused = [o \in Operators |-> FALSE]
  /\ troubles = 0 /\ late = FALSE

(* The object is changed, and the change is sent to those who watch it.    *)
Patch(records) ==
  /\ status' = records
  /\ inbox' = [o \in Operators |->
                 IF records # status /\ life[o] = "running" /\ worker[o] # "dead"
                 THEN Append(inbox[o], records) ELSE inbox[o]]

(* A keep-alive always changes the record: it says when it was sent.       *)
PatchOwn(o, record) ==
  LET records == [status EXCEPT ![o] = record]
  IN /\ status' = records
     /\ inbox' = [p \in Operators |->
                    IF life[p] = "running" /\ worker[p] # "dead"
                    THEN Append(inbox[p], records) ELSE inbox[p]]

-----------------------------------------------------------------------------
(* The life of an operator.  It lists the object before it watches it; the *)
(* toggle is on from the beginning if the peering is mandatory.            *)

Start(o) ==
  /\ life[o] = "new"
  /\ life' = [life EXCEPT ![o] = "running"]
  /\ pinger' = [pinger EXCEPT ![o] = "on"]
  /\ paused' = [paused EXCEPT ![o] = Mandatory]
  /\ inbox' = [inbox EXCEPT ![o] = <<status>>]
  /\ UNCHANGED <<priority, late, status, due, worker, dead, rivals, alarm, troubles>>

(* The tasks are cancelled: the stream is closed, its queue is still being *)
(* processed; the record is to be removed.                                 *)
Leave(o) ==
  /\ life[o] = "running"
  /\ life' = [life EXCEPT ![o] = "leaving"]
  /\ pinger' = [pinger EXCEPT ![o] = IF @ = "on" THEN "removing" ELSE @]
  /\ UNCHANGED <<priority, late, status, due, inbox, worker, dead, rivals, alarm, paused, troubles>>

(* The worker has either finished on its own, or is killed by timeout.     *)
Left(o) ==
  /\ life[o] = "leaving" /\ pinger[o] = "off"
  /\ life' = [life EXCEPT ![o] = "left"]
  /\ worker' = [worker EXCEPT ![o] = "dead"]
  /\ inbox' = [inbox EXCEPT ![o] = <<>>]
  /\ UNCHANGED <<priority, late, status, pinger, due, dead, rivals, alarm, paused, troubles>>

Crash(o) ==
  /\ Alive(o) /\ troubles < MaxTroubles
  /\ troubles' = troubles + 1
  /\ life' = [life EXCEPT ![o] = "crashed"]
  /\ pinger' = [pinger EXCEPT ![o] = "off"]
  /\ worker' = [worker EXCEPT ![o] = "dead"]
  /\ inbox' = [inbox EXCEPT ![o] = <<>>]
  /\ UNCHANGED <<priority, late, status, due, dead, rivals, alarm, paused>>

-----------------------------------------------------------------------------
(* The pinger.                                                             *)

Least(S) == CHOOSE x \in S : \A y \in S : x <= y
Most(S) == CHOOSE x \in S : \A y \in S : x >= y

FullDuration(jitter) == Lifetime
Duration(jitter) == Most({1, Least({Lifetime, Most({1, Lifetime - jitter})})})

Ping(o) ==
  /\ pinger[o] = "on" /\ due[o] = 0
  /\ PatchOwn(o, Lifetime)
  /\ \E jitter \in Jitter : due' = [due EXCEPT ![o] = Duration(jitter)]
  /\ UNCHANGED <<priority, late, life, pinger, worker, dead, rivals, alarm, paused, troubles>>

(* A request has failed for good: there are no more keep-alives.           *)
PingFails(o) ==
  /\ pinger[o] = "on" /\ due[o] = 0 /\ troubles < MaxTroubles
  /\ troubles' = troubles + 1
  /\ pinger' = [pinger EXCEPT ![o] = "removing"]
  /\ UNCHANGED <<priority, late, status, life, due, inbox, worker, dead, rivals, alarm, paused>>

Remove(o) ==
  /\ pinger[o] = "removing"
  /\ pinger' = [pinger EXCEPT ![o] = "off"]
  /\ Patch([status EXCEPT ![o] = NoRecord])
  /\ UNCHANGED <<priority, late, life, due, worker, dead, rivals, alarm, paused, troubles>>

-----------------------------------------------------------------------------
(* The handler.                                                            *)

IsSuperior(o, p, record) == p # o /\ IsLive(record) /\ priority[p] > priority[o]
IsRival(o, p, record) == p # o /\ IsLive(record) /\ priority[p] >= priority[o]

(* A new event interrupts the sleep.                                       *)
TakeEvent(o) ==
  /\ Alive(o) /\ worker[o] \in {"idle", "sleeping"} /\ inbox[o] # <<>>
  /\ LET seen == Head(inbox[o])
         blockers == {p \in Operators : IsRival(o, p, seen[p])}
     IN /\ dead' = [dead EXCEPT ![o] = {p \in Operators : IsDead(seen[p])}]
        /\ rivals' = [rivals EXCEPT ![o] = blockers]
        /\ alarm' = [alarm EXCEPT ![o] = IF blockers = {} THEN 0
                                         ELSE Least({seen[p] : p \in blockers})]
  /\ worker' = [worker EXCEPT ![o] = IF dead'[o] # {} THEN "cleaning" ELSE "deciding"]
  /\ inbox' = [inbox EXCEPT ![o] = Tail(@)]
  /\ UNCHANGED <<priority, late, status, life, pinger, due, paused, troubles>>

(* The records that were dead when the event was looked at are removed,    *)
(* whatever they are by now.                                               *)
Clean(o) ==
  /\ worker[o] = "cleaning"
  /\ Patch([p \in Operators |-> IF p \in dead[o] THEN NoRecord ELSE status[p]])
  /\ worker' = [worker EXCEPT ![o] = "deciding"]
  /\ dead' = [dead EXCEPT ![o] = {}]
  /\ UNCHANGED <<priority, late, life, pinger, due, rivals, alarm, paused, troubles>>

StaysPaused(o) == paused[o] \/ rivals[o] # {}
IsOutranked(o) == rivals[o] # {}

Decide(o) ==
  /\ worker[o] = "deciding"
  /\ paused' = [paused EXCEPT ![o] = IsOutranked(o)]
  /\ worker' = [worker EXCEPT ![o] = IF rivals[o] = {} THEN "idle" ELSE "sleeping"]
  /\ UNCHANGED <<priority, late, status, life, pinger, due, inbox, dead, rivals, alarm, troubles>>

(* Nothing has come until the rivals are presumed dead: the own record is  *)
(* touched only to be called again.                                        *)
Expire(o) ==
  /\ worker[o] = "sleeping" /\ alarm[o] = 0
  /\ worker' = [worker EXCEPT ![o] = "touching"]
  /\ UNCHANGED <<priority, late, status, life, pinger, due, inbox, dead, rivals, alarm, paused, troubles>>

Touch(o) ==
  /\ worker[o] = "touching"
  /\ PatchOwn(o, Lifetime)
  /\ worker' = [worker EXCEPT ![o] = "idle"]
  /\ UNCHANGED <<priority, late, life, pinger, due, dead, rivals, alarm, paused, troubles>>

(* A request has failed for good: the worker and its watcher are over.     *)
HandlerFails(o) ==
  /\ worker[o] \in {"cleaning", "touching"} /\ troubles < MaxTroubles
  /\ troubles' = troubles + 1
  /\ worker' = [worker EXCEPT ![o] = "dead"]
  /\ inbox' = [inbox EXCEPT ![o] = <<>>]
  /\ UNCHANGED <<priority, late, status, life, pinger, due, dead, rivals, alarm, paused>>

-----------------------------------------------------------------------------
(* The time.  It passes as soon as everybody is done with all that is to   *)
(* be done at the moment; or else somebody lags behind.                    *)

HasDone(o) ==
  Alive(o) => /\ ~(pinger[o] = "on" /\ due[o] = 0) /\ pinger[o] # "removing"
              /\ worker[o] \in {"idle", "sleeping", "dead"} /\ inbox[o] = <<>>
              /\ ~(worker[o] = "sleeping" /\ alarm[o] = 0)

Less(n) == IF n > 0 THEN n - 1 ELSE n
Aged(records) == [o \in Operators |-> Less(records[o])]

Tick ==
  /\ IF \A o \in Operators : HasDone(o)
     THEN UNCHANGED <<troubles, late>>
     ELSE /\ troubles < MaxTroubles /\ \A o \in Operators : Len(inbox[o]) <= MaxLag
          /\ troubles' = troubles + 1 /\ late' = TRUE
  /\ status' = Aged(status)
  /\ inbox' = [o \in Operators |-> [i \in 1 .. Len(inbox[o]) |-> Aged(inbox[o][i])]]
  /\ due' = [o \in Operators |-> Less(due[o])]
  /\ alarm' = [o \in Operators |-> Less(alarm[o])]
  /\ UNCHANGED <<priority, life, pinger, worker, dead, rivals, paused>>

-----------------------------------------------------------------------------
KeepAlive(o) == Ping(o) \/ Remove(o)
Handle(o) == TakeEvent(o) \/ Clean(o) \/ Decide(o) \/ Expire(o) \/ Touch(o)
Trouble(o) == Crash(o) \/ PingFails(o) \/ HandlerFails(o)

Next ==
  \/ Tick
  \/ \E o \in Operators : \/ Start(o) \/ Leave(o) \/ Left(o) \/ Trouble(o)
                          \/ KeepAlive(o) \/ Handle(o)

Spec == Init /\ [][Next]_vars

(* The time passes, the tasks go on, a leaving operator does leave.  It is *)
(* up to the users whether an operator is started or stopped.              *)
FairSpec ==
  /\ Spec
  /\ WF_vars(Tick)
  /\ \A o \in Operators :
       WF_vars(KeepAlive(o)) /\ WF_vars(Handle(o)) /\ WF_vars(Left(o))

-----------------------------------------------------------------------------
(* Properties.                                                             *)

TypeOK ==
  /\ status \in [Operators -> Records]
  /\ life \in [Operators -> {"new", "running", "leaving", "left", "crashed"}]
  /\ pinger \in [Operators -> {"off", "on", "removing"}]
  /\ due \in [Operators -> 0 .. Lifetime]
  /\ inbox \in [Operators -> Seq([Operators -> Records])]
  /\ worker \in [Operators -> {"idle", "cleaning", "deciding", "sleeping", "touching", "dead"}]
  /\ dead \in [Operators -> SUBSET Operators]
  /\ rivals \in [Operators -> SUBSET Operators]
  /\ alarm \in [Operators -> 0 .. Lifetime]
  /\ paused \in [Operators -> BOOLEAN]
  /\ troubles \in 0 .. MaxTroubles
  /\ late \in BOOLEAN /\ priority \in Priorities

(* An operator that has nothing to do at the moment is paused if and only  *)
(* if the object has a live record of another one of the same or a higher  *)
(* priority: no event, timeout or cleaning leaves it in a wrong state.     *)
(* "The same" is what the code does (_core/engines/peering.py:142-146) and *)
(* docs/peering.rst:16-18 says, against SamesContinue below.               *)
PausedIffOutranked ==
  \A o \in Operators :
    life[o] = "running" /\ worker[o] # "dead" /\ HasDone(o) =>
      (paused[o] <=> \E p \in Operators \ {o} : status[p] > 0 /\ priority[p] >= priority[o])

(* The module's docstring (_core/engines/peering.py:13-15): an operator    *)
(* that sees another one of the same priority "will continue to function". *)
(* It does not hold: all of them are paused.                               *)
SamesContinue ==
  \A o \in Operators :
    life[o] = "running" /\ worker[o] # "dead" /\ HasDone(o) /\ paused[o] =>
      \E p \in Operators \ {o} : status[p] > 0 /\ priority[p] > priority[o]

(* No more than one operator is active, the one with the highest priority: *)
(* of those which are in time with their keep-alives and have nothing else *)
(* to do, all but one are paused; and with the same priority, all are.     *)
OneIsActive ==
  \A o, p \in Operators :
    /\ ~late /\ o # p /\ life[o] = "running" /\ life[p] = "running"
    /\ pinger[o] = "on" /\ pinger[p] = "on" /\ worker[o] # "dead" /\ worker[p] # "dead"
    /\ HasDone(o) /\ HasDone(p)
    => /\ paused[o] \/ paused[p]
       /\ priority[o] <= priority[p] => paused[o]

(* An operator does not remain paused by those that are gone: it resumes,  *)
(* unless it leaves itself, its peering fails, or there is another running *)
(* one of the same or a higher priority.                                   *)
ResumesEventually ==
  \A o \in Operators :
    life[o] = "running" ~>
      \/ ~paused[o] \/ life[o] # "running" \/ worker[o] = "dead"
      \/ \E p \in Operators \ {o} : life[p] = "running" /\ priority[p] >= priority[o]

(* The safety side of that: a paused operator is never forgotten. An event *)
(* is on its way, the handler is busy, or it sleeps until the first of the *)
(* rivals is presumed dead by what is in the object now, and no longer.    *)
PausedIsAwakened ==
  \A o \in Operators :
    life[o] = "running" /\ worker[o] # "dead" /\ paused[o] /\ inbox[o] = <<>> =>
      \/ worker[o] \in {"cleaning", "deciding", "touching"}
      \/ /\ worker[o] = "sleeping"
         /\ \E p \in Operators \ {o} : priority[p] >= priority[o] /\ status[p] = alarm[o]
         /\ \A p \in Operators : IsRival(o, p, status[p]) => status[p] >= alarm[o]
=============================================================================
