--------------------------- MODULE ObjectStreams ---------------------------
(***************************************************************************)
(* What the multiplexer of watch-events promises, without its tasks, its   *)
(* queues per worker, its pool and its shutdown protocol: the events of    *)
(* each object form one queue; they are handled one at a time, in the      *)
(* order of arrival, and none is skipped while the operator serves.  Once  *)
(* it does not serve any more (it exits, or a worker has failed), what is  *)
(* queued may be dropped, and nothing else may happen to it.               *)
(***************************************************************************)
EXTENDS Integers, Sequences

CONSTANTS Keys,        \* the objects
          MaxEvents    \* bound: how many events one object gets

VARIABLES serving,     \* FALSE once an exit or a failure has begun
          sent,        \* sent[k]: the number of the last event of k received
          queue,       \* queue[k]: the events of k waiting, oldest first
          current,     \* current[k]: the event of k being handled, or 0
          handled      \* handled[k]: the last event of k fully handled

vars == <<serving, sent, queue, current, handled>>

Init ==
  /\ serving = TRUE
  /\ sent = [k \in Keys |-> 0]
  /\ queue = [k \in Keys |-> <<>>]
  /\ current = [k \in Keys |-> 0]
  /\ handled = [k \in Keys |-> 0]

Arrive(k) ==
  /\ sent[k] < MaxEvents
  /\ sent' = [sent EXCEPT ![k] = @ + 1]
  /\ queue' = [queue EXCEPT ![k] = Append(@, sent[k] + 1)]
  /\ UNCHANGED <<serving, current, handled>>

Begin(k) ==
  /\ current[k] = 0
  /\ queue[k] # <<>>
  /\ current' = [current EXCEPT ![k] = Head(queue[k])]
  /\ queue' = [queue EXCEPT ![k] = Tail(@)]
  /\ UNCHANGED <<serving, sent, handled>>

Complete(k) ==
  /\ current[k] # 0
  /\ handled' = [handled EXCEPT ![k] = current[k]]
  /\ current' = [current EXCEPT ![k] = 0]
  /\ UNCHANGED <<serving, sent, queue>>

StopServing ==
  /\ serving
  /\ serving' = FALSE
  /\ UNCHANGED <<sent, queue, current, handled>>

(***************************************************************************)
(* The events of one object are given up: never while serving, though the  *)
(* failure that ends the service may do it in the same step.               *)
(***************************************************************************)
Drop(k) ==
  /\ serving' = FALSE
  /\ queue' = [queue EXCEPT ![k] = <<>>]
  /\ current' = [current EXCEPT ![k] = 0]
  /\ UNCHANGED <<sent, handled>>

Next ==
  \/ StopServing
  \/ \E k \in Keys : Arrive(k) \/ Begin(k) \/ Complete(k) \/ Drop(k)

Spec == Init /\ [][Next]_vars
=============================================================================
