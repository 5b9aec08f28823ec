----------------------------- MODULE Execution -----------------------------
(***************************************************************************)
(* How one handler is executed once: execute_handler_once() of             *)
(* kopf/_core/actions/execution.py, and the record of its progress,        *)
(* HandlerState of kopf/_core/actions/progression.py.                      *)
(*                                                                         *)
(* The time is in units. What may be absent is a set of at most one value: *)
(* the limits of a handler (timeout, retries), the delay of an outcome,    *)
(* the moment until which a handler is delayed.                            *)
(***************************************************************************)
EXTENDS Integers

(* The options of a handler, as far as they affect the execution.          *)
ErrorsModes == {"ignored", "temporary", "permanent"}
IsLimit(s) == s = {} \/ \E n \in s : n \in Nat /\ s = {n}
IsHandler(h) ==
    /\ h.errors \in ErrorsModes
    /\ h.backoff \in Nat
    /\ IsLimit(h.timeout)
    /\ IsLimit(h.retries)

(* HandlerState.from_scratch(): the timeout counts from here.              *)
Scratch(now) ==
    [started |-> now, delayed |-> {}, retries |-> 0, success |-> FALSE, failure |-> FALSE]

Finished(s) == s.success \/ s.failure
Sleeping(s, now) == ~Finished(s) /\ \E t \in s.delayed : t > now
Awakened(s, now) == ~Finished(s) /\ ~Sleeping(s, now)

(* The strict checks, before the handler is called.                        *)
IsOver(h, s, now) ==
    \/ \E limit \in h.timeout : now - s.started >= limit
    \/ \E limit \in h.retries : s.retries >= limit

(* The look-ahead checks, after an attempt: the next one would be too late. *)
WillBeOver(h, s, now, delay) ==
    \/ \E limit \in h.timeout : now - s.started + delay >= limit
    \/ \E limit \in h.retries : s.retries + 1 >= limit

(* What a handler can do: to return something or nothing, to raise one of  *)
(* the framework's errors or any other exception.                          *)
Returns(result) == [kind |-> "returns", result |-> result, delay |-> {}]
RaisesTemporary(delay) == [kind |-> "temporary", result |-> {}, delay |-> {delay}]
RaisesPermanent == [kind |-> "permanent", result |-> {}, delay |-> {}]
RaisesAnything == [kind |-> "arbitrary", result |-> {}, delay |-> {}]

(* Outcome: final or to be retried, with an error or without.              *)
Success(result) == [final |-> TRUE, failed |-> FALSE, delay |-> {}, result |-> result]
Failure == [final |-> TRUE, failed |-> TRUE, delay |-> {}, result |-> {}]
Retry(delay) == [final |-> FALSE, failed |-> TRUE, delay |-> {delay}, result |-> {}]

RetryOrFail(h, s, now, delay) ==
    IF WillBeOver(h, s, now, delay) THEN Failure ELSE Retry(delay)

(* Any other exception is what the mode of errors says.                    *)
OutcomeOfException(h, s, now) ==
    CASE h.errors = "ignored" -> Success({})
      [] h.errors = "temporary" -> RetryOrFail(h, s, now, h.backoff)
      [] h.errors = "permanent" -> Failure

(* The handler is not even called if it is over by the strict checks.      *)
OutcomeOf(h, s, now, what) ==
    IF IsOver(h, s, now) THEN Failure
    ELSE CASE what.kind = "returns" -> Success(what.result)
           [] what.kind = "temporary" ->
                  IF \E d \in what.delay : WillBeOver(h, s, now, d)
                  THEN Failure ELSE [Retry(0) EXCEPT !.delay = what.delay]
           [] what.kind = "permanent" -> Failure
           [] what.kind = "arbitrary" -> OutcomeOfException(h, s, now)

(* HandlerState.with_outcome().                                            *)
WithOutcome(s, outcome, now) ==
    [s EXCEPT !.delayed = {now + d : d \in outcome.delay},
              !.retries = @ + 1,
              !.success = outcome.final /\ ~outcome.failed,
              !.failure = outcome.final /\ outcome.failed]
=============================================================================
