------------------------------ MODULE Indexing ------------------------------
(***************************************************************************)
(* The indexing of the objects of one resource: index_resource() with the  *)
(* OperatorIndexers of kopf/_core/engines/indexing.py, called for every    *)
(* event before any other handler. The indexing functions are executed at  *)
(* once, with their retries and exclusions remembered per object in the    *)
(* memory of the operator; whatever they do, it ends in the indices.       *)
(*                                                                         *)
(* How an object matches the filters and what the functions do is new with *)
(* every event. The steps of one object come from one worker, in order.    *)
(***************************************************************************)
EXTENDS Execution, Indices

CONSTANTS
    Ids,        \* the indexing handlers, also the ids of their indices
    Handler,    \* [Ids -> Options]
    Objects,    \* the objects, by their namespaces, names and uids
    Mappings,   \* what an indexing function may return: dicts
    Delays,     \* the delays of temporary errors
    MaxTime     \* bound of the clock

ASSUME IndexingAssumption ==
    /\ \A i \in Ids : IsHandler(Handler[i])
    /\ \A m \in Mappings : m = [k \in DOMAIN m |-> m[k]]
    /\ Delays \subseteq Nat
    /\ MaxTime \in Nat

VARIABLES
    now,        \* the clock
    indexers,   \* OperatorIndexers: [Ids -> indices]
    memory,     \* IndexingMemory of the objects: records of some handlers
    last,       \* history: what is to be indexed, by the outcomes alone
    trouble,    \* history: the errors since the last success
    abused      \* history: a function was called for an object it excluded

vars == << now, indexers, memory, last, trouble, abused >>

(* No errors: since when, how many, for how long or whether for good.      *)
NoTrouble == [since |-> {}, fails |-> 0, until |-> 0, forever |-> FALSE]

Init ==
    /\ now = 0
    /\ indexers = [i \in Ids |-> EmptyIndex]
    /\ memory = [o \in Objects |-> Empty]
    /\ last = [i \in Ids |-> [o \in Objects |-> Empty]]
    /\ trouble = [o \in Objects |-> [i \in Ids |-> NoTrouble]]
    /\ abused = FALSE

----------------------------------------------------------------------------
(* All that an indexing function can do with an object.                    *)
Attempts ==
    {Returns({m}) : m \in Mappings} \cup {Returns({}), RaisesPermanent, RaisesAnything}
        \cup {RaisesTemporary(d) : d \in Delays}

(* State.with_handlers(), State.with_outcomes(), State.without_successes(). *)
WithHandlers(state, ids) ==
    [i \in DOMAIN state \cup ids |-> Get(state, i, Scratch(now))]
WithOutcomes(state, outcomes) ==
    [i \in DOMAIN state |->
        IF i \in DOMAIN outcomes THEN WithOutcome(state[i], outcomes[i], now) ELSE state[i]]
WithoutFinished(state) ==   \* a slip: the failures are forgotten too
    [i \in {i \in DOMAIN state : ~Finished(state[i])} |-> state[i]]
WithoutSuccesses(state) ==
    [i \in {i \in DOMAIN state : ~state[i].success} |-> state[i]]

(* OperatorIndexers.replace(): errors discard; a value replaces, no value  *)
(* preserves; those who have not been called (do not match or sleep or     *)
(* have failed) are discarded from too.                                    *)
ReplaceAll(o, outcomes) ==
    [i \in Ids |->
        IF i \notin DOMAIN outcomes \/ outcomes[i].failed THEN Discard(indexers[i], o)
        ELSE IF outcomes[i].result = {} THEN indexers[i]
        ELSE Replace(indexers[i], o, CHOOSE m \in outcomes[i].result : TRUE)]

(* OperatorIndexers.discard().                                             *)
DiscardAll(o) == [i \in Ids |-> Discard(indexers[i], o)]

(* History: the errors, as the documentation speaks of them.               *)
Excluded(h, t) ==
    \/ t.forever \/ now < t.until
    \/ \E limit \in h.retries : t.fails >= limit
    \/ \E limit \in h.timeout, since \in t.since : now - since >= limit

IsError(h, what) ==
    \/ what.kind \in {"temporary", "permanent"}
    \/ what.kind = "arbitrary" /\ h.errors # "ignored"

Troubled(h, t, what) ==
    IF ~IsError(h, what) THEN NoTrouble
    ELSE [since |-> IF t.since = {} THEN {now} ELSE t.since,
          fails |-> t.fails + 1,
          until |-> CASE what.kind = "temporary" -> now + (CHOOSE d \in what.delay : TRUE)
                      [] what.kind = "arbitrary" /\ h.errors = "temporary" -> now + h.backoff
                      [] OTHER -> now,
          forever |-> what.kind = "permanent"
                        \/ (what.kind = "arbitrary" /\ h.errors = "permanent")]

(* index_resource() for an existing object.                                *)
Index(o) ==
    \E matching \in SUBSET Ids :
        LET state == WithHandlers(memory[o], matching)
            planned == {i \in matching : Awakened(state[i], now)}
            called == {i \in planned : ~IsOver(Handler[i], state[i], now)}
        IN \E what \in [planned -> Attempts] :
            LET outcomes == [i \in planned |->
                                OutcomeOf(Handler[i], state[i], now, what[i])]
            IN /\ indexers' = ReplaceAll(o, outcomes)
               /\ memory' = [memory EXCEPT ![o] =
                                WithoutSuccesses(WithOutcomes(state, outcomes))]
               /\ last' = [i \in Ids |-> [last[i] EXCEPT ![o] =
                    IF i \in called /\ ~IsError(Handler[i], what[i])
                    THEN IF what[i].result = {} THEN @
                         ELSE CHOOSE m \in what[i].result : TRUE
                    ELSE Empty]]
               /\ trouble' = [trouble EXCEPT ![o] = [i \in Ids |->
                    IF i \in called THEN Troubled(Handler[i], @[i], what[i]) ELSE @[i]]]
               /\ abused' = (abused \/ \E i \in called : Excluded(Handler[i], trouble[o][i]))
               /\ UNCHANGED now

(* The object is deleted: it is in no index; its memory is forgotten.      *)
Delete(o) ==
    /\ indexers' = DiscardAll(o)
    /\ memory' = [memory EXCEPT ![o] = Empty]
    /\ last' = [i \in Ids |-> [last[i] EXCEPT ![o] = Empty]]
    /\ trouble' = [trouble EXCEPT ![o] = [i \in Ids |-> NoTrouble]]
    /\ UNCHANGED << now, abused >>

Tick ==
    /\ now < MaxTime
    /\ now' = now + 1
    /\ UNCHANGED << indexers, memory, last, trouble, abused >>

Next == Tick \/ \E o \in Objects : Index(o) \/ Delete(o)

Spec == Init /\ [][Next]_vars

----------------------------------------------------------------------------
(* Properties.                                                             *)

(* The forward and the reverse items of each index agree (indexing.py: "if *)
(* not, fix it"), no store is left empty, and each object is found with    *)
(* exactly what its last successful indexing returned, with nothing of     *)
(* what it was before (docs/indexing.rst: "all associated values are       *)
(* removed (as are all empty collections ...").                            *)
IsConsistent(index) ==
    /\ \A k \in DOMAIN index.items :
          /\ DOMAIN index.items[k] # {}
          /\ \A o \in DOMAIN index.items[k] :
                o \in DOMAIN index.reverse /\ k \in index.reverse[o]
    /\ \A o \in DOMAIN index.reverse :
          /\ index.reverse[o] # {}
          /\ \A k \in index.reverse[o] :
                k \in DOMAIN index.items /\ o \in DOMAIN index.items[k]

IndicesAreExact ==
    \A i \in Ids :
        /\ IsConsistent(indexers[i])
        /\ \A o \in Objects : Visible(indexers[i], o) = last[i][o]

(* No function is called for an object that it has excluded: for good, or  *)
(* for the time of the delay, or by the retries and the timeout that are   *)
(* counted "since the first indexing failure"; "successful indexing resets *)
(* all counters and timeouts" (docs/indexing.rst).                         *)
ExclusionIsRespected == ~abused
=============================================================================
