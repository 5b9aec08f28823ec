------------------------------ MODULE Matching ------------------------------
(***************************************************************************)
(* Which handlers are called for an object: the criteria of handlers and    *)
(* their registries (kopf/_core/intents/registries.py).  A handler is a     *)
(* record; a criterion is one of the below.                                 *)
(***************************************************************************)
EXTENDS Diffs

Unset == [kind |-> "unset"]
ABSENT == [kind |-> "absent"]
PRESENT == [kind |-> "present"]
Equal(v) == [kind |-> "equal", value |-> v]
Callback(accepted) == [kind |-> "callback", accepted |-> accepted]

(* What stands for the value of a field that is not there.                 *)
Nothing == [nothing |-> TRUE]
ValueOf(d, field) == Resolve(d, field, Nothing)

Satisfies(v, criterion) ==
  CASE criterion.kind = "unset"    -> TRUE
    [] criterion.kind = "absent"   -> v = Nothing
    [] criterion.kind = "present"  -> v # Nothing
    [] criterion.kind = "callback" -> v \in criterion.accepted
    [] criterion.kind = "equal"    -> v = criterion.value

(* Labels or annotations against the criteria of their keys.               *)
MatchesMetadata(criteria, content) ==
  \A key \in DOMAIN criteria : Satisfies(ValueOf(content, <<key>>), criteria[key])

HasChange(cause) == cause.type = "changing"

(* Either of the old and the new value satisfies, where there are two.     *)
MatchesFieldValues(handler, cause) ==
  LET sources == IF HasChange(cause) THEN {cause.new, cause.old} ELSE {cause.body}
      criterion == IF handler.value = Unset THEN PRESENT ELSE handler.value
  IN handler.field # <<>> =>
       \E d \in sources : Satisfies(ValueOf(d, handler.field), criterion)

(* A slip: a handler is called for any change while its field is there.    *)
MatchesAnyChanges(handler, cause) == TRUE
MatchesFieldChanges(handler, cause) ==
  LET old == ValueOf(cause.old, handler.field)
      new == ValueOf(cause.new, handler.field)
  IN handler.type = "changing" /\ HasChange(cause) /\ handler.field # <<>> =>
       /\ handler.field_needs_change => old # new
       /\ Satisfies(old, handler.old)
       /\ Satisfies(new, handler.new)

(* The callback of a handler, over one field of the object.                *)
MatchesFilterCallback(handler, cause) ==
  Satisfies(ValueOf(cause.body, handler.when.field), handler.when.criterion)

Prematches(handler, cause) ==
  /\ MatchesMetadata(handler.labels, Resolve(cause.body, <<"metadata", "labels">>, Empty))
  /\ MatchesMetadata(handler.annotations,
                     Resolve(cause.body, <<"metadata", "annotations">>, Empty))
  /\ MatchesFieldValues(handler, cause)
  /\ MatchesFilterCallback(handler, cause)
Matches(handler, cause) ==
  Prematches(handler, cause) /\ MatchesFieldChanges(handler, cause)

(* The same function under the same id is called once.                     *)
Deduplicated(handlers) ==
  FoldLeft(LAMBDA seen, h :
             IF \E i \in DOMAIN seen : seen[i].fn = h.fn /\ seen[i].id = h.id
             THEN seen ELSE Append(seen, h),
           <<>>, handlers)

(* The handlers of a change, in the order of their declaration.            *)
IsForReason(handler, cause) ==
  /\ handler.reason \in {"any", cause.reason}
  /\ handler.initial => cause.initial /\ (cause.deleted => handler.deleted)
ChangingHandlers(registry, cause) ==
  Deduplicated(SelectSeq(registry, LAMBDA h :
    h.type = "changing" /\ IsForReason(h, cause) /\ Matches(h, cause)))

(* Whether there can be any handlers for any change of the object.         *)
ChangingPrematch(registry, cause) ==
  \E h \in ToSet(registry) : h.type = "changing" /\ Prematches(h, cause)

(* The fields that handlers name are essential, even those in the status.  *)
ExtraFields(registry) == {h.field : h \in ToSet(registry)} \ {<<>>}

(* What a handler of a field is told of the change.                        *)
AdjustCause(handler, cause) ==
  IF handler.field = <<>> THEN cause
  ELSE [cause EXCEPT !.old = Resolve(cause.old, handler.field, None),
                     !.new = Resolve(cause.new, handler.field, None),
                     !.diff = Reduce(cause.diff, handler.field)]
=============================================================================
