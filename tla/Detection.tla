------------------------------ MODULE Detection ------------------------------
(***************************************************************************)
(* Several operators handle the same objects, each with storages, handlers  *)
(* and identity of its own, while users edit the objects and Kubernetes     *)
(* copies annotations of Deployments to their ReplicaSets.  What an operator *)
(* takes for a change, and what it remembers, must not depend on what the   *)
(* others write.  One action is one handling cycle, up to its patch:        *)
(* processing.py, _detect_causes and process_changing_cause.  The timing of *)
(* cycles and patches is the subject of Processing.                         *)
(***************************************************************************)
EXTENDS Storages, Matching, Integers

CONSTANTS
  Operators,
  Objects,
  Config,      \* the storages and the registry of every operator
  Bodies,      \* the objects as they are created
  Edits,       \* the patches that users make
  Owner,       \* the Deployments of some of the objects
  UserPrefix,  \* the prefix of the annotations that users make
  MaxEdits,    \* bounds: the edits and copies, of all users together, ...
  MaxCycles    \* ... and the cycles of all operators

ASSUME DetectionAssumption ==
  /\ DOMAIN Config = Operators /\ DOMAIN Bodies = Objects
  /\ DOMAIN Owner \subseteq Objects /\ \A b \in DOMAIN Owner : Owner[b] \in Objects
  /\ MaxEdits \in Nat /\ MaxCycles \in Nat

VARIABLES
  bodies,   \* the objects as they are in the cluster
  edits, cycles,
  records,  \* history: the progress that operators have stored and not purged
  essences  \* history: the content that operators have handled, or None

vars == <<bodies, edits, cycles, records, essences>>

Progress(o) == Config[o].progress
Diffbase(o) == Config[o].diffbase
Registry(o) == Config[o].registry
Ids(o) == {h.id : h \in ToSet(Registry(o))}

New(o, b) == Clear(Progress(o), Build(Diffbase(o), bodies[b], ExtraFields(Registry(o))))
Old(o, b) ==
  LET old == FetchEssence(Diffbase(o), bodies[b])
  IN IF old = None THEN None ELSE Clear(Progress(o), old)

ChangeOf(b, old, new, diff) ==
  [type |-> "changing", body |-> bodies[b], old |-> old, new |-> new, diff |-> diff,
   initial |-> FALSE, deleted |-> FALSE,
   reason |-> IF old = None THEN "create" ELSE IF diff = {} THEN "noop" ELSE "update"]
Causes(o, b) ==   \* the only one: a set, for it is evaluated once
  {ChangeOf(b, old, new, Diff(old, new)) : old \in {Old(o, b)}, new \in {New(o, b)}}
Selected(o, cause) == ChangingHandlers(Registry(o), cause)

(* Handlers are called for this object, or might have been.                *)
IsHandled(o, cause) ==
  cause.reason \in {"create", "update"} /\ ChangingPrematch(Registry(o), cause)

(* What users and other controllers have put there, of what an operator is  *)
(* meant to see: all but the status, and what handlers name of the status;  *)
(* not what its users ignore.                                               *)
Content(o, b) ==
  LET seen == RemoveIgnored(bodies[b], UNION {s.ignored : s \in ToSet(Diffbase(o))})
      notes == Annotations(seen)
  IN [spec |-> Resolve(seen, <<"spec">>, None),
      labels |-> Resolve(seen, <<"metadata", "labels">>, Empty),
      notes |-> Without(notes, {k \in Keys(notes) : k.prefix # UserPrefix}),
      extra |-> [f \in ExtraFields(Registry(o)) |-> Resolve(seen, f, None)]]

(* One cycle's patch; the dummy goes away with any other change.           *)
Patch(o, b, patch) ==
  /\ cycles < MaxCycles
  /\ cycles' = cycles + 1
  /\ bodies' = [bodies EXCEPT ![b] =
       IF patch = Empty THEN @
       ELSE MergePatch(@, Touch(Progress(o), None, @, patch))]
  /\ UNCHANGED edits

(* A record of a handler's progress; it matters here only whose it is.     *)
Record(o, b) == Leaf(<<o, b>>)
StoreAll(o, b, ids) ==
  FoldSet(LAMBDA id, p : StoreProgress(Progress(o), id, Record(o, b), bodies[b], p), Empty, ids)
PurgeAll(o, b, patch) ==
  FoldSet(LAMBDA id, p : PurgeProgress(Progress(o), id, bodies[b], p), patch, Ids(o))

(* Some of the selected handlers are done or fail for a while, others stay. *)
Handle(o, b) ==
  \E cause \in Causes(o, b) :
    /\ IsHandled(o, cause)
    /\ \E ids \in SUBSET {h.id : h \in ToSet(Selected(o, cause))} :
         /\ ids # {}
         /\ Patch(o, b, StoreAll(o, b, ids))
         /\ records' = [records EXCEPT ![o][b] =
              [id \in Ids(o) |-> IF id \in ids THEN Record(o, b) ELSE @[id]]]
    /\ UNCHANGED essences

(* All of them are done: their outcomes are stored and purged at once, and  *)
(* what they have handled is remembered.                                    *)
Finish(o, b) ==
  \E cause \in Causes(o, b) :
    LET ids == {h.id : h \in ToSet(Selected(o, cause))}
        purged == IF ids = {} THEN Empty ELSE PurgeAll(o, b, StoreAll(o, b, ids))
    IN /\ IsHandled(o, cause)
       /\ Patch(o, b, IF cause.old = cause.new THEN purged
                      ELSE StoreEssence(Diffbase(o), cause.new, bodies[b], purged))
       /\ records' = IF ids = {} THEN records
                     ELSE [records EXCEPT ![o][b] = [id \in Ids(o) |-> None]]
       /\ essences' = [essences EXCEPT ![o][b] = Content(o, b)]

(* A delay of some handlers is over: the object is touched to wake up.     *)
Wake(o, b) ==
  /\ cycles < MaxCycles
  /\ cycles' = cycles + 1
  /\ \E id \in Ids(o) : records[o][b][id] # None
  /\ bodies' = [bodies EXCEPT ![b] = MergePatch(@, Touch(Progress(o), Leaf("now"), @, Empty))]
  /\ UNCHANGED <<edits, records, essences>>

(***************************************************************************)
(* The world.                                                               *)
(***************************************************************************)
Change(b, body) ==
  /\ edits < MaxEdits
  /\ edits' = edits + 1
  /\ bodies' = [bodies EXCEPT ![b] = body]
  /\ UNCHANGED <<cycles, records, essences>>

Edit(b) == \E patch \in Edits : Change(b, MergePatch(bodies[b], patch))

(* The deployment controller copies annotations, but the last applied one. *)
Propagate(b) ==
  LET copied == Without(Annotations(bodies[Owner[b]]), {LastApplied})
  IN Change(b, IF copied = Empty THEN bodies[b]
               ELSE MergePatch(bodies[b], Ensure(Empty, AnnotationsField, copied)))

Init ==
  /\ bodies = Bodies
  /\ edits = 0 /\ cycles = 0
  /\ records = [o \in Operators |-> [b \in Objects |-> [id \in Ids(o) |-> None]]]
  /\ essences = [o \in Operators |-> [b \in Objects |-> None]]

OperatorNext == \E o \in Operators, b \in Objects : Handle(o, b) \/ Finish(o, b) \/ Wake(o, b)
WorldNext == (\E b \in Objects : Edit(b)) \/ (\E b \in DOMAIN Owner : Propagate(b))
Next == OperatorNext \/ WorldNext
Spec == Init /\ [][Next]_vars

-----------------------------------------------------------------------------
(* What an operator has stored of its handlers, it finds again, and nothing *)
(* else: whatever other operators write, users edit, or Kubernetes copies,  *)
(* also when it has just been purged (progress.py).                         *)
StoredIsFetched ==
  \A o \in Operators, b \in Objects : \A id \in Ids(o) :
    FetchProgress(Progress(o), id, bodies[b]) = records[o][b][id]

(* An operator notices a change exactly when the content differs from what  *)
(* it has handled: neither its own notes nor those of other operators, nor  *)
(* their leftovers, are taken for changes, and no change is hidden by them  *)
(* (diffbase.py, processing.py:165-182).                                    *)
ChangesAreNoticed ==
  \A o \in Operators, b \in Objects :
    essences[o][b] # None =>
      (Diff(Old(o, b), New(o, b)) # {} <=> Content(o, b) # essences[o][b])

(* A handler of a field is called for an update if and only if it is told   *)
(* of a change of the field, and of the right one (registries.py, diffs.py, *)
(* handlers.py:29-36), where it has no other criteria.                      *)
FieldHandlersSeeChanges ==
  \A o \in Operators, b \in Objects : \A cause \in Causes(o, b) :
    cause.reason = "update" =>
      \A h \in ToSet(Registry(o)) :
        h.field # <<>> /\ h.type = "changing" /\ IsForReason(h, cause) =>
          LET told == AdjustCause(h, cause)
          IN /\ told.diff = Diff(told.old, told.new)
             /\ Matches(h, cause) => told.diff # {}
             /\ (told.diff # {} /\ h.value = Unset /\ h.old = Unset /\ h.new = Unset)
                  => Matches(h, cause)

(* What an operator has handled is no change for it for as long as nobody   *)
(* changes the content, though other operators write down their states:     *)
(* they do not play ping-pong (conventions.py:190-203).                     *)
NoPingPong ==
  \A o \in Operators, b \in Objects :
    Content(o, b) = essences[o][b] => Diff(Old(o, b), New(o, b)) = {}
=============================================================================
