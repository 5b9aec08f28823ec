------------------------------ MODULE Indices ------------------------------
(***************************************************************************)
(* The in-memory indices: Store and Index of kopf/_core/engines/indexing.py *)
(* An index has the forward items, from the keys to the stores of values   *)
(* by objects, and the reverse items, from the objects to their keys. All  *)
(* of them are dicts: functions whose domain changes.                      *)
(***************************************************************************)
EXTENDS Integers

Empty == [x \in {} |-> {}]

(* A dict without some of the keys; a dict with a value put.               *)
Without(f, xs) == [x \in (DOMAIN f) \ xs |-> f[x]]
With(f, x, v) == [y \in DOMAIN f \cup {x} |-> IF y = x THEN v ELSE f[y]]
Get(f, x, default) == IF x \in DOMAIN f THEN f[x] ELSE default

EmptyIndex == [items |-> Empty, reverse |-> Empty]

(* Store._discard(), Store._replace().                                     *)
StoreWithout(store, o) == Without(store, {o})
StoreWith(store, o, v) == With(store, o, v)

(* Index._discard(): from the stores of those keys where the object is     *)
(* known to be; the freshly emptied stores go away, and so does the record *)
(* of an object that is nowhere anymore.                                   *)
IsEmptied(store, o) == DOMAIN store = {o}

DiscardFrom(index, o, keys) ==
    LET emptied == {k \in keys : IsEmptied(index.items[k], o)}
        left == index.reverse[o] \ keys
    IN [items |-> [k \in DOMAIN index.items \ emptied |->
                     IF k \in keys THEN StoreWithout(index.items[k], o)
                                   ELSE index.items[k]],
        reverse |-> IF left = {} THEN Without(index.reverse, {o})
                                 ELSE With(index.reverse, o, left)]

Discard(index, o) ==
    IF o \in DOMAIN index.reverse THEN DiscardFrom(index, o, index.reverse[o]) ELSE index

(* Index._replace(): the stores of the new keys are updated or made, then  *)
(* the object is discarded from the stores of the other keys.              *)
Remembered(known, mapping) == known \cap DOMAIN mapping   \* a slip: the wrong side
Stale(known, mapping) == known \ DOMAIN mapping

Replace(index, o, mapping) ==
    LET known == Get(index.reverse, o, {}) \cup DOMAIN mapping
        added == [k \in DOMAIN index.items \cup DOMAIN mapping |->
                    IF k \in DOMAIN mapping
                    THEN StoreWith(Get(index.items, k, Empty), o, mapping[k])
                    ELSE index.items[k]]
    IN DiscardFrom([items |-> added, reverse |-> With(index.reverse, o, known)],
                   o, Stale(known, mapping))

(* What the handlers see of one object in an index: its keys and values.   *)
Visible(index, o) ==
    [k \in {k \in DOMAIN index.items : o \in DOMAIN index.items[k]} |-> index.items[k][o]]
=============================================================================
