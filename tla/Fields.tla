------------------------------- MODULE Fields -------------------------------
(***************************************************************************)
(* Nested fields of objects, as kopf/_cogs/structs/dicts.py treats them: a  *)
(* value is a mapping or a leaf, a field is the sequence of keys that leads *)
(* to a value.  Used by TLC only: the operators are recursive.              *)
(***************************************************************************)
EXTENDS Sequences, FiniteSetsExt

Leaf(v) == [leaf |-> v]
Mapping(f) == [fields |-> f]
Empty == Mapping(<<>>)
None == [none |-> TRUE]

(* The outcomes of looking for a field that is not there.                  *)
KeyError == [error |-> "no such key"]
TypeError == [error |-> "not a mapping"]

IsMapping(d) == "fields" \in DOMAIN d
Keys(d) == DOMAIN d.fields
With(d, key, value) ==
  Mapping([k \in Keys(d) \cup {key} |-> IF k = key THEN value ELSE d.fields[k]])
Without(d, keys) == Mapping([k \in Keys(d) \ keys |-> d.fields[k]])

(* The value of a field, or why there is none.                             *)
RECURSIVE Find(_, _)
Find(d, path) ==
  IF path = <<>> THEN d
  ELSE IF ~IsMapping(d) THEN TypeError
  ELSE IF Head(path) \notin Keys(d) THEN KeyError
  ELSE Find(d.fields[Head(path)], Tail(path))

(* ... with a default for all that cannot be found.                        *)
Resolve(d, path, default) ==
  LET value == Find(d, path)
  IN IF value \in {KeyError, TypeError} THEN default ELSE value

(* Sets a field and creates the parents that are missing.                  *)
RECURSIVE Ensure(_, _, _)
Ensure(d, path, value) ==
  IF path = <<>> THEN value
  ELSE With(d, Head(path),
            Ensure(Resolve(d, <<Head(path)>>, Empty), Tail(path), value))

(* Removes a field and the parents that it leaves empty.                   *)
RECURSIVE RemoveField(_, _)
RemoveField(d, path) ==
  LET key == Head(path)
      rest == RemoveField(d.fields[key], Tail(path))
  IN IF key \notin Keys(d) THEN d
     ELSE IF Len(path) = 1 \/ rest = Empty THEN Without(d, {key})
     ELSE With(d, key, rest)

(* Copies the fields that there are, overwriting those of the destination. *)
(* The parents of the fields are mappings: the code raises TypeError, else. *)
Cherrypick(src, dst, fields) ==
  FoldSet(LAMBDA field, d : Ensure(d, field, Find(src, field)), dst,
          {field \in fields : Find(src, field) # KeyError})

(* The API's merge-patching: a field set to None is removed.               *)
RECURSIVE MergePatch(_, _)
MergePatch(d, patch) ==
  LET kept == Keys(d) \ Keys(patch)
      set == {k \in Keys(patch) : patch.fields[k] # None}
      Old(k) == Resolve(d, <<k>>, Empty)
  IN Mapping([k \in kept \cup set |->
       IF k \in kept THEN d.fields[k]
       ELSE IF ~IsMapping(patch.fields[k]) THEN patch.fields[k]
       ELSE MergePatch(IF IsMapping(Old(k)) THEN Old(k) ELSE Empty, patch.fields[k])])
=============================================================================
