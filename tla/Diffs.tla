-------------------------------- MODULE Diffs --------------------------------
(***************************************************************************)
(* The differences of two objects (kopf/_cogs/structs/diffs.py).  A diff is *)
(* a set of items: the code iterates over sets of keys, in any order.       *)
(***************************************************************************)
EXTENDS Fields, SequencesExt

DiffItem(op, path, a, b) == [op |-> op, field |-> path, old |-> a, new |-> b]

(* The scope tells whose fields are noticed: "left", "right" or both.      *)
FullScope == {"left", "right"}

RECURSIVE ScopedDiff(_, _, _, _)
ScopedDiff(a, b, path, scope) ==
  LET Nested(keys) == UNION {
        ScopedDiff(Resolve(a, <<k>>, None), Resolve(b, <<k>>, None), Append(path, k), scope) :
          k \in keys}
  IN CASE a = b -> {}
       [] a # b /\ a = None -> {DiffItem("add", path, a, b)}
       [] a # b /\ b = None -> {DiffItem("remove", path, a, b)}
       [] a # b /\ IsMapping(a) /\ IsMapping(b) ->
            Nested((IF "right" \in scope THEN Keys(b) \ Keys(a) ELSE {})
                     \cup (IF "left" \in scope THEN Keys(a) \ Keys(b) ELSE {})
                     \cup (Keys(a) \cap Keys(b)))
       [] OTHER -> {DiffItem("change", path, a, b)}

Diff(a, b) == ScopedDiff(a, b, <<>>, FullScope)

Behind(s, t) == SubSeq(t, Len(s) + 1, Len(t))

(* The part of a diff that belongs to a field: an item of the field or of   *)
(* its subfields loses the prefix, one of its parents is diffed anew.       *)
Reduce(diff, path) ==
  UNION {
    IF IsPrefix(path, item.field)
    THEN {[item EXCEPT !.field = Behind(path, item.field)]}
    ELSE IF IsPrefix(item.field, path)
    THEN LET tail == Behind(item.field, path)
         IN Diff(Resolve(item.old, tail, None), Resolve(item.new, tail, None))
    ELSE {} :
    item \in diff}
=============================================================================
