------------------------------ MODULE Storages ------------------------------
(***************************************************************************)
(* Where operators keep what they must remember of an object, on the object *)
(* itself: the progress of handlers and the last handled essence, in        *)
(* annotations or in the status (kopf/_cogs/configs/ progress.py,           *)
(* diffbase.py, conventions.py).  A storage is a record of its type and the *)
(* arguments of its constructor; what it writes, it adds to a patch.        *)
(***************************************************************************)
EXTENDS Diffs

CONSTANTS
  KnownPrefixes,  \* prefixes of Kopf itself and of its subdomains
  KopfPrefixes,   \* prefixes that begin with "kopf."
  LongNames       \* names too long for the V1 keys of annotations

AnnotationsField == <<"metadata", "annotations">>
Annotations(d) == Resolve(d, AnnotationsField, Empty)

(* The key of an annotation: its prefix and name, whether it is marked as   *)
(* that of a ReplicaSet of a Deployment, whether it is cut (V1) and hashed. *)
Key(prefix, name) == [prefix |-> prefix, name |-> name, ofDRS |-> FALSE, cut |-> FALSE]
FieldOf(key) == Append(AnnotationsField, key)
LastApplied == Key("kubectl.kubernetes.io", "last-applied-configuration")
Marker(prefix) == Key(prefix, "kopf-managed")

(* A slip: as if Kubernetes copied no annotations from owners.             *)
IsUnaware(body) == FALSE
IsOfDeployment(body) ==
  /\ Resolve(body, <<"kind">>, None) = Leaf("ReplicaSet")
  /\ Resolve(body, <<"metadata", "ownerReferences">>, None) = Leaf("Deployment")
MarkKey(key, body) == [key EXCEPT !.ofDRS = IsOfDeployment(body)]

(* The V2 key goes first.                                                  *)
MakeKeys(storage, name, body) ==
  LET key == MarkKey(Key(storage.prefix, name), body)
  IN IF storage.v1 /\ name \in LongNames THEN <<key, [key EXCEPT !.cut = TRUE]>> ELSE <<key>>

(* A slip: only those of Kopf are recognised.                              *)
FamiliarPrefixes(keys) == {key.prefix : key \in keys} \cap KnownPrefixes
MarkedPrefixes(keys) ==
  {key.prefix : key \in {k \in keys : k = Marker(k.prefix) \/ k.prefix \in KnownPrefixes}}

StoreMarker(storage, body, patch) ==
  IF storage.prefix \in KopfPrefixes \/ Marker(storage.prefix) \in Keys(Annotations(body))
  THEN patch
  ELSE Ensure(patch, FieldOf(Marker(storage.prefix)), Leaf("yes"))

(* The mixin for the essences: without some annotations, or empty parents. *)
RemoveAnnotations(essence, keys) ==
  IF keys \cap Keys(Annotations(essence)) = {} THEN essence
  ELSE Ensure(essence, AnnotationsField, Without(Annotations(essence), keys))

RemoveEmptyStanzas(essence) ==
  LET meta == Resolve(essence, <<"metadata">>, Empty)
      full == Without(meta, {k \in Keys(meta) \cap {"labels", "annotations"} :
                               meta.fields[k] = Empty})
      neat == IF "metadata" \in Keys(essence) THEN With(essence, "metadata", full) ELSE essence
  IN Without(neat, {k \in Keys(neat) \cap {"metadata", "status"} : neat.fields[k] = Empty})

(* The storages as they are made: with names of their own in the status.    *)
OnAnnotations(prefix, v1) ==
  [type |-> "annotations", prefix |-> prefix, v1 |-> v1, field |-> <<>>, touch |-> <<>>,
   ignored |-> {}]
OnStatus(type, name, field) ==
  [type |-> type, prefix |-> "", v1 |-> FALSE, field |-> <<"status", name, field>>,
   touch |-> <<"status", name, "dummy">>, ignored |-> {}]
StatusProgress(name) == OnStatus("status", name, "progress")
NoWriteStatusProgress(name) == OnStatus("nowrite", name, "progress")
SmartProgress(prefix, name, v1) == <<OnAnnotations(prefix, v1), NoWriteStatusProgress(name)>>
Ignoring(storage, ignored) == [storage EXCEPT !.ignored = ignored]
StatusDiffbase(name) == OnStatus("status", name, "last-handled-configuration")

(***************************************************************************)
(* The progress of handlers, in any sequence of storages.  "nowrite" is the *)
(* status storage that reads and purges, but neither stores nor touches.    *)
(***************************************************************************)
FieldsOf(storage, name, body) ==
  IF storage.type = "annotations"
  THEN LET keys == MakeKeys(storage, name, body) IN [i \in DOMAIN keys |-> FieldOf(keys[i])]
  ELSE <<Append(storage.field, name)>>

(* The first value found, in the order of storages and of their keys.      *)
FirstOf(body, fields) ==
  LET found == SelectSeq(fields, LAMBDA f : Resolve(body, f, None) # None)
  IN IF found = <<>> THEN None ELSE Find(body, found[1])

FetchProgress(storages, name, body) ==
  FirstOf(body, FlattenSeq([i \in DOMAIN storages |-> FieldsOf(storages[i], name, body)]))

WriteAll(storage, fields, value, body, patch) ==
  LET written == FoldLeft(LAMBDA p, f : Ensure(p, f, value), patch, fields)
  IN IF storage.type = "annotations" /\ fields # <<>>
     THEN StoreMarker(storage, body, written) ELSE written

StoreProgress(storages, name, record, body, patch) ==
  FoldLeft(LAMBDA p, s : IF s.type = "nowrite" THEN p
                         ELSE WriteAll(s, FieldsOf(s, name, body), record, body, p),
           patch, storages)

PurgeField(body, patch, field) ==
  IF Find(body, field) \notin {KeyError, TypeError} THEN Ensure(patch, field, None)
  ELSE IF Find(patch, field) \notin {KeyError, TypeError} THEN RemoveField(patch, field)
  ELSE patch

PurgeProgress(storages, name, body, patch) ==
  FoldLeft(LAMBDA p, s : FoldLeft(LAMBDA q, f : PurgeField(body, q, f),
                                  p, FieldsOf(s, name, body)),
           patch, storages)

(* The dummy value, which makes an event that wakes up the handling.       *)
Touch(storages, value, body, patch) ==
  LET TouchFields(s) ==
        IF s.type = "annotations" THEN FieldsOf(s, "touch-dummy", body) ELSE <<s.touch>>
      Changed(s) == SelectSeq(TouchFields(s), LAMBDA f : Resolve(body, f, None) # value)
  IN FoldLeft(LAMBDA p, s : IF s.type = "nowrite" THEN p
                            ELSE WriteAll(s, Changed(s), value, body, p),
              patch, storages)

Clear(storages, essence) ==
  FoldLeft(LAMBDA e, s :
             RemoveEmptyStanzas(
               IF s.type = "annotations"
               THEN RemoveAnnotations(e, {k \in Keys(Annotations(e)) : k.prefix = s.prefix})
               ELSE RemoveField(e, s.field)),
           essence, storages)

(***************************************************************************)
(* The last handled essence.  A diff-base is one storage or several.        *)
(***************************************************************************)
IsMulti(diffbase) == Len(diffbase) > 1
EssenceName == "last-handled-configuration"
EssenceFields(storage, body) ==
  IF storage.type = "annotations" THEN FieldsOf(storage, EssenceName, body)
                                  ELSE <<storage.field>>

(* Without the fields that the users do not want to be compared, and the    *)
(* parents that are empty then, also if there was nothing to be removed.   *)
RemoveIgnored(essence, ignored) ==
  FoldSet(LAMBDA f, e : IF Find(e, f) = TypeError THEN e ELSE RemoveField(e, f),
          essence, ignored)

(* What is essential in a body for any storage.                            *)
BuildAny(body, extra, ignored) ==
  LET bare == Without(body, {"apiVersion", "kind", "metadata", "status"})
      meta == Cherrypick(body, bare, {<<"metadata", "labels">>, AnnotationsField})
      keys == Keys(Annotations(meta))
      marked == MarkedPrefixes(keys)
      known == RemoveAnnotations(meta, {k \in keys : k.prefix \in marked \/ k = LastApplied})
  IN RemoveIgnored(RemoveEmptyStanzas(Cherrypick(body, known, extra)), ignored)

BuildOne(storage, body, extra) ==
  LET essence == BuildAny(body, extra, storage.ignored)
  IN IF storage.type = "annotations"
     THEN RemoveEmptyStanzas(
            RemoveAnnotations(essence, ToSet(MakeKeys(storage, EssenceName, body))))
     ELSE RemoveField(essence, storage.field)

(* Several storages clean up after each other, each taking the essence of   *)
(* the previous one for a body.                                             *)
Build(diffbase, body, extra) ==
  IF IsMulti(diffbase)
  THEN FoldLeft(LAMBDA e, s : BuildOne(s, e, extra), BuildAny(body, extra, {}), diffbase)
  ELSE BuildOne(diffbase[1], body, extra)

(* An essence is stored as one encoded value, not as nested fields.        *)
Encoded(essence) == [json |-> essence]
FetchEssence(diffbase, body) ==
  LET code == FirstOf(body, FlattenSeq([i \in DOMAIN diffbase |-> EssenceFields(diffbase[i], body)]))
  IN IF code = None THEN None ELSE code.json

StoreEssence(diffbase, essence, body, patch) ==
  FoldLeft(LAMBDA p, s : WriteAll(s, EssenceFields(s, body), Encoded(essence), body, p),
           patch, diffbase)
=============================================================================
