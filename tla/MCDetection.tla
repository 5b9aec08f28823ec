----------------------------- MODULE MCDetection -----------------------------
(* Instances of Detection for TLC: a Deployment and its ReplicaSet, and two  *)
(* operators, one with annotations of its own, one with those of Kopf and    *)
(* with the status.                                                          *)
EXTENDS Detection

One(path, value) == Ensure(Empty, path, value)

MCBodies ==
  [b \in Objects |->
     LET spec == One(<<"spec", "x">>, Leaf("1"))
         kind == With(spec, "kind", Leaf(IF b \in DOMAIN Owner THEN "ReplicaSet" ELSE "Deployment"))
     IN IF b \in DOMAIN Owner
        THEN Ensure(kind, <<"metadata", "ownerReferences">>, Leaf("Deployment")) ELSE kind]

MCOwner == "r" :> "d"

Note == FieldOf(Key(UserPrefix, "note"))
MCEdits ==
  {One(<<"spec", "x">>, Leaf("2")), One(<<"spec", "x">>, None),
   One(Note, Leaf("yes")), One(Note, None), One(FieldOf(LastApplied), Leaf("yes")),
   One(<<"metadata", "labels", "l">>, Leaf("on")), One(<<"status", "phase">>, Leaf("ready"))}

AnyHandler ==
  [type |-> "changing", fn |-> "f", id |-> "f", reason |-> "update", initial |-> FALSE,
   deleted |-> FALSE, field |-> <<>>, field_needs_change |-> TRUE, value |-> Unset, old |-> Unset,
   new |-> Unset, labels |-> <<>>, annotations |-> <<>>,
   when |-> [field |-> <<>>, criterion |-> Unset]]

OwnPrefix(prefix) ==
  [progress |-> SmartProgress(prefix, "kopf", TRUE),
   diffbase |-> <<Ignoring(OnAnnotations(prefix, TRUE), {<<"metadata", "labels", "l">>})>>,
   registry |->
     <<[AnyHandler EXCEPT !.fn = "x", !.id = "long", !.field = <<"spec", "x">>],
       [AnyHandler EXCEPT !.fn = "x", !.id = "long", !.field = <<"spec", "x">>, !.reason = "create"],
       [AnyHandler EXCEPT !.fn = "s", !.id = "s", !.field = <<"status", "phase">>,
                          !.reason = "any"]>>]

Default ==
  [progress |-> <<StatusProgress("kopf")>>,
   diffbase |-> <<OnAnnotations("kopf.zalando.org", FALSE), StatusDiffbase("kopf")>>,
   registry |->
     <<[AnyHandler EXCEPT !.fn = "g", !.id = "g", !.field = <<"spec", "x">>,
                          !.value = Equal(Leaf("2")), !.old = PRESENT],
       [AnyHandler EXCEPT !.fn = "l", !.id = "l", !.reason = "any",
                          !.labels = "l" :> PRESENT],
       [AnyHandler EXCEPT !.fn = "n", !.id = "n", !.new = ABSENT, !.field = <<"spec", "x">>]>>]

MCConfig == "A" :> OwnPrefix("example.com") @@ "B" :> Default
KopfConfig == "A" :> OwnPrefix("kopf.example.com") @@ "B" :> Default
=============================================================================
