------------------------------- MODULE MCCluster -------------------------------
(* A small instance of Cluster: a resource which is handled, one which is  *)
(* indexed, and the peering resource.                                      *)
EXTENDS Cluster

Described(group, plural, namespaced) ==
  [group |-> group, version |-> "v1", plural |-> plural, kind |-> plural,
   singular |-> plural, shortcuts |-> {}, categories |-> {}, preferred |-> TRUE,
   namespaced |-> namespaced, verbs |-> {"list", "watch", "patch"}]
Selector(group, by, name) == [group |-> group, version |-> Unset, by |-> by, name |-> name]
Name(n) == [exclusive |-> FALSE, exact |-> TRUE, names |-> {n}]

MCTraits ==
  [r \in {"Kex", "Cron", "Peering"} |->
     CASE r = "Kex"     -> Described("a.dev", "kex", TRUE)
       [] r = "Cron"    -> Described("c.dev", "crons", FALSE)
       [] r = "Peering" -> Described("kopf.dev", "kopfpeerings", TRUE)]

MCPatterns == {<<Name("prod")>>}
MCIndexed == {Selector("c.dev", "plural", "crons")}
MCHandled == {Selector(Unset, "any", "kex")}
MCPeerings == {[group |-> "kopf.dev", version |-> "v1", by |-> "any", name |-> "kopfpeerings"]}
=============================================================================
