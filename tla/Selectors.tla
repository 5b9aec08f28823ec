------------------------------ MODULE Selectors ------------------------------
(***************************************************************************)
(* What an operator serves: the resource kinds selected by the handlers    *)
(* and the namespaces matched by the patterns of the command line          *)
(* (kopf/_cogs/structs/references.py), and how the observation of the      *)
(* cluster turns both into the insights (kopf/_core/reactor/               *)
(* observation.py).  Pure operators, no state.                             *)
(*                                                                         *)
(* Traits[r] is the record of the names and the flags of a resource r.  A  *)
(* selector has a group and a version (or Unset for any) and exactly one name criterion:  *)
(* "by" says which name it compares, "name" with what.                     *)
(***************************************************************************)
EXTENDS Integers, Sequences, FiniteSets, SequencesExt

CONSTANT Traits

Unset == "unset"      \* None: the criterion is not specified

(***************************************************************************)
(* A pattern of namespaces is a sequence of globs, each inclusive or       *)
(* exclusive ("!"), with the set of names it matches ("*" is everything);  *)
(* it is exact if it has none of "*" and "?".  The first glob decides;     *)
(* unless it is inclusive, everything is matched initially.                *)
(***************************************************************************)
Everything(names) == [exclusive |-> FALSE, exact |-> FALSE, names |-> names]

MatchPattern(name, pattern, universe) ==
  LET globs == IF pattern = <<>> \/ pattern[1].exclusive
               THEN <<Everything(universe)>> \o pattern ELSE pattern
      first == name \in globs[1].names
      Step(matches, glob) ==
        IF glob.exclusive THEN matches /\ name \notin glob.names
        ELSE matches \/ (first /\ name \in glob.names)
  IN FoldLeft(Step, first, Tail(globs))

MatchNamespace(name, patterns, universe) ==
  \E pattern \in patterns : MatchPattern(name, pattern, universe)

(* The namespaces to be served if the cluster cannot be asked: only those  *)
(* patterns that are exact names, without any "*", "?", "!" and ",".       *)
ExactNamespaces(patterns) ==
  UNION {p[1].names : p \in {q \in patterns : Len(q) = 1 /\ q[1].exact /\ ~q[1].exclusive}}

-----------------------------------------------------------------------------
(* Selectors.                                                              *)

IsSpecific(s) == s.by \in {"kind", "plural", "singular", "shortcut", "any"}

InGroup(s, r) == s.group \in {Unset, Traits[r].group}
InVersion(s, r) ==
  IF s.version = Unset THEN Traits[r].preferred \/ s.by = "fn" ELSE s.version = Traits[r].version

NamesOf(r) == {Traits[r].kind, Traits[r].plural, Traits[r].singular} \cup Traits[r].shortcuts

EVENTS     == [group |-> "", version |-> "v1", by |-> "any", name |-> "events"]
EVENTS_K8S == [group |-> "events.k8s.io", version |-> Unset, by |-> "any", name |-> "events"]

IsEvents(r) ==
  \E s \in {EVENTS, EVENTS_K8S} : InGroup(s, r) /\ InVersion(s, r) /\ s.name \in NamesOf(r)

(* The criterion by a function is the set of the plurals it accepts.       *)
ByName(s, r) ==
  \/ s.by = "kind" /\ s.name = Traits[r].kind
  \/ s.by = "plural" /\ s.name = Traits[r].plural
  \/ s.by = "singular" /\ s.name = Traits[r].singular
  \/ s.by = "shortcut" /\ s.name \in Traits[r].shortcuts
  \/ s.by = "category" /\ s.name \in Traits[r].categories
  \/ s.by = "any" /\ s.name \in NamesOf(r)
  \/ s.by = "everything" /\ ~IsEvents(r)
  \/ s.by = "fn" /\ Traits[r].plural \in s.name /\ ~IsEvents(r)

Check(s, r) == InGroup(s, r) /\ InVersion(s, r) /\ ByName(s, r)

(* The core group wins over all the others, unless the selector is by a    *)
(* category, a function or for everything.                                 *)
Select(s, resources) ==
  LET result == {r \in resources : Check(s, r)}
      core   == {r \in result : Traits[r].group = ""}
  IN IF IsSpecific(s) /\ core # {} THEN core ELSE result

SelectAny(selectors, resources) == UNION {Select(s, resources) : s \in selectors}

-----------------------------------------------------------------------------
(* The revision of the served resources after a scan of one group of the   *)
(* cluster, or of all the groups.                                          *)

InScannedGroup(r, group) == group \in {Unset, Traits[r].group}

AddResources(resources, selectors, group, source) ==
  resources \cup SelectAny(selectors, source)
UpdateResources(resources, selectors, group, source) ==
  {r \in resources : ~InScannedGroup(r, group)} \cup SelectAny(selectors, source)

(* The selectors are a set in the code: they are taken in any order, each  *)
(* sees what the previous ones have left.                                  *)
RemainingAfter(s, resources) ==
  LET selected == Select(s, resources)
  IN IF IsSpecific(s) /\ Cardinality(selected) > 1 THEN resources \ selected ELSE resources

DisableAmbiguous(resources, order) ==
  LET left[i \in 0..Len(order)] ==
        IF i = 0 THEN resources ELSE RemainingAfter(order[i], left[i - 1])
  IN left[Len(order)]

NonWatchable(resources) == {r \in resources : ~({"watch", "list"} \subseteq Traits[r].verbs)}
NonPatchable(resources) ==
  {r \in resources : "patch" \notin Traits[r].verbs} \ NonWatchable(resources)

DisableUnsuitable(resources, patching) ==
  LET nonpatchable == NonPatchable(resources)
      unpatched    == IF SelectAny(patching, nonpatchable) # {} THEN nonpatchable ELSE {}
  IN resources \ (NonWatchable(resources) \cup unpatched)

ReviseResources(resources, watching, patching, group, source, order) ==
  DisableUnsuitable(
    DisableAmbiguous(UpdateResources(resources, watching, group, source), order),
    patching)

(* Only the first resource of a selector gets into the backbone, forever.  *)
FillBackbone(backbone, selectors, resources) ==
  LET found == {s \in selectors \ DOMAIN backbone : \E r \in resources : Check(s, r)}
  IN {[s \in DOMAIN backbone \cup found |->
         IF s \in DOMAIN backbone THEN backbone[s] ELSE choice[s]] :
      choice \in {f \in [found -> resources] : \A s \in found : Check(s, f[s])}}

-----------------------------------------------------------------------------
(* The revision of the served namespaces after an event of one of them, or *)
(* its listing: a namespace is over when it is deleted, or is being        *)
(* deleted and reports its conditions but nothing that blocks it.          *)

IsDeleted(state) == state \in {"blocked", "vacant", "absent"}
HasBlockers(state) == state = "blocked"

ReviseNamespace(namespaces, name, state, matched) ==
  IF IsDeleted(state) /\ HasBlockers(state) THEN namespaces
  ELSE IF IsDeleted(state) THEN namespaces \ {name}
  ELSE IF matched THEN namespaces \cup {name}
  ELSE namespaces
=============================================================================
