---------------------------- MODULE ClusterProofs ----------------------------
(***************************************************************************)
(* For any resources, namespaces, patterns and handlers, and any number of *)
(* changes of the cluster: the operator serves what its insights say, the  *)
(* insights follow the cluster, no toggle is left without the task that    *)
(* resolves it, and no handler runs before the indices are full.           *)
(***************************************************************************)
EXTENDS Cluster, FiniteSetTheorems, SequenceTheorems, WellFoundedInduction, TLAPS

-----------------------------------------------------------------------------
(* The inductive invariant.                                                *)

(* No namespaces are known and no event of them is left before the first   *)
(* revision; the whole cluster is served only if it is assumed so.         *)
NamesInOrder ==
  /\ names \in {"listing", "revising"} => namespaces = {}
  /\ names \in {"listing", "revising", "assumed"} => \A n \in Namespaces : nameEvents[n] = <<>>
  /\ Unset \in namespaces => names = "assumed"

(* The responses are all of the first scan, or at most one for each of the *)
(* resources: what exists in its group.                                    *)
ScansInOrder ==
  /\ crds \in {"scanning", "revising"} => crdEvents = {}
  /\ crds = "scanning" => scans = {}
  /\ crds = "revising" => \A x \in scans : x.scan = FirstScan
  /\ crds \notin {"scanning", "revising"} =>
       \A x \in scans : \E r \in Kinds :
         x.scan = ScanOf(r) /\ \A s \in x.found : Traits[s].group = Traits[r].group
  /\ \A x, y \in scans : x.scan = y.scan => x = y

(* A task is for a namespace or for the whole cluster as its resource is;  *)
(* and peerings are for the peering resources only.                        *)
IsProper(k) ==
  IF Traits[k[1]].namespaced THEN k[2] = Unset => Unset \in namespaces ELSE k[2] = Unset
KeysInOrder ==
  /\ \A k \in EnsembleKeys : IsProper(k)
  /\ \A k \in peering : k[1] \in PeeringResources

(* How far the orchestrator has adjusted the ensemble to the insights,     *)
(* which nobody revises meanwhile.                                         *)
Adjusted == orchestrator = "waiting" /\ ~revised
EnsembleInOrder ==
  /\ orchestrator = "stopping" => redundant = {k \in EnsembleKeys : ~IsRemaining(k)}
  /\ orchestrator \in {"peering", "blocking", "spawning"} \/ Adjusted =>
       \A k \in EnsembleKeys : IsRemaining(k)
  /\ orchestrator \in {"blocking", "spawning"} \/ Adjusted =>
       KeysOf(PeeringResources, namespaces) \subseteq peering
  /\ Adjusted => KeysOf(served, namespaces) \subseteq Watched
  /\ orchestrator \in {"stopping", "peering", "blocking", "spawning"} \/ (Adjusted /\ namespaces # {}) =>
       missing = (Mandatory /\ PeeringResources = {})

(* Whatever is to be indexed before the readiness holds it back by a       *)
(* toggle, all the way from the begin of its spawning; and nobody is ready *)
(* before all of that is over.                                             *)
IsOver(i) == watcher[i] \notin {"none", "new"} /\ object[i] # "found"
HoldsBack(i) ==
  /\ watcher[i] = "none" => /\ orchestrator \in {"spawning", "closing", "closed"}
                            /\ Blocker \in toggles
                            /\ i \in MissingWatchers /\ i[1] \in indexed
  /\ watcher[i] = "new" => ListToggle(i) \in toggles /\ i \in counted
  /\ object[i] = "found" => ObjectToggle(i) \in toggles
FirstInOrder ==
  /\ \A k \in Keys : watcher[k] = "none" => object[k] = "none"
  /\ \A i \in first : HoldsBack(i)
  /\ WasReady => \A i \in first : IsOver(i)

(* What is known of a resource, which no other interferes with: as it is   *)
(* now, unless it was overlooked or there is an event to be processed.     *)
IsKnown(r) ==
  /\ crds = "revising" => \A x \in scans : r \in x.found <=> r \in existing
  /\ crds \in {"listing", "watching"} /\ r \notin crdEvents =>
       IF IsAsking(r) THEN \A x \in scans : x.scan = ScanOf(r) => (r \in x.found <=> r \in existing)
       ELSE IsServedRightly(r)
ResourcesAreKnown ==
  \A r \in Kinds : IsUnrivalled(r) /\ GroupOf(r) \notin overlooked => IsKnown(r)

(* The same for namespaces.                                                *)
FollowsSpace(n) ==
  /\ space[n] = "active" /\ Matched(n) => n \in namespaces
  /\ space[n] \in {"vacant", "absent"} => n \notin namespaces
IsNamed(n) ==
  /\ names = "revising" => listing[n] = space[n]
  /\ names \in {"relisting", "watching"} =>
       IF nameEvents[n] = <<>> THEN FollowsSpace(n) ELSE Last(nameEvents[n]) = space[n]
NamespacesAreKnown == \A n \in Namespaces : SpaceOf(n) \notin overlooked => IsNamed(n)

IInv ==
  /\ TypeOK /\ NamesInOrder /\ ScansInOrder /\ KeysInOrder /\ EnsembleInOrder
  /\ ConflictsAreOwned /\ FirstInOrder /\ ResourcesAreKnown /\ NamespacesAreKnown

-----------------------------------------------------------------------------
(* Lemmas about the operators of Selectors.                                *)

(* Induction over numbers, with a set for the counterexamples.             *)
LEMMA LeastNumber ==
  ASSUME NEW T, T \subseteq Nat, T # {}
  PROVE  \E n \in T : \A m \in T : n <= m
<1> DEFINE R == OpToRel(<, Nat)
<1>1. IsWellFoundedOn(R, Nat)
  BY NatLessThanWellFounded
<1>2. PICK n \in T : \A m \in T : <<m, n>> \notin R
  <2> HIDE DEF R
  <2> QED BY <1>1, WFMin
<1>3. ASSUME NEW m \in T PROVE n <= m
  <2>1. <<m, n>> \notin R
    BY <1>2
  <2>2. m < n => <<m, n>> \in R
    BY DEF OpToRel
  <2>3. m \in Nat /\ n \in Nat
    OBVIOUS
  <2> HIDE DEF R
  <2> QED BY <2>1, <2>2, <2>3
<1> QED BY <1>3

(* What remains after each of the selectors in their order.                *)
IsLeft(left, resources, order) ==
  left = [i \in 0..Len(order) |->
            IF i = 0 THEN resources ELSE RemainingAfter(order[i], left[i - 1])]

LEMMA LeftExists ==
  ASSUME NEW S, NEW order \in Seq(S), NEW resources
  PROVE  \E left : IsLeft(left, resources, order)
<1> DEFINE D(left, m) == left = [i \in 0..m |-> IF i = 0 THEN resources
                                               ELSE RemainingAfter(order[i], left[i - 1])]
           T == {m \in Nat : ~\E left : D(left, m)}
<1>1. T = {}
  <2>1. SUFFICES ASSUME T # {} PROVE FALSE
    OBVIOUS
  <2>2. PICK m \in T : \A l \in T : m <= l
    BY <2>1, LeastNumber
  <2>3. m # 0
    <3>1. D([i \in 0..0 |-> resources], 0)
      OBVIOUS
    <3> QED BY <3>1
  <2>4. m - 1 \in Nat /\ m - 1 \notin T
    <3>1. m \in Nat
      OBVIOUS
    <3> HIDE DEF T
    <3>2. m - 1 \in Nat /\ ~(m <= m - 1)
      BY <2>3, <3>1
    <3> QED BY <2>2, <3>2
  <2>5. PICK left : D(left, m - 1)
    BY <2>4
  <2> DEFINE more == [i \in 0..m |-> IF i < m THEN left[i] ELSE RemainingAfter(order[m], left[m - 1])]
  <2>6. ASSUME NEW i \in 0..m
        PROVE  more[i] = IF i = 0 THEN resources ELSE RemainingAfter(order[i], more[i - 1])
    <3>1. CASE i = 0
      <4>1. 0 \in 0..(m - 1) /\ 0 < m
        BY <2>3, <2>4
      <4>2. more[0] = left[0]
        BY <4>1
      <4>3. left[0] = resources
        BY <2>5, <4>1
      <4> QED BY <3>1, <4>2, <4>3
    <3>2. CASE i # 0
      <4>1. i - 1 \in 0..m /\ i - 1 < m
        BY <3>2
      <4>2. more[i - 1] = left[i - 1]
        BY <4>1
      <4>3. CASE i = m
        <5>1. more[i] = RemainingAfter(order[i], left[i - 1])
          BY <4>3
        <5> QED BY <3>2, <4>2, <5>1
      <4>4. CASE i # m
        <5>1. i \in 0..(m - 1) /\ i < m
          BY <4>4
        <5>2. more[i] = left[i]
          BY <5>1
        <5>3. left[i] = RemainingAfter(order[i], left[i - 1])
          BY <2>5, <3>2, <5>1
        <5> QED BY <3>2, <4>2, <5>2, <5>3
      <4> QED BY <4>3, <4>4
    <3> QED BY <3>1, <3>2
  <2>7. D(more, m)
    <3>1. more = [i \in 0..m |-> more[i]]
      OBVIOUS
    <3> HIDE DEF more
    <3> QED BY <2>6, <3>1
  <2> QED BY <2>7
<1>2. Len(order) \in Nat
  OBVIOUS
<1> QED BY <1>1, <1>2 DEF IsLeft

LEMMA LeftIsReached ==
  ASSUME NEW S, NEW order \in Seq(S), NEW resources
  PROVE  \E left : IsLeft(left, resources, order) /\ DisableAmbiguous(resources, order) = left[Len(order)]
<1> DEFINE P(f) == f = [i \in 0..Len(order) |->
              IF i = 0 THEN resources ELSE RemainingAfter(order[i], f[i - 1])]
           left == CHOOSE f : P(f)
<1>1. IsLeft(left, resources, order)
  <2>1. \E f : P(f)
    <3>1. PICK f : IsLeft(f, resources, order)
      BY LeftExists, Zenon
    <3>2. P(f)
      BY <3>1 DEF IsLeft
    <3> HIDE DEF P
    <3> QED BY <3>2
  <2>2. P(left)
    <3> HIDE DEF P
    <3> QED BY <2>1, Zenon
  <2> HIDE DEF left
  <2> QED BY <2>2 DEF IsLeft
<1>2. DisableAmbiguous(resources, order) = left[Len(order)]
  BY DEF DisableAmbiguous
<1> QED BY <1>1, <1>2

LEMMA LeftFromPrevious ==
  ASSUME NEW S, NEW order \in Seq(S), NEW resources, NEW left, IsLeft(left, resources, order)
  PROVE  /\ left[0] = resources
         /\ \A i \in 1..Len(order) : left[i] = RemainingAfter(order[i], left[i - 1])
<1>1. Len(order) \in Nat
  OBVIOUS
<1>2. left[0] = resources
  <2>1. 0 \in 0..Len(order)
    BY <1>1
  <2> QED BY <2>1 DEF IsLeft
<1>3. ASSUME NEW i \in 1..Len(order) PROVE left[i] = RemainingAfter(order[i], left[i - 1])
  <2>1. i \in 0..Len(order) /\ i # 0
    BY <1>1
  <2> QED BY <2>1 DEF IsLeft
<1> QED BY <1>2, <1>3

(* The disabling of ambiguous resources only removes some.                 *)
LEMMA AmbiguousAreRemoved ==
  ASSUME NEW S, NEW order \in Seq(S), NEW resources
  PROVE  DisableAmbiguous(resources, order) \subseteq resources
<1>1. PICK left : IsLeft(left, resources, order)
                  /\ DisableAmbiguous(resources, order) = left[Len(order)]
  BY LeftIsReached
<1>2. left[0] = resources /\ \A i \in 1..Len(order) : left[i] = RemainingAfter(order[i], left[i - 1])
  BY <1>1, LeftFromPrevious
<1>3. Len(order) \in Nat
  OBVIOUS
<1> DEFINE T == {i \in Nat : i <= Len(order) /\ ~(left[i] \subseteq resources)}
<1>4. T = {}
  <2>1. SUFFICES ASSUME T # {} PROVE FALSE
    OBVIOUS
  <2>2. PICK m \in T : \A l \in T : m <= l
    BY <2>1, LeastNumber
  <2>3. m # 0
    BY <1>2, <2>2
  <2>4. m \in 1..Len(order) /\ m - 1 \in Nat /\ m - 1 <= Len(order) /\ m - 1 \notin T
    BY <1>3, <2>2, <2>3
  <2>5. left[m - 1] \subseteq resources
    BY <2>4
  <2>6. left[m] \subseteq left[m - 1]
    BY <1>2, <2>4 DEF RemainingAfter
  <2> QED BY <2>2, <2>5, <2>6
<1> QED BY <1>1, <1>3, <1>4

(* A resource without rivals is not ambiguous.                             *)
LEMMA UnrivalledAreUnambiguous ==
  ASSUME ClusterAssumption, NEW order \in Seq(Indexed \cup Handled), NEW resources, resources \subseteq Kinds,
         NEW r \in resources, IsUnrivalled(r)
  PROVE  r \in DisableAmbiguous(resources, order)
<1>1. PICK left : IsLeft(left, resources, order)
                  /\ DisableAmbiguous(resources, order) = left[Len(order)]
  BY LeftIsReached
<1>2. left[0] = resources /\ \A i \in 1..Len(order) : left[i] = RemainingAfter(order[i], left[i - 1])
  BY <1>1, LeftFromPrevious
<1>3. Len(order) \in Nat
  OBVIOUS
<1> DEFINE T == {i \in Nat : i <= Len(order) /\ ~(left[i] \subseteq resources /\ r \in left[i])}
<1>4. T = {}
  <2>1. SUFFICES ASSUME T # {} PROVE FALSE
    OBVIOUS
  <2>2. PICK m \in T : \A l \in T : m <= l
    BY <2>1, LeastNumber
  <2>3. m # 0
    BY <1>2, <2>2
  <2>4. m \in 1..Len(order) /\ m - 1 \in Nat /\ m - 1 <= Len(order) /\ m - 1 \notin T
    BY <1>3, <2>2, <2>3
  <2>5. left[m - 1] \subseteq resources /\ r \in left[m - 1]
    BY <2>4
  <2>6. left[m] = RemainingAfter(order[m], left[m - 1])
    BY <1>2, <2>4
  <2>7. order[m] \in Indexed \cup Handled
    BY <2>4
  <2> DEFINE selected == Select(order[m], left[m - 1])
  <2>8. ASSUME r \in selected PROVE Cardinality(selected) = 1
    <3>1. \A x \in selected : x \in Kinds /\ Check(order[m], x)
      BY <2>5 DEF Select
    <3>2. selected = {r}
      <4>1. \A x \in selected : x = r
        BY <2>7, <2>8, <3>1 DEF IsUnrivalled
      <4> HIDE DEF selected
      <4> QED BY <2>8, <4>1
    <3> HIDE DEF selected
    <3> QED BY <3>2, FS_Singleton
  <2>9. left[m] \subseteq left[m - 1] /\ r \in left[m]
    <3>1. left[m] = IF IsSpecific(order[m]) /\ Cardinality(selected) > 1
                    THEN left[m - 1] \ selected ELSE left[m - 1]
      BY <2>6 DEF RemainingAfter
    <3> HIDE DEF selected
    <3>2. r \in selected => ~(Cardinality(selected) > 1)
      BY <2>8
    <3> QED BY <2>5, <3>1, <3>2
  <2> QED BY <2>2, <2>5, <2>9
<1> QED BY <1>1, <1>3, <1>4

LEMMA OrdersAreSequences ==
  ASSUME ClusterAssumption
  PROVE  SetToSeqs(Indexed \cup Handled) \subseteq Seq(Indexed \cup Handled)
<1>1. Cardinality(Indexed \cup Handled) \in Nat
  BY FS_CardinalityType DEF ClusterAssumption
<1>2. \A S : \A n \in Nat : [1..n -> S] \subseteq Seq(S)
  OBVIOUS
<1>3. SetToSeqs(Indexed \cup Handled) \subseteq [1..Cardinality(Indexed \cup Handled) -> Indexed \cup Handled]
  BY DEF SetToSeqs
<1> QED BY <1>1, <1>2, <1>3

(* Only what is in the source, or was there, is served after a revision.   *)
LEMMA RevisionIsKnown ==
  ASSUME NEW S, NEW order \in Seq(S), NEW resources, NEW watching, NEW patching, NEW group, NEW source
  PROVE  ReviseResources(resources, watching, patching, group, source, order)
           \subseteq UpdateResources(resources, watching, group, source)
BY AmbiguousAreRemoved DEF ReviseResources, DisableUnsuitable

LEMMA UpdateIsKnown ==
  ASSUME NEW resources, NEW selectors, NEW group, NEW source
  PROVE  UpdateResources(resources, selectors, group, source) \subseteq resources \cup source
BY DEF UpdateResources, SelectAny, Select

(* A suitable resource is not disabled for its verbs.                      *)
LEMMA SuitableStays ==
  ASSUME NEW resources, NEW patching, NEW r \in resources, IsSuitable(r)
  PROVE  r \in DisableUnsuitable(resources, patching)
<1>1. "patch" \in Traits[r].verbs /\ {"watch", "list"} \subseteq Traits[r].verbs
  BY DEF IsSuitable
<1> QED BY <1>1 DEF DisableUnsuitable, NonWatchable, NonPatchable

(* A scan of the group of a resource without rivals.                       *)
LEMMA RevisionOfItsGroup ==
  ASSUME ClusterAssumption, NEW r \in Kinds, IsUnrivalled(r),
         NEW order \in Seq(Indexed \cup Handled),
         NEW resources, resources \subseteq Kinds, NEW source, source \subseteq Kinds,
         NEW group \in {Unset, Traits[r].group}
  PROVE  LET after == ReviseResources(resources, Indexed \cup Handled, Handled, group, source, order)
         IN /\ r \in after => r \in source /\ IsMeant(r)
            /\ r \in source /\ IsMeant(r) /\ IsSuitable(r) => r \in after
<1> DEFINE updated == UpdateResources(resources, Indexed \cup Handled, group, source)
           after == ReviseResources(resources, Indexed \cup Handled, Handled, group, source, order)
<1>1. InScannedGroup(r, group)
  BY DEF InScannedGroup
<1>2. r \in updated => r \in source /\ IsMeant(r)
  BY <1>1 DEF UpdateResources, SelectAny, Select, IsMeant
<1>3. ASSUME r \in source, IsMeant(r) PROVE r \in updated
  <2>1. PICK s \in Indexed \cup Handled : Check(s, r)
    BY <1>3 DEF IsMeant
  <2>2. \A x \in source : Check(s, x) => x = r
    BY <2>1 DEF IsUnrivalled
  <2>3. r \in Select(s, source)
    BY <1>3, <2>1, <2>2 DEF Select
  <2> QED BY <2>3 DEF UpdateResources, SelectAny
<1>4. updated \subseteq Kinds
  BY UpdateIsKnown
<1>5. r \in after => r \in updated
  BY RevisionIsKnown
<1>6. ASSUME r \in updated, IsSuitable(r) PROVE r \in after
  <2> DEFINE rest == DisableAmbiguous(updated, order)
  <2>1. r \in rest
    <3> HIDE DEF updated
    <3> QED BY <1>4, <1>6, UnrivalledAreUnambiguous
  <2>2. after = DisableUnsuitable(rest, Handled)
    BY DEF ReviseResources
  <2> HIDE DEF rest
  <2> QED BY <1>6, <2>1, <2>2, SuitableStays
<1> QED BY <1>2, <1>3, <1>5, <1>6

(* A scan of another group: nothing changes for the resource.              *)
LEMMA RevisionOfOthers ==
  ASSUME ClusterAssumption, NEW r \in Kinds, IsUnrivalled(r),
         NEW order \in Seq(Indexed \cup Handled),
         NEW resources, resources \subseteq Kinds, NEW source, source \subseteq Kinds,
         NEW group, group \notin {Unset, Traits[r].group}, r \notin source
  PROVE  LET after == ReviseResources(resources, Indexed \cup Handled, Handled, group, source, order)
         IN /\ r \in after => r \in resources
            /\ r \in resources /\ IsSuitable(r) => r \in after
<1> DEFINE updated == UpdateResources(resources, Indexed \cup Handled, group, source)
           after == ReviseResources(resources, Indexed \cup Handled, Handled, group, source, order)
<1>1. ~InScannedGroup(r, group)
  BY DEF InScannedGroup
<1>2. r \in updated <=> r \in resources
  BY <1>1 DEF UpdateResources, SelectAny, Select
<1>4. updated \subseteq Kinds
  BY UpdateIsKnown
<1>5. r \in after => r \in updated
  BY RevisionIsKnown
<1>6. ASSUME r \in updated, IsSuitable(r) PROVE r \in after
  <2> DEFINE rest == DisableAmbiguous(updated, order)
  <2>1. r \in rest
    <3> HIDE DEF updated
    <3> QED BY <1>4, <1>6, UnrivalledAreUnambiguous
  <2>2. after = DisableUnsuitable(rest, Handled)
    BY DEF ReviseResources
  <2> HIDE DEF rest
  <2> QED BY <1>6, <2>1, <2>2, SuitableStays
<1> QED BY <1>2, <1>5, <1>6

(* The backbone only grows, by existing resources.                         *)
LEMMA BackboneGrows ==
  ASSUME NEW known, NEW selectors, NEW resources, NEW grown \in FillBackbone(known, selectors, resources)
  PROVE  /\ grown = [s \in DOMAIN grown |-> grown[s]]
         /\ DOMAIN known \subseteq DOMAIN grown
         /\ \A s \in DOMAIN known : grown[s] = known[s]
         /\ \A s \in DOMAIN grown \ DOMAIN known : grown[s] \in resources
<1> DEFINE found == {s \in selectors \ DOMAIN known : \E r \in resources : Check(s, r)}
           Chosen == {f \in [found -> resources] : \A s \in found : Check(s, f[s])}
           Grown(choice) == [s \in DOMAIN known \cup found |->
                               IF s \in DOMAIN known THEN known[s] ELSE choice[s]]
<1>1. PICK choice \in Chosen : grown = Grown(choice)
  BY DEF FillBackbone
<1>2. choice \in [found -> resources]
  OBVIOUS
<1> HIDE DEF found, Chosen
<1> QED BY <1>1, <1>2

-----------------------------------------------------------------------------
(* The types.                                                              *)

LEMMA KeysAreTheirs ==
  ASSUME NEW k \in Keys
  PROVE  k = <<k[1], k[2]>> /\ k[1] \in Kinds /\ k[2] \in Namespaces \cup {Unset}
BY DEF Keys

LEMMA KeysOfAreKeys ==
  ASSUME NEW resources, resources \subseteq Kinds, NEW spaces, spaces \subseteq Namespaces \cup {Unset}
  PROVE  KeysOf(resources, spaces) \subseteq Keys
BY DEF KeysOf, Keys

LEMMA RevisionType ==
  ASSUME ClusterAssumption, TypeOK, NEW group, NEW source, source \subseteq Kinds, Revision(group, source)
  PROVE  /\ served' \subseteq Kinds /\ indexed' \subseteq Kinds
         /\ backbone' = [s \in DOMAIN backbone' |-> backbone'[s]]
         /\ PeeringResources' \subseteq Kinds
         /\ PeeringResources \subseteq PeeringResources'
<1> DEFINE all == Indexed \cup Handled
<1>1. served' \subseteq Kinds
  <2>1. PICK order \in SetToSeqs(all) :
          served' = ReviseResources(served, all, Handled, group, source, order)
    BY DEF Revision
  <2>2. order \in Seq(all)
    BY OrdersAreSequences
  <2>3. served' \subseteq UpdateResources(served, all, group, source)
    BY <2>1, <2>2, RevisionIsKnown
  <2>4. UpdateResources(served, all, group, source) \subseteq served \cup source
    BY UpdateIsKnown
  <2> QED BY <2>3, <2>4 DEF TypeOK
<1>2. indexed' \subseteq Kinds
  <2>1. UpdateResources(indexed, Indexed, group, source) \subseteq indexed \cup source
    BY UpdateIsKnown
  <2> QED BY <2>1 DEF Revision, TypeOK
<1>3. backbone' \in FillBackbone(backbone, Peerings, source)
  BY DEF Revision
<1>4. /\ backbone' = [s \in DOMAIN backbone' |-> backbone'[s]]
      /\ DOMAIN backbone \subseteq DOMAIN backbone'
      /\ \A s \in DOMAIN backbone : backbone'[s] = backbone[s]
      /\ \A s \in DOMAIN backbone' \ DOMAIN backbone : backbone'[s] \in source
  BY <1>3, BackboneGrows
<1>5. \A s \in DOMAIN backbone : backbone[s] \in Kinds
  BY DEF TypeOK, PeeringResources
<1>6. PeeringResources' \subseteq Kinds /\ PeeringResources \subseteq PeeringResources'
  BY <1>4, <1>5 DEF PeeringResources
<1> QED BY <1>1, <1>2, <1>4, <1>6
LEMMA SamePeeringResources ==
  ASSUME backbone' = backbone
  PROVE  PeeringResources' = PeeringResources
BY DEF PeeringResources

LEMMA EnvironmentTypeOK ==
  ASSUME ClusterAssumption, TypeOK, Environment
  PROVE  TypeOK'
<1> USE SamePeeringResources DEF TypeOK, MayChange, clusterVars, observerVars, insightVars, ensembleVars, indexVars
<1>1. ASSUME NEW r \in Kinds, ChangeResource(r) PROVE TypeOK'
  BY <1>1 DEF ChangeResource
<1>2. ASSUME NEW n \in Namespaces, ChangeNamespace(n) PROVE TypeOK'
  <2>1. PICK state \in NextSpace(space[n]) :
          /\ space' = [space EXCEPT ![n] = state]
          /\ nameEvents' = IF names = "watching" THEN [nameEvents EXCEPT ![n] = Append(@, state)]
                             ELSE nameEvents
    BY <1>2 DEF ChangeNamespace
  <2>2. state \in Spaces
    BY DEF NextSpace, Spaces
  <2>3. Append(nameEvents[n], state) \in Seq(Spaces)
    BY <2>2
  <2>4. space' \in [Namespaces -> Spaces] /\ nameEvents' \in [Namespaces -> Seq(Spaces)]
    BY <2>1, <2>2, <2>3
  <2> QED BY <1>2, <2>4 DEF ChangeNamespace
<1>3. ASSUME NEW k \in Keys, AddObject(k) PROVE TypeOK'
  <2>1. ObjectToggle(k) \in TogglesOf(Keys)
    BY DEF TogglesOf
  <2> QED BY <1>3, <2>1 DEF AddObject, NewStream
<1>4. ASSUME NEW k \in Keys, RaiseConflict(k) PROVE TypeOK'
  BY <1>4 DEF RaiseConflict
<1>5. ASSUME LoseResources \/ LoseNamespaces PROVE TypeOK'
  BY <1>5 DEF LoseResources, LoseNamespaces
<1>6. ASSUME CancelOrchestrator PROVE TypeOK'
  BY <1>6 DEF CancelOrchestrator
<1> QED BY <1>1, <1>2, <1>3, <1>4, <1>5, <1>6 DEF Environment

LEMMA ReviseTypeOK ==
  ASSUME ClusterAssumption, TypeOK, Revise
  PROVE  TypeOK'
<1> USE DEF TypeOK, clusterVars, observerVars, insightVars, ensembleVars, indexVars
<1>1. ASSUME NEW x \in scans, FirstRevision(x) \/ ReviseGroup(x) PROVE TypeOK'
  <2>1. PICK group : Revision(group, x.found)
    BY <1>1 DEF FirstRevision, ReviseGroup
  <2>2. /\ served' \subseteq Kinds /\ indexed' \subseteq Kinds
        /\ backbone' = [s \in DOMAIN backbone' |-> backbone'[s]]
        /\ PeeringResources' \subseteq Kinds
    BY <2>1, RevisionType
  <2> QED BY <1>1, <2>2 DEF FirstRevision, ReviseGroup
<1>2. ASSUME FirstNamespaces PROVE TypeOK'
  BY <1>2, SamePeeringResources DEF FirstNamespaces
<1>3. ASSUME AssumeNamespaces PROVE TypeOK'
  <2>1. namespaces' \subseteq Namespaces \cup {Unset}
    BY <1>3 DEF AssumeNamespaces, ClusterAssumption
  <2> QED BY <1>3, <2>1, SamePeeringResources DEF AssumeNamespaces
<1>4. ASSUME NEW n \in Namespaces, NoticeNamespace(n) PROVE TypeOK'
  <2>1. namespaces' \subseteq Namespaces \cup {Unset}
    BY <1>4 DEF NoticeNamespace, ReviseNamespace
  <2>2. Tail(nameEvents[n]) \in Seq(Spaces)
    BY <1>4 DEF NoticeNamespace
  <2> QED BY <1>4, <2>1, <2>2, SamePeeringResources DEF NoticeNamespace
<1> QED BY <1>1, <1>2, <1>3, <1>4 DEF Revise

LEMMA ObserveTypeOK ==
  ASSUME ClusterAssumption, TypeOK, Observe
  PROVE  TypeOK'
<1> USE SamePeeringResources DEF TypeOK, clusterVars, observerVars, insightVars, ensembleVars, indexVars
<1>1. ASSUME ScanResources PROVE TypeOK'
  BY <1>1 DEF ScanResources, Response
<1>2. ASSUME ListResources \/ ListNamespaces \/ RelistNamespaces PROVE TypeOK'
  BY <1>2 DEF ListResources, ListNamespaces, RelistNamespaces
<1>3. ASSUME NEW r \in Kinds, ScanGroup(r) PROVE TypeOK'
  BY <1>3 DEF ScanGroup, Response
<1> QED BY <1>1, <1>2, <1>3, ReviseTypeOK DEF Observe

LEMMA OrchestrateTypeOK ==
  ASSUME ClusterAssumption, TypeOK, Orchestrate
  PROVE  TypeOK'
<1> USE SamePeeringResources DEF TypeOK, clusterVars, observerVars, insightVars, ensembleVars, indexVars
<1>1. ASSUME BeginAdjusting PROVE TypeOK'
  BY <1>1 DEF BeginAdjusting, EnsembleKeys
<1>2. ASSUME DropRedundant PROVE TypeOK'
  <2>1. toggles' \subseteq toggles \cup {Leftover}
    BY <1>2 DEF DropRedundant, LeaveToggles
  <2> QED BY <1>2, <2>1 DEF DropRedundant
<1>3. ASSUME SpawnPeerings \/ BlockReadiness PROVE TypeOK'
  <2>1. KeysOf(PeeringResources, namespaces) \subseteq Keys
    BY KeysOfAreKeys
  <2>2. MissingWatchers \subseteq Keys
    BY KeysOfAreKeys DEF MissingWatchers
  <2>3. first' \subseteq Keys
    BY <1>3, <2>2 DEF SpawnPeerings, BlockReadiness
  <2> HIDE DEF PeeringResources
  <2> QED BY <1>3, <2>1, <2>3 DEF SpawnPeerings, BlockReadiness, OrchestrationBlocker
<1>4. ASSUME EndAdjusting \/ CloseOrchestrator PROVE TypeOK'
  BY <1>4 DEF EndAdjusting, CloseOrchestrator
<1>5. ASSUME NEW k \in Keys, SpawnWatcher(k) PROVE TypeOK'
  <2>1. ListToggle(k) \in TogglesOf(Keys)
    BY DEF TogglesOf
  <2> QED BY <1>5, <2>1 DEF SpawnWatcher
<1> QED BY <1>1, <1>2, <1>3, <1>4, <1>5 DEF Orchestrate

LEMMA ServeTypeOK ==
  ASSUME ClusterAssumption, TypeOK, NEW k \in Keys, Serve(k)
  PROVE  TypeOK'
<1> USE SamePeeringResources DEF TypeOK, clusterVars, observerVars, insightVars, ensembleVars, indexVars
<1>1. ASSUME FindObject(k) PROVE TypeOK'
  <2>1. ObjectToggle(k) \in TogglesOf(Keys)
    BY DEF TogglesOf
  <2> QED BY <1>1, <2>1 DEF FindObject, NewStream
<1>2. ASSUME EndListing(k) PROVE TypeOK'
  BY <1>2 DEF EndListing
<1>3. ASSUME IndexObject(k) \/ HandleObject(k) PROVE TypeOK'
  BY <1>3 DEF IndexObject, HandleObject
<1>4. ASSUME EndWatcher(k) \/ FailWatcher(k) PROVE TypeOK'
  <2>1. /\ watcher' \in [Keys -> {"none", "new", "listed", "cancelled", "ended", "failed"}]
        /\ object' \in [Keys -> {"none", "found", "added", "waiting", "handled", "killed"}]
    BY <1>4 DEF EndWatcher, FailWatcher, KillWorkers
  <2> QED BY <1>4, <2>1 DEF EndWatcher, FailWatcher
<1>5. ASSUME FailPeering(k) \/ ResolveConflict(k) PROVE TypeOK'
  BY <1>5 DEF FailPeering, ResolveConflict
<1> QED BY <1>1, <1>2, <1>3, <1>4, <1>5 DEF Serve

LEMMA NextTypeOK ==
  ASSUME ClusterAssumption, TypeOK, [Next]_vars
  PROVE  TypeOK'
<1>1. ASSUME UNCHANGED vars PROVE TypeOK'
  BY <1>1, SamePeeringResources DEF vars, TypeOK
<1> QED BY <1>1, EnvironmentTypeOK, ObserveTypeOK, OrchestrateTypeOK, ServeTypeOK DEF Next
-----------------------------------------------------------------------------
(* The observation of the namespaces.                                      *)

LEMMA NextNamesInOrder ==
  ASSUME ClusterAssumption, TypeOK, NamesInOrder, [Next]_vars
  PROVE  NamesInOrder'
<1> USE DEF clusterVars, observerVars, insightVars, ensembleVars, indexVars
<1>1. ASSUME UNCHANGED <<names, namespaces, nameEvents>> PROVE NamesInOrder'
  BY <1>1 DEF NamesInOrder
<1>2. ASSUME NEW r \in Kinds, ChangeResource(r) \/ ScanGroup(r) PROVE NamesInOrder'
  BY <1>1, <1>2 DEF ChangeResource, ScanGroup
<1>3. ASSUME NEW n \in Namespaces, ChangeNamespace(n) PROVE NamesInOrder'
  BY <1>3 DEF ChangeNamespace, NamesInOrder
<1>4. ASSUME NEW k \in Keys, AddObject(k) \/ RaiseConflict(k) \/ Serve(k) \/ SpawnWatcher(k)
      PROVE  NamesInOrder'
  BY <1>1, <1>4 DEF AddObject, RaiseConflict, Serve, FindObject, EndListing, IndexObject, HandleObject, EndWatcher,
     FailWatcher, FailPeering, ResolveConflict, SpawnWatcher
<1>5. ASSUME LoseResources \/ CancelOrchestrator \/ ScanResources \/ ListResources \/ BeginAdjusting
             \/ DropRedundant \/ SpawnPeerings \/ BlockReadiness \/ EndAdjusting \/ CloseOrchestrator
      PROVE  NamesInOrder'
  BY <1>1, <1>5 DEF LoseResources, CancelOrchestrator, ScanResources, ListResources, BeginAdjusting,
     DropRedundant, SpawnPeerings, BlockReadiness, EndAdjusting, CloseOrchestrator
<1>6. ASSUME LoseNamespaces \/ ListNamespaces \/ RelistNamespaces PROVE NamesInOrder'
  BY <1>6 DEF LoseNamespaces, ListNamespaces, RelistNamespaces, NamesInOrder
<1>7. ASSUME NEW x \in scans, FirstRevision(x) \/ ReviseGroup(x) PROVE NamesInOrder'
  BY <1>1, <1>7 DEF FirstRevision, ReviseGroup
<1>8. ASSUME FirstNamespaces PROVE NamesInOrder'
  BY <1>8 DEF FirstNamespaces, NamesInOrder, ClusterAssumption
<1>9. ASSUME AssumeNamespaces PROVE NamesInOrder'
  BY <1>9 DEF AssumeNamespaces, NamesInOrder
<1>10. ASSUME NEW n \in Namespaces, NoticeNamespace(n) PROVE NamesInOrder'
  <2>1. names \notin {"listing", "revising", "assumed"}
    BY <1>10 DEF NoticeNamespace, NamesInOrder
  <2>2. Unset \in namespaces' => Unset \in namespaces
    BY <1>10 DEF NoticeNamespace, ReviseNamespace, ClusterAssumption
  <2> QED BY <1>10, <2>1, <2>2 DEF NoticeNamespace, NamesInOrder
<1> QED BY <1>1, <1>2, <1>3, <1>4, <1>5, <1>6, <1>7, <1>8, <1>9, <1>10
        DEF Next, Environment, Observe, Revise, Orchestrate, vars

LEMMA LastOfAppended ==
  ASSUME NEW S, NEW seq \in Seq(S), NEW e
  PROVE  Append(seq, e) # <<>> /\ Last(Append(seq, e)) = e
<1>1. Len(seq) \in Nat /\ Len(Append(seq, e)) = Len(seq) + 1 /\ Append(seq, e)[Len(seq) + 1] = e
  OBVIOUS
<1>2. Len(<<>>) = 0
  OBVIOUS
<1> QED BY <1>1, <1>2 DEF Last

LEMMA LastOfTail ==
  ASSUME NEW S, NEW seq \in Seq(S), seq # <<>>
  PROVE  IF Tail(seq) = <<>> THEN Head(seq) = Last(seq) ELSE Last(Tail(seq)) = Last(seq)
<1>1. Len(seq) \in Nat /\ Len(seq) > 0 /\ Head(seq) = seq[1]
  BY EmptySeq
<1>2. /\ Tail(seq) \in Seq(S) /\ Len(Tail(seq)) = Len(seq) - 1
      /\ \A i \in 1..Len(Tail(seq)) : Tail(seq)[i] = seq[i + 1]
  BY HeadTailProperties
<1>3. CASE Len(seq) = 1
  <2>1. Tail(seq) = <<>>
    <3> DEFINE t == Tail(seq)
    <3>1. t \in Seq(S) /\ Len(t) = 0
      BY <1>2, <1>3
    <3> HIDE DEF t
    <3>2. t = <<>>
      BY <3>1, EmptySeq
    <3> QED BY <3>2 DEF t
  <2> QED BY <1>1, <1>3, <2>1 DEF Last
<1>4. CASE Len(seq) # 1
  <2>1. Len(seq) - 1 \in 1..Len(Tail(seq)) /\ Len(Tail(seq)) # 0
    BY <1>1, <1>2, <1>4
  <2>2. Tail(seq) # <<>>
    BY <2>1, EmptySeq
  <2>3. Tail(seq)[Len(seq) - 1] = seq[Len(seq)]
    BY <1>1, <1>2, <2>1
  <2> QED BY <1>2, <2>2, <2>3 DEF Last
<1> QED BY <1>3, <1>4

(* A change of a namespace, its listing or its event: what is known of it. *)
LEMMA NextNamespacesAreKnown ==
  ASSUME ClusterAssumption, TypeOK, NamesInOrder, NamespacesAreKnown, [Next]_vars
  PROVE  NamespacesAreKnown'
<1> USE DEF clusterVars, observerVars, insightVars, ensembleVars, indexVars
<1>1. ASSUME UNCHANGED <<names, namespaces, nameEvents, listing, space>>,
             \A n \in Namespaces : SpaceOf(n) \notin overlooked' => SpaceOf(n) \notin overlooked
      PROVE  NamespacesAreKnown'
  BY <1>1 DEF NamespacesAreKnown, IsNamed, FollowsSpace
<1>2. ASSUME NEW r \in Kinds, ChangeResource(r) \/ ScanGroup(r) PROVE NamespacesAreKnown'
  BY <1>1, <1>2 DEF ChangeResource, ScanGroup, SpaceOf, GroupOf
<1>3. ASSUME NEW n \in Namespaces, ChangeNamespace(n) PROVE NamespacesAreKnown'
  <2>1. SUFFICES ASSUME NEW m \in Namespaces, SpaceOf(m) \notin overlooked' PROVE IsNamed(m)'
    BY DEF NamespacesAreKnown
  <2>2. SpaceOf(m) \notin overlooked /\ (m = n => names \notin {"revising", "relisting"})
    BY <1>3, <2>1 DEF ChangeNamespace
  <2>3. IsNamed(m)
    BY <2>2 DEF NamespacesAreKnown
  <2>4. names' = names /\ namespaces' = namespaces /\ listing' = listing
    BY <1>3 DEF ChangeNamespace
  <2>5. PICK state \in NextSpace(space[n]) :
          /\ space' = [space EXCEPT ![n] = state]
          /\ nameEvents' = IF names = "watching" THEN [nameEvents EXCEPT ![n] = Append(@, state)]
                             ELSE nameEvents
    BY <1>3 DEF ChangeNamespace
  <2>6. CASE m # n
    <3>1. space'[m] = space[m] /\ nameEvents'[m] = nameEvents[m]
      BY <2>5, <2>6 DEF TypeOK
    <3> QED BY <2>3, <2>4, <3>1 DEF IsNamed, FollowsSpace
  <2>7. CASE m = n
    <3>1. names = "watching" => /\ nameEvents'[m] = Append(nameEvents[m], state)
                                /\ space'[m] = state
      BY <2>5, <2>7 DEF TypeOK
    <3>2. nameEvents[m] \in Seq(Spaces)
      BY DEF TypeOK
    <3>3. Append(nameEvents[m], state) # <<>> /\ Last(Append(nameEvents[m], state)) = state
      BY <3>2, LastOfAppended
    <3> QED BY <2>2, <2>4, <2>7, <3>1, <3>3 DEF IsNamed
  <2> QED BY <2>6, <2>7
<1>4. ASSUME NEW k \in Keys, AddObject(k) \/ RaiseConflict(k) \/ Serve(k) \/ SpawnWatcher(k)
      PROVE  NamespacesAreKnown'
  BY <1>1, <1>4 DEF AddObject, RaiseConflict, Serve, FindObject, EndListing, IndexObject, HandleObject, EndWatcher,
     FailWatcher, FailPeering, ResolveConflict, SpawnWatcher
<1>5. ASSUME LoseResources \/ CancelOrchestrator \/ ScanResources \/ ListResources \/ BeginAdjusting
             \/ DropRedundant \/ SpawnPeerings \/ BlockReadiness \/ EndAdjusting \/ CloseOrchestrator
      PROVE  NamespacesAreKnown'
  BY <1>1, <1>5 DEF LoseResources, CancelOrchestrator, ScanResources, ListResources, BeginAdjusting,
     DropRedundant, SpawnPeerings, BlockReadiness, EndAdjusting, CloseOrchestrator
<1>6. ASSUME LoseNamespaces \/ RelistNamespaces PROVE NamespacesAreKnown'
  BY <1>6 DEF LoseNamespaces, RelistNamespaces, NamespacesAreKnown, IsNamed, FollowsSpace
<1>7. ASSUME ListNamespaces PROVE NamespacesAreKnown'
  BY <1>7 DEF ListNamespaces, NamespacesAreKnown, IsNamed
<1>8. ASSUME NEW x \in scans, FirstRevision(x) \/ ReviseGroup(x) PROVE NamespacesAreKnown'
  BY <1>1, <1>8 DEF FirstRevision, ReviseGroup
<1>9. ASSUME FirstNamespaces PROVE NamespacesAreKnown'
  <2>1. SUFFICES ASSUME NEW n \in Namespaces, SpaceOf(n) \notin overlooked' PROVE IsNamed(n)'
    BY DEF NamespacesAreKnown
  <2>2. listing[n] = space[n] /\ nameEvents[n] = <<>>
    BY <1>9, <2>1 DEF FirstNamespaces, NamespacesAreKnown, IsNamed, NamesInOrder
  <2>3. n \in namespaces' <=> n \in ReviseNamespace({}, n, space[n], Matched(n))
    BY <1>9, <2>2 DEF FirstNamespaces
  <2>4. FollowsSpace(n)'
    BY <1>9, <2>3 DEF FirstNamespaces, FollowsSpace, ReviseNamespace, IsDeleted, HasBlockers, Matched
  <2> QED BY <1>9, <2>2, <2>4 DEF FirstNamespaces, IsNamed
<1>10. ASSUME AssumeNamespaces PROVE NamespacesAreKnown'
  BY <1>10 DEF AssumeNamespaces, NamespacesAreKnown, IsNamed
<1>11. ASSUME NEW n \in Namespaces, NoticeNamespace(n) PROVE NamespacesAreKnown'
  <2>1. SUFFICES ASSUME NEW m \in Namespaces, SpaceOf(m) \notin overlooked' PROVE IsNamed(m)'
    BY DEF NamespacesAreKnown
  <2>2. /\ names' = names /\ space' = space /\ listing' = listing
        /\ names \notin {"listing", "revising", "assumed"}
        /\ namespaces' = ReviseNamespace(namespaces, n, Head(nameEvents[n]), Matched(n))
        /\ nameEvents' = [nameEvents EXCEPT ![n] = Tail(@)]
        /\ overlooked' = IF nameEvents[n] = <<space[n]>> THEN overlooked \ {SpaceOf(n)} ELSE overlooked
        /\ nameEvents[n] # <<>>
    BY <1>11 DEF NoticeNamespace, NamesInOrder
  <2>3. CASE m # n
    <3>1. SpaceOf(m) # SpaceOf(n)
      BY <2>3 DEF SpaceOf
    <3>2. IsNamed(m)
      BY <2>1, <2>2, <3>1 DEF NamespacesAreKnown
    <3>3. nameEvents'[m] = nameEvents[m] /\ (m \in namespaces' <=> m \in namespaces)
      BY <2>2, <2>3 DEF TypeOK, ReviseNamespace
    <3> QED BY <2>2, <3>2, <3>3 DEF IsNamed, FollowsSpace, Matched
  <2>4. CASE m = n
    <3>1. nameEvents[n] \in Seq(Spaces) /\ nameEvents'[m] = Tail(nameEvents[n])
      BY <2>2, <2>4 DEF TypeOK
    <3>2. nameEvents[n] = <<space[n]>> \/ Last(nameEvents[n]) = space[n]
      <4>1. CASE SpaceOf(n) \in overlooked
        BY <2>1, <2>2, <2>4, <4>1
      <4>2. CASE SpaceOf(n) \notin overlooked
        <5>1. IsNamed(n) /\ names \in {"relisting", "watching"}
          BY <2>2, <4>2 DEF NamespacesAreKnown, TypeOK
        <5> QED BY <2>2, <5>1 DEF IsNamed
      <4> QED BY <4>1, <4>2
    <3>3. Last(nameEvents[n]) = space[n]
      BY <3>2 DEF Last
    <3>4. CASE Tail(nameEvents[n]) = <<>>
      <4>1. Head(nameEvents[n]) = space[n]
        BY <2>2, <3>1, <3>3, <3>4, LastOfTail
      <4>2. FollowsSpace(m)'
        BY <2>2, <2>4, <4>1 DEF FollowsSpace, ReviseNamespace, IsDeleted, HasBlockers, Matched
      <4> QED BY <2>2, <3>1, <3>4, <4>2 DEF IsNamed
    <3>5. CASE Tail(nameEvents[n]) # <<>>
      <4>1. Last(Tail(nameEvents[n])) = space[n]
        BY <2>2, <3>1, <3>3, <3>5, LastOfTail
      <4> QED BY <2>2, <2>4, <3>1, <3>5, <4>1 DEF IsNamed
    <3> QED BY <3>4, <3>5
  <2> QED BY <2>3, <2>4
<1> QED BY <1>1, <1>2, <1>3, <1>4, <1>5, <1>6, <1>7, <1>8, <1>9, <1>10, <1>11
        DEF Next, Environment, Observe, Revise, Orchestrate, vars
-----------------------------------------------------------------------------
(* The observation of the resources.                                       *)

LEMMA ScansAreDistinct ==
  /\ \A r \in Kinds : ScanOf(r) # FirstScan
  /\ \A r, s \in Kinds : ScanOf(r) = ScanOf(s) => r = s
<1>1. ASSUME NEW r \in Kinds PROVE ScanOf(r) # FirstScan
  <2>1. ScanOf(r).by = {r} /\ FirstScan.by = {}
    BY DEF ScanOf, FirstScan
  <2> QED BY <2>1
<1>2. ASSUME NEW r \in Kinds, NEW s \in Kinds, ScanOf(r) = ScanOf(s) PROVE r = s
  <2>1. ScanOf(r).by = {r} /\ ScanOf(s).by = {s}
    BY DEF ScanOf
  <2> QED BY <1>2, <2>1
<1> QED BY <1>1, <1>2

LEMMA NextScansInOrder ==
  ASSUME ClusterAssumption, TypeOK, ScansInOrder, [Next]_vars
  PROVE  ScansInOrder'
<1> USE DEF clusterVars, observerVars, insightVars, ensembleVars, indexVars
<1>1. ASSUME UNCHANGED <<crds, crdEvents, scans>> PROVE ScansInOrder'
  BY <1>1 DEF ScansInOrder
<1>2. ASSUME NEW r \in Kinds, ChangeResource(r) PROVE ScansInOrder'
  BY <1>2 DEF ChangeResource, ScansInOrder
<1>3. ASSUME NEW k \in Keys, AddObject(k) \/ RaiseConflict(k) \/ Serve(k) \/ SpawnWatcher(k)
      PROVE  ScansInOrder'
  BY <1>1, <1>3 DEF AddObject, RaiseConflict, Serve, FindObject, EndListing, IndexObject, HandleObject, EndWatcher,
     FailWatcher, FailPeering, ResolveConflict, SpawnWatcher
<1>4. ASSUME LoseNamespaces \/ CancelOrchestrator \/ BeginAdjusting \/ DropRedundant \/ SpawnPeerings
             \/ BlockReadiness \/ EndAdjusting \/ CloseOrchestrator \/ ListNamespaces \/ RelistNamespaces
             \/ FirstNamespaces \/ AssumeNamespaces
      PROVE  ScansInOrder'
  BY <1>1, <1>4 DEF LoseNamespaces, CancelOrchestrator, BeginAdjusting, DropRedundant, SpawnPeerings,
     BlockReadiness, EndAdjusting, CloseOrchestrator, ListNamespaces, RelistNamespaces, FirstNamespaces, AssumeNamespaces
<1>5. ASSUME NEW n \in Namespaces, ChangeNamespace(n) \/ NoticeNamespace(n) PROVE ScansInOrder'
  BY <1>1, <1>5 DEF ChangeNamespace, NoticeNamespace
<1>6. ASSUME LoseResources \/ ListResources PROVE ScansInOrder'
  BY <1>6 DEF LoseResources, ListResources, ScansInOrder
<1>7. ASSUME ScanResources PROVE ScansInOrder'
  BY <1>7 DEF ScanResources, ScansInOrder, Response
<1>8. ASSUME NEW r \in Kinds, ScanGroup(r) PROVE ScansInOrder'
  <2> DEFINE fresh == Response(ScanOf(r), {s \in existing : Traits[s].group = Traits[r].group})
  <2>1. scans' = scans \cup {fresh} /\ crds' = crds /\ crdEvents' = crdEvents \ {r} /\ r \in crdEvents
    BY <1>8 DEF ScanGroup
  <2>2. fresh.scan = ScanOf(r) /\ \A s \in fresh.found : Traits[s].group = Traits[r].group
    BY DEF Response
  <2>3. \A x \in scans : x.scan # ScanOf(r)
    BY <1>8 DEF ScanGroup, IsAsking
  <2>4. crds \notin {"scanning", "revising"}
    BY <2>1 DEF ScansInOrder
  <2> HIDE DEF fresh
  <2> QED BY <2>1, <2>2, <2>3, <2>4 DEF ScansInOrder
<1>9. ASSUME NEW x \in scans, FirstRevision(x) PROVE ScansInOrder'
  BY <1>9 DEF FirstRevision, ScansInOrder
<1>10. ASSUME NEW x \in scans, ReviseGroup(x) PROVE ScansInOrder'
  BY <1>10 DEF ReviseGroup, ScansInOrder
<1> QED BY <1>1, <1>2, <1>3, <1>4, <1>5, <1>6, <1>7, <1>8, <1>9, <1>10
        DEF Next, Environment, Observe, Revise, Orchestrate, vars

LEMMA SameAreKnown ==
  ASSUME ResourcesAreKnown, UNCHANGED <<crds, crdEvents, scans, served, existing>>,
         \A r \in Kinds : GroupOf(r) \notin overlooked' => GroupOf(r) \notin overlooked
  PROVE  ResourcesAreKnown'
BY DEF ResourcesAreKnown, IsKnown, IsAsking, IsServedRightly, IsUnrivalled, IsMeant

(* The revision after the first scan, or after a scan of a group.          *)
LEMMA FirstRevisionIsKnown ==
  ASSUME ClusterAssumption, TypeOK, ScansInOrder, ResourcesAreKnown,
         NEW x \in scans, FirstRevision(x)
  PROVE  ResourcesAreKnown'
<1>1. SUFFICES ASSUME NEW r \in Kinds, IsUnrivalled(r), GroupOf(r) \notin overlooked'
               PROVE  IsKnown(r)'
  BY DEF ResourcesAreKnown, IsUnrivalled
<1>2. crds = "revising" /\ crds' = "listing" /\ scans' = {} /\ existing' = existing
      /\ overlooked' = overlooked
  BY DEF FirstRevision, clusterVars
<1>3. r \in x.found <=> r \in existing
  BY <1>1, <1>2 DEF ResourcesAreKnown, IsKnown
<1>4. PICK order \in SetToSeqs(Indexed \cup Handled) :
        served' = ReviseResources(served, Indexed \cup Handled, Handled, Unset, x.found, order)
  BY DEF FirstRevision, Revision
<1>5. /\ r \in served' => r \in x.found /\ IsMeant(r)
      /\ r \in x.found /\ IsMeant(r) /\ IsSuitable(r) => r \in served'
  <2>1. order \in Seq(Indexed \cup Handled)
    BY OrdersAreSequences
  <2>2. served \subseteq Kinds /\ x.found \subseteq Kinds /\ Unset \in {Unset, Traits[r].group}
    BY DEF TypeOK
  <2> QED BY <1>1, <1>4, <2>1, <2>2, RevisionOfItsGroup, Zenon
<1>6. IsServedRightly(r)'
  BY <1>2, <1>3, <1>5 DEF IsServedRightly, IsMeant
<1> QED BY <1>2, <1>6 DEF IsKnown, IsAsking

LEMMA ReviseGroupIsKnown ==
  ASSUME ClusterAssumption, TypeOK, ScansInOrder, ResourcesAreKnown,
         NEW x \in scans, ReviseGroup(x)
  PROVE  ResourcesAreKnown'
<1>1. SUFFICES ASSUME NEW r \in Kinds, IsUnrivalled(r), GroupOf(r) \notin overlooked'
               PROVE  IsKnown(r)'
  BY DEF ResourcesAreKnown, IsUnrivalled
<1>2. /\ crds' = crds /\ crdEvents' = crdEvents /\ scans' = scans \ {x} /\ existing' = existing
      /\ overlooked' = overlooked /\ x.scan # FirstScan
  BY DEF ReviseGroup, clusterVars
<1>3. IsKnown(r)
  BY <1>1, <1>2 DEF ResourcesAreKnown
<1>4. PICK order \in SetToSeqs(Indexed \cup Handled) :
        served' = ReviseResources(served, Indexed \cup Handled, Handled, x.scan.group, x.found, order)
  BY DEF ReviseGroup, Revision
<1>5. order \in Seq(Indexed \cup Handled)
  BY OrdersAreSequences
<1>6. crds \notin {"scanning", "revising"}
  BY <1>2 DEF ScansInOrder
<1>7. PICK s \in Kinds : x.scan = ScanOf(s) /\ \A t \in x.found : Traits[t].group = Traits[s].group
  BY <1>6 DEF ScansInOrder
<1>8. x.scan.group = Traits[s].group /\ x.found \subseteq Kinds /\ served \subseteq Kinds
  BY <1>7 DEF ScanOf, TypeOK
<1>9. CASE s = r
  <2>1. /\ r \in served' => r \in x.found /\ IsMeant(r)
        /\ r \in x.found /\ IsMeant(r) /\ IsSuitable(r) => r \in served'
    <3>1. x.scan.group \in {Unset, Traits[r].group}
      BY <1>8, <1>9
    <3> QED BY <1>1, <1>4, <1>5, <1>8, <3>1, RevisionOfItsGroup, Zenon
  <2>2. ~IsAsking(r)'
    BY <1>2, <1>7, <1>9 DEF ScansInOrder, IsAsking, ScanOf
  <2>3. crds \in {"listing", "watching"} /\ r \notin crdEvents => (r \in x.found <=> r \in existing)
    BY <1>3, <1>7, <1>9 DEF IsKnown, IsAsking
  <2>4. crds \in {"listing", "watching"} /\ r \notin crdEvents => IsServedRightly(r)'
    BY <1>2, <2>1, <2>3 DEF IsServedRightly, IsMeant
  <2> QED BY <1>2, <1>6, <2>2, <2>4 DEF IsKnown
<1>10. CASE s # r
  <2>1. Traits[s].group # Traits[r].group /\ Traits[s].group # Unset
    BY <1>1, <1>10 DEF IsUnrivalled, ClusterAssumption
  <2>2. r \notin x.found
    BY <1>7, <2>1
  <2>3. /\ r \in served' => r \in served
        /\ r \in served /\ IsSuitable(r) => r \in served'
    <3>1. x.scan.group \notin {Unset, Traits[r].group}
      BY <1>8, <2>1
    <3> QED BY <1>1, <1>4, <1>5, <1>8, <2>2, <3>1, RevisionOfOthers, Zenon
  <2>4. IsServedRightly(r) => IsServedRightly(r)'
    BY <1>2, <2>3 DEF IsServedRightly, IsMeant
  <2>5. IsAsking(r)' <=> IsAsking(r)
    BY <1>2, <1>7, <1>10, ScansAreDistinct DEF IsAsking, ScanOf
  <2> QED BY <1>2, <1>3, <1>6, <2>4, <2>5 DEF IsKnown, ScanOf
<1> QED BY <1>9, <1>10

(* A resource comes or goes, or what is there is asked for.                *)
LEMMA NextResourcesAreKnown ==
  ASSUME ClusterAssumption, TypeOK, ScansInOrder, ResourcesAreKnown, [Next]_vars
  PROVE  ResourcesAreKnown'
<1> USE DEF clusterVars, observerVars, insightVars, ensembleVars, indexVars
<1>1. ASSUME NEW k \in Keys, AddObject(k) \/ RaiseConflict(k) \/ Serve(k) \/ SpawnWatcher(k)
      PROVE  ResourcesAreKnown'
  BY <1>1, SameAreKnown DEF AddObject, RaiseConflict, Serve, FindObject, EndListing, IndexObject, HandleObject,
     EndWatcher, FailWatcher, FailPeering, ResolveConflict, SpawnWatcher
<1>2. ASSUME LoseNamespaces \/ CancelOrchestrator \/ BeginAdjusting \/ DropRedundant \/ SpawnPeerings
             \/ BlockReadiness \/ EndAdjusting \/ CloseOrchestrator \/ ListNamespaces \/ RelistNamespaces
             \/ FirstNamespaces \/ AssumeNamespaces \/ UNCHANGED vars
      PROVE  ResourcesAreKnown'
  BY <1>2, SameAreKnown DEF LoseNamespaces, CancelOrchestrator, BeginAdjusting, DropRedundant,
     SpawnPeerings, BlockReadiness, EndAdjusting, CloseOrchestrator, ListNamespaces, RelistNamespaces, FirstNamespaces,
     AssumeNamespaces, vars
<1>3. ASSUME NEW n \in Namespaces, ChangeNamespace(n) \/ NoticeNamespace(n) PROVE ResourcesAreKnown'
  BY <1>3, SameAreKnown DEF ChangeNamespace, NoticeNamespace, GroupOf, SpaceOf
<1>4. ASSUME NEW r \in Kinds, ChangeResource(r) PROVE ResourcesAreKnown'
  <2>1. SUFFICES ASSUME NEW s \in Kinds, IsUnrivalled(s), GroupOf(s) \notin overlooked'
                 PROVE  IsKnown(s)'
    BY DEF ResourcesAreKnown, IsUnrivalled
  <2>2. /\ crds' = crds /\ scans' = scans /\ served' = served
        /\ existing' = IF r \in existing THEN existing \ {r} ELSE existing \cup {r}
        /\ crdEvents' = IF crds = "watching" THEN crdEvents \cup {r} ELSE crdEvents
        /\ GroupOf(s) \notin overlooked /\ (s = r => crds \notin {"revising", "listing"})
    BY <1>4, <2>1 DEF ChangeResource
  <2>3. IsKnown(s)
    BY <2>1, <2>2 DEF ResourcesAreKnown
  <2>4. CASE s = r
    <3>1. crds \notin {"revising", "listing"} /\ (crds = "watching" => s \in crdEvents')
      BY <2>2, <2>4
    <3> QED BY <2>2, <3>1 DEF IsKnown
  <2>5. CASE s # r
    <3>1. (s \in existing' <=> s \in existing) /\ (s \in crdEvents' <=> s \in crdEvents)
      BY <2>2, <2>5
    <3>2. (IsAsking(s)' <=> IsAsking(s)) /\ (IsServedRightly(s) => IsServedRightly(s)')
      BY <2>2, <3>1 DEF IsAsking, IsServedRightly, IsMeant
    <3> QED BY <2>2, <2>3, <3>1, <3>2 DEF IsKnown
  <2> QED BY <2>4, <2>5
<1>5. ASSUME LoseResources \/ ListResources PROVE ResourcesAreKnown'
  BY <1>5 DEF LoseResources, ListResources, ResourcesAreKnown, IsKnown, IsAsking, IsServedRightly,
     IsUnrivalled, IsMeant
<1>6. ASSUME ScanResources PROVE ResourcesAreKnown'
  BY <1>6 DEF ScanResources, Response, ResourcesAreKnown, IsKnown
<1>7. ASSUME NEW r \in Kinds, ScanGroup(r) PROVE ResourcesAreKnown'
  <2> DEFINE fresh == Response(ScanOf(r), {s \in existing : Traits[s].group = Traits[r].group})
  <2>1. /\ scans' = scans \cup {fresh} /\ crds' = crds /\ crdEvents' = crdEvents \ {r}
        /\ r \in crdEvents /\ existing' = existing /\ served' = served
        /\ overlooked' = overlooked \ {GroupOf(r)}
    BY <1>7 DEF ScanGroup
  <2>2. fresh.scan = ScanOf(r) /\ (r \in fresh.found <=> r \in existing)
    BY DEF Response
  <2>3. \A x \in scans : x.scan # ScanOf(r)
    BY <1>7 DEF ScanGroup, IsAsking
  <2>4. crds \notin {"scanning", "revising"}
    BY <2>1 DEF ScansInOrder
  <2> HIDE DEF fresh
  <2>5. SUFFICES ASSUME NEW s \in Kinds, IsUnrivalled(s), GroupOf(s) \notin overlooked'
                 PROVE  IsKnown(s)'
    BY DEF ResourcesAreKnown, IsUnrivalled
  <2>6. CASE s = r
    <3>1. IsAsking(s)'
      BY <2>1, <2>2, <2>6 DEF IsAsking, ScanOf
    <3>2. crds' # "revising" /\ existing' = existing /\ fresh \in scans'
      BY <2>1, <2>4
    <3>3. \A x \in scans' : x.scan = ScanOf(s) => x = fresh
      BY <2>1, <2>3, <2>6
    <3>4. \A x \in scans' : x.scan = ScanOf(s) => (s \in x.found <=> s \in existing')
      BY <2>2, <2>6, <3>2, <3>3
    <3> QED BY <3>1, <3>2, <3>4 DEF IsKnown, ScanOf
  <2>7. CASE s # r
    <3>1. GroupOf(s) # GroupOf(r)
      BY <2>5, <2>7 DEF GroupOf, IsUnrivalled
    <3>2. IsKnown(s)
      BY <2>1, <2>5, <3>1 DEF ResourcesAreKnown
    <3>3. (IsAsking(s)' <=> IsAsking(s)) /\ (IsServedRightly(s) => IsServedRightly(s)')
      BY <2>1, <2>2, <2>7, ScansAreDistinct DEF IsAsking, IsServedRightly, IsMeant, ScanOf
    <3>4. fresh.scan # ScanOf(s)
      BY <2>2, <2>7, ScansAreDistinct
    <3> QED BY <2>1, <2>4, <2>7, <3>2, <3>3, <3>4 DEF IsKnown, ScanOf
  <2> QED BY <2>6, <2>7
<1> QED BY <1>1, <1>2, <1>3, <1>4, <1>5, <1>6, <1>7, FirstRevisionIsKnown, ReviseGroupIsKnown
        DEF Next, Environment, Observe, Revise, Orchestrate
-----------------------------------------------------------------------------
(* The orchestration.                                                      *)

(* What the ensemble is compared to and consists of, whatever the watchers *)
(* and the peerings do on their own.                                       *)
SameEnsemble ==
  /\ UNCHANGED <<served, namespaces, backbone, revised, orchestrator, redundant, peering, missing>>
  /\ \A k \in Keys : watcher'[k] = "none" <=> watcher[k] = "none"

LEMMA OthersKeepEnsemble ==
  ASSUME TypeOK, [Next]_vars
  PROVE  SameEnsemble \/ Revise \/ Orchestrate \/ CancelOrchestrator
<1> USE DEF SameEnsemble, clusterVars, observerVars, insightVars, ensembleVars, indexVars
<1>1. ASSUME UNCHANGED vars PROVE SameEnsemble
  BY <1>1 DEF vars
<1>2. ASSUME NEW r \in Kinds, ChangeResource(r) \/ ScanGroup(r) PROVE SameEnsemble
  BY <1>2 DEF ChangeResource, ScanGroup
<1>3. ASSUME NEW n \in Namespaces, ChangeNamespace(n) PROVE SameEnsemble
  BY <1>3 DEF ChangeNamespace
<1>4. ASSUME LoseResources \/ LoseNamespaces \/ ScanResources \/ ListResources \/ ListNamespaces
             \/ RelistNamespaces
      PROVE  SameEnsemble
  BY <1>4 DEF LoseResources, LoseNamespaces, ScanResources, ListResources, ListNamespaces,
     RelistNamespaces
<1>5. ASSUME NEW k \in Keys, AddObject(k) \/ FindObject(k) \/ IndexObject(k) \/ HandleObject(k)
             \/ FailPeering(k) \/ RaiseConflict(k) \/ ResolveConflict(k)
      PROVE  SameEnsemble
  BY <1>5 DEF AddObject, FindObject, IndexObject, HandleObject, FailPeering, RaiseConflict,
     ResolveConflict
<1>6. ASSUME NEW k \in Keys, EndListing(k) \/ EndWatcher(k) \/ FailWatcher(k) PROVE SameEnsemble
  BY <1>6 DEF EndListing, EndWatcher, FailWatcher, TypeOK
<1> QED BY <1>1, <1>2, <1>3, <1>4, <1>5, <1>6 DEF Next, Environment, Observe, Serve

LEMMA SameKeys ==
  ASSUME TypeOK, SameEnsemble
  PROVE  /\ EnsembleKeys' = EnsembleKeys /\ Watched' = Watched
         /\ PeeringResources' = PeeringResources
         /\ \A k \in Keys : IsRemaining(k)' <=> IsRemaining(k)
BY DEF SameEnsemble, EnsembleKeys, Watched, PeeringResources, IsRemaining

(* A revision of the insights: only while the orchestrator waits, and it   *)
(* is told.                                                                *)
LEMMA RevisionsAreTold ==
  ASSUME ClusterAssumption, TypeOK, NamesInOrder, Revise
  PROVE  /\ orchestrator = "waiting" /\ orchestrator' = "waiting" /\ revised' = TRUE
         /\ PeeringResources \subseteq PeeringResources'
         /\ Unset \in namespaces => Unset \in namespaces'
         /\ UNCHANGED <<ensembleVars, indexVars>>
<1> USE DEF clusterVars, observerVars, insightVars, LockIsFree, Alive, NotifyRevised
<1>1. ASSUME NEW x \in scans, FirstRevision(x) \/ ReviseGroup(x)
      PROVE  /\ orchestrator = "waiting" /\ orchestrator' = "waiting" /\ revised' = TRUE
             /\ PeeringResources \subseteq PeeringResources' /\ namespaces' = namespaces
             /\ UNCHANGED <<ensembleVars, indexVars>>
  <2>1. PICK group : Revision(group, x.found)
    BY <1>1 DEF FirstRevision, ReviseGroup
  <2>2. PeeringResources \subseteq PeeringResources'
    BY <2>1, RevisionType DEF TypeOK
  <2>3. orchestrator = "waiting" /\ revised' = TRUE
    BY <2>1 DEF Revision
  <2> QED BY <1>1, <2>2, <2>3 DEF FirstRevision, ReviseGroup
<1>2. ASSUME FirstNamespaces \/ AssumeNamespaces \/ \E n \in Namespaces : NoticeNamespace(n)
      PROVE  /\ orchestrator = "waiting" /\ orchestrator' = "waiting" /\ revised' = TRUE
             /\ PeeringResources' = PeeringResources
             /\ UNCHANGED <<ensembleVars, indexVars>>
  BY <1>2, SamePeeringResources DEF FirstNamespaces, AssumeNamespaces, NoticeNamespace
<1>3. ASSUME FirstNamespaces \/ AssumeNamespaces PROVE Unset \notin namespaces
  BY <1>3 DEF FirstNamespaces, AssumeNamespaces, NamesInOrder
<1>4. ASSUME NEW n \in Namespaces, NoticeNamespace(n) PROVE Unset \in namespaces => Unset \in namespaces'
  BY <1>4 DEF NoticeNamespace, ReviseNamespace, ClusterAssumption
<1> QED BY <1>1, <1>2, <1>3, <1>4 DEF Revise

LEMMA KeysOfAreProper ==
  ASSUME NEW resources, NEW k \in KeysOf(resources, namespaces)
  PROVE  IsProper(k) /\ k[1] \in resources /\ k[2] \in namespaces \cup {Unset}
BY DEF KeysOf, IsProper

LEMMA NextKeysInOrder ==
  ASSUME ClusterAssumption, TypeOK, NamesInOrder, KeysInOrder, [Next]_vars
  PROVE  KeysInOrder'
<1> USE DEF clusterVars, observerVars, insightVars, ensembleVars, indexVars
<1>1. ASSUME SameEnsemble PROVE KeysInOrder'
  <2>1. namespaces' = namespaces /\ peering' = peering
    BY <1>1 DEF SameEnsemble
  <2> QED BY <1>1, <2>1, SameKeys DEF KeysInOrder, IsProper
<1>2. ASSUME Revise PROVE KeysInOrder'
  <2>1. /\ PeeringResources \subseteq PeeringResources'
        /\ Unset \in namespaces => Unset \in namespaces'
        /\ peering' = peering /\ watcher' = watcher
    BY <1>2, RevisionsAreTold
  <2> QED BY <2>1 DEF KeysInOrder, IsProper, EnsembleKeys
<1>3. ASSUME BeginAdjusting \/ DropRedundant \/ BlockReadiness \/ EndAdjusting
             \/ CancelOrchestrator \/ CloseOrchestrator
      PROVE  KeysInOrder'
  <2>1. PeeringResources' = PeeringResources /\ namespaces' = namespaces /\ peering' \subseteq peering
    BY <1>3, SamePeeringResources DEF BeginAdjusting, DropRedundant, BlockReadiness, EndAdjusting, CancelOrchestrator,
       CloseOrchestrator
  <2>2. \A k \in Keys : watcher[k] = "none" => watcher'[k] = "none"
    BY <1>3 DEF BeginAdjusting, DropRedundant, BlockReadiness, EndAdjusting, CancelOrchestrator, CloseOrchestrator
  <2> QED BY <2>1, <2>2 DEF KeysInOrder, IsProper, EnsembleKeys
<1>4. ASSUME SpawnPeerings PROVE KeysInOrder'
  <2>1. PeeringResources' = PeeringResources /\ namespaces' = namespaces /\ watcher' = watcher
        /\ peering' = peering \cup KeysOf(PeeringResources, namespaces)
    BY <1>4, SamePeeringResources DEF SpawnPeerings
  <2>2. \A k \in KeysOf(PeeringResources, namespaces) : IsProper(k) /\ k[1] \in PeeringResources
    BY KeysOfAreProper
  <2> QED BY <2>1, <2>2 DEF KeysInOrder, IsProper, EnsembleKeys
<1>5. ASSUME NEW k \in Keys, SpawnWatcher(k) PROVE KeysInOrder'
  <2>1. PeeringResources' = PeeringResources /\ namespaces' = namespaces /\ peering' = peering
        /\ watcher' = [watcher EXCEPT ![k] = "new"]
    BY <1>5, SamePeeringResources DEF SpawnWatcher
  <2>2. IsProper(k)
    BY <1>5, KeysOfAreProper DEF SpawnWatcher, MissingWatchers
  <2> QED BY <2>1, <2>2 DEF KeysInOrder, IsProper, EnsembleKeys, TypeOK
<1> QED BY <1>1, <1>2, <1>3, <1>4, <1>5, OthersKeepEnsemble DEF Orchestrate

LEMMA NextEnsembleInOrder ==
  ASSUME ClusterAssumption, TypeOK, NamesInOrder, EnsembleInOrder, [Next]_vars
  PROVE  EnsembleInOrder'
<1> USE DEF clusterVars, observerVars, insightVars, ensembleVars, indexVars
<1>1. ASSUME SameEnsemble PROVE EnsembleInOrder'
  <2>1. UNCHANGED <<served, namespaces, revised, orchestrator, redundant, peering, missing>>
    BY <1>1 DEF SameEnsemble
  <2>2. EnsembleKeys \subseteq Keys
    BY DEF EnsembleKeys, TypeOK
  <2>3. {k \in EnsembleKeys' : ~IsRemaining(k)'} = {k \in EnsembleKeys : ~IsRemaining(k)}
    BY <1>1, <2>2, SameKeys
  <2>4. Adjusted' <=> Adjusted
    BY <2>1 DEF Adjusted
  <2>5. EnsembleKeys' = EnsembleKeys /\ Watched' = Watched /\ PeeringResources' = PeeringResources
    BY <1>1, SameKeys
  <2>6. \A k \in EnsembleKeys : IsRemaining(k)' <=> IsRemaining(k)
    BY <1>1, <2>2, SameKeys
  <2> QED BY <2>1, <2>3, <2>4, <2>5, <2>6 DEF EnsembleInOrder
<1>2. ASSUME Revise PROVE EnsembleInOrder'
  BY <1>2, RevisionsAreTold DEF EnsembleInOrder, Adjusted
<1>3. ASSUME BeginAdjusting PROVE EnsembleInOrder'
  <2>1. /\ orchestrator' = "stopping" /\ missing' = (Mandatory /\ PeeringResources = {})
        /\ redundant' = {k \in EnsembleKeys : ~IsRemaining(k)}
        /\ peering' = peering
        /\ UNCHANGED <<served, namespaces, backbone>>
    BY <1>3 DEF BeginAdjusting
  <2>2. \A k \in Keys : watcher'[k] = "none" <=> watcher[k] = "none"
    BY <1>3 DEF BeginAdjusting
  <2>3. EnsembleKeys' = EnsembleKeys
    BY <2>1, <2>2 DEF EnsembleKeys
  <2>4. PeeringResources' = PeeringResources /\ \A k \in Keys : IsRemaining(k)' <=> IsRemaining(k)
    BY <2>1 DEF PeeringResources, IsRemaining
  <2>5. EnsembleKeys \subseteq Keys
    BY DEF EnsembleKeys, TypeOK
  <2> QED BY <2>1, <2>3, <2>4, <2>5 DEF EnsembleInOrder, Adjusted
<1>4. ASSUME DropRedundant PROVE EnsembleInOrder'
  <2>1. /\ orchestrator = "stopping" /\ orchestrator' = "peering" /\ missing' = missing
        /\ watcher' = [k \in Keys |-> IF k \in redundant THEN "none" ELSE watcher[k]]
        /\ peering' = peering \ redundant
        /\ UNCHANGED <<served, namespaces, backbone>>
    BY <1>4 DEF DropRedundant
  <2>2. EnsembleKeys' = EnsembleKeys \ redundant
    BY <2>1 DEF EnsembleKeys, TypeOK
  <2>3. PeeringResources' = PeeringResources /\ \A k \in Keys : IsRemaining(k)' <=> IsRemaining(k)
    BY <2>1 DEF PeeringResources, IsRemaining
  <2>4. EnsembleKeys \subseteq Keys
    BY DEF EnsembleKeys, TypeOK
  <2> QED BY <2>1, <2>2, <2>3, <2>4 DEF EnsembleInOrder, Adjusted
<1>5. ASSUME SpawnPeerings PROVE EnsembleInOrder'
  <2>1. /\ orchestrator = "peering" /\ orchestrator' = "blocking"
        /\ missing' = missing /\ watcher' = watcher
        /\ peering' = peering \cup KeysOf(PeeringResources, namespaces)
        /\ UNCHANGED <<served, namespaces, backbone>>
    BY <1>5 DEF SpawnPeerings
  <2>2. EnsembleKeys' = EnsembleKeys \cup KeysOf(PeeringResources, namespaces)
    BY <2>1 DEF EnsembleKeys
  <2>3. PeeringResources' = PeeringResources /\ \A k : IsRemaining(k)' <=> IsRemaining(k)
    BY <2>1 DEF PeeringResources, IsRemaining
  <2>4. \A k \in KeysOf(PeeringResources, namespaces) : IsRemaining(k)
    BY KeysOfAreProper DEF IsRemaining
  <2> QED BY <2>1, <2>2, <2>3, <2>4 DEF EnsembleInOrder, Adjusted
<1>6. ASSUME NEW k \in Keys, SpawnWatcher(k) PROVE EnsembleInOrder'
  <2>1. /\ orchestrator = "spawning" /\ orchestrator' = "spawning"
        /\ watcher' = [watcher EXCEPT ![k] = "new"]
        /\ UNCHANGED <<served, namespaces, backbone, peering, missing>>
    BY <1>6 DEF SpawnWatcher
  <2>2. EnsembleKeys' = EnsembleKeys \cup {k}
    BY <2>1 DEF EnsembleKeys, TypeOK
  <2>3. PeeringResources' = PeeringResources /\ \A l : IsRemaining(l)' <=> IsRemaining(l)
    BY <2>1 DEF PeeringResources, IsRemaining
  <2>4. IsRemaining(k)
    BY <1>6, KeysOfAreProper DEF SpawnWatcher, MissingWatchers, IsRemaining
  <2> QED BY <2>1, <2>2, <2>3, <2>4 DEF EnsembleInOrder, Adjusted
<1>7. ASSUME EndAdjusting PROVE EnsembleInOrder'
  <2>1. /\ orchestrator = "spawning" /\ orchestrator' = "waiting" /\ MissingWatchers = {}
        /\ UNCHANGED <<served, namespaces, backbone, peering, missing, watcher>>
    BY <1>7 DEF EndAdjusting
  <2>2. EnsembleKeys' = EnsembleKeys /\ Watched' = Watched
    BY <2>1 DEF EnsembleKeys, Watched
  <2>3. PeeringResources' = PeeringResources /\ \A l : IsRemaining(l)' <=> IsRemaining(l)
    BY <2>1 DEF PeeringResources, IsRemaining
  <2>4. KeysOf(served, namespaces) \subseteq Watched
    BY <2>1, KeysOfAreKeys DEF MissingWatchers, Watched, TypeOK
  <2> QED BY <2>1, <2>2, <2>3, <2>4 DEF EnsembleInOrder, Adjusted
<1>8. ASSUME BlockReadiness PROVE EnsembleInOrder'
  <2>1. /\ orchestrator = "blocking" /\ orchestrator' = "spawning"
        /\ UNCHANGED <<served, namespaces, backbone, peering, missing, watcher>>
    BY <1>8 DEF BlockReadiness
  <2>2. EnsembleKeys' = EnsembleKeys /\ PeeringResources' = PeeringResources
    BY <2>1 DEF EnsembleKeys, PeeringResources
  <2>3. \A l : IsRemaining(l)' <=> IsRemaining(l)
    BY <2>1, <2>2 DEF IsRemaining
  <2> QED BY <2>1, <2>2, <2>3 DEF EnsembleInOrder, Adjusted
<1>9. ASSUME CancelOrchestrator \/ CloseOrchestrator PROVE EnsembleInOrder'
  BY <1>9 DEF CancelOrchestrator, CloseOrchestrator, EnsembleInOrder, Adjusted
<1> QED BY <1>1, <1>2, <1>3, <1>4, <1>5, <1>6, <1>7, <1>8, <1>9, OthersKeepEnsemble DEF Orchestrate

LEMMA NextConflictsAreOwned ==
  ASSUME TypeOK, ConflictsAreOwned, [Next]_vars
  PROVE  ConflictsAreOwned'
<1> USE DEF clusterVars, observerVars, insightVars, ensembleVars, indexVars
<1>1. ASSUME UNCHANGED <<orchestrator, conflicts, peering>> PROVE ConflictsAreOwned'
  BY <1>1 DEF ConflictsAreOwned, Alive
<1>2. ASSUME NEW r \in Kinds, ChangeResource(r) \/ ScanGroup(r) PROVE ConflictsAreOwned'
  BY <1>1, <1>2 DEF ChangeResource, ScanGroup
<1>3. ASSUME NEW n \in Namespaces, ChangeNamespace(n) \/ NoticeNamespace(n) PROVE ConflictsAreOwned'
  BY <1>1, <1>3 DEF ChangeNamespace, NoticeNamespace
<1>4. ASSUME LoseResources \/ LoseNamespaces \/ ScanResources \/ ListResources \/ ListNamespaces
             \/ RelistNamespaces \/ FirstNamespaces \/ AssumeNamespaces \/ UNCHANGED vars
      PROVE  ConflictsAreOwned'
  BY <1>1, <1>4 DEF LoseResources, LoseNamespaces, ScanResources, ListResources, ListNamespaces,
     RelistNamespaces, FirstNamespaces, AssumeNamespaces, vars
<1>5. ASSUME NEW x \in scans, FirstRevision(x) \/ ReviseGroup(x) PROVE ConflictsAreOwned'
  BY <1>1, <1>5 DEF FirstRevision, ReviseGroup
<1>6. ASSUME NEW k \in Keys, AddObject(k) \/ FindObject(k) \/ IndexObject(k) \/ HandleObject(k)
             \/ EndListing(k) \/ EndWatcher(k) \/ FailWatcher(k) \/ SpawnWatcher(k)
      PROVE  ConflictsAreOwned'
  BY <1>1, <1>6 DEF AddObject, FindObject, IndexObject, HandleObject, EndListing, EndWatcher,
     FailWatcher, SpawnWatcher
<1>7. ASSUME NEW k \in Keys, FailPeering(k) \/ RaiseConflict(k) \/ ResolveConflict(k)
      PROVE  ConflictsAreOwned'
  BY <1>7 DEF FailPeering, RaiseConflict, ResolveConflict, ConflictsAreOwned, Alive
<1>8. ASSUME BeginAdjusting \/ BlockReadiness \/ EndAdjusting \/ CancelOrchestrator \/ CloseOrchestrator
      PROVE  ConflictsAreOwned'
  BY <1>8 DEF BeginAdjusting, BlockReadiness, EndAdjusting, CancelOrchestrator, CloseOrchestrator,
     ConflictsAreOwned, Alive
<1>9. ASSUME DropRedundant PROVE ConflictsAreOwned'
  BY <1>9 DEF DropRedundant, DropToggles, ConflictsAreOwned, Alive
<1>10. ASSUME SpawnPeerings PROVE ConflictsAreOwned'
  BY <1>10 DEF SpawnPeerings, ConflictsAreOwned, Alive
<1> QED BY <1>1, <1>2, <1>3, <1>4, <1>5, <1>6, <1>7, <1>8, <1>9, <1>10
        DEF Next, Environment, Observe, Revise, Orchestrate, Serve
-----------------------------------------------------------------------------
(* The readiness.                                                          *)

LEMMA TogglesAreDistinct ==
  /\ \A k : ListToggle(k) # Blocker /\ ObjectToggle(k) # Blocker
  /\ \A k, l : ListToggle(k) # ObjectToggle(l)
  /\ \A k, l : ListToggle(k) = ListToggle(l) => k = l
  /\ \A k, l : ObjectToggle(k) = ObjectToggle(l) => k = l
BY DEF Blocker, ListToggle, ObjectToggle

(* The steps that leave the readiness alone.                               *)
LEMMA SameFirst ==
  ASSUME FirstInOrder, UNCHANGED <<served, namespaces, indexed, orchestrator, watcher, indexVars>>
  PROVE  FirstInOrder'
BY DEF FirstInOrder, HoldsBack, IsOver, WasReady, MissingWatchers, indexVars

LEMMA OthersKeepFirst ==
  ASSUME TypeOK, FirstInOrder, [Next]_vars
  PROVE  FirstInOrder' \/ Revise \/ Orchestrate \/ CancelOrchestrator
         \/ \E k \in Keys : AddObject(k) \/ FindObject(k) \/ EndListing(k) \/ IndexObject(k)
                            \/ HandleObject(k) \/ EndWatcher(k) \/ FailWatcher(k)
<1> USE SameFirst DEF clusterVars, observerVars, insightVars, ensembleVars
<1>1. ASSUME UNCHANGED vars PROVE FirstInOrder'
  BY <1>1 DEF vars, indexVars
<1>2. ASSUME NEW r \in Kinds, ChangeResource(r) \/ ScanGroup(r) PROVE FirstInOrder'
  BY <1>2 DEF ChangeResource, ScanGroup
<1>3. ASSUME NEW n \in Namespaces, ChangeNamespace(n) PROVE FirstInOrder'
  BY <1>3 DEF ChangeNamespace
<1>4. ASSUME LoseResources \/ LoseNamespaces \/ ScanResources \/ ListResources \/ ListNamespaces
             \/ RelistNamespaces
      PROVE  FirstInOrder'
  BY <1>4 DEF LoseResources, LoseNamespaces, ScanResources, ListResources, ListNamespaces,
     RelistNamespaces
<1>5. ASSUME NEW k \in Keys, FailPeering(k) \/ RaiseConflict(k) \/ ResolveConflict(k)
      PROVE  FirstInOrder'
  BY <1>5 DEF FailPeering, RaiseConflict, ResolveConflict
<1> QED BY <1>1, <1>2, <1>3, <1>4, <1>5 DEF Next, Environment, Observe, Serve

LEMMA OrchestrateFirst ==
  ASSUME ClusterAssumption, TypeOK, FirstInOrder, Orchestrate \/ CancelOrchestrator
  PROVE  FirstInOrder'
<1> USE DEF clusterVars, observerVars, insightVars, ensembleVars, indexVars
<1>1. ASSUME BeginAdjusting PROVE FirstInOrder'
  <2>1. /\ orchestrator = "waiting" /\ UNCHANGED <<toggles, counted, freed, object, first>>
        /\ \A k \in Keys : watcher'[k] = watcher[k] \/ (watcher[k] # "none" /\ watcher'[k] = "cancelled")
    BY <1>1 DEF BeginAdjusting
  <2> QED BY <2>1 DEF FirstInOrder, HoldsBack, IsOver, WasReady, TypeOK
<1>2. ASSUME DropRedundant PROVE FirstInOrder'
  <2>1. /\ orchestrator = "stopping" /\ toggles' = LeaveToggles(redundant)
        /\ counted' = counted \ redundant /\ freed' = freed \ redundant /\ first' = first \ redundant
        /\ \A k \in Keys : IF k \in redundant THEN watcher'[k] = "none" /\ object'[k] = "none"
                           ELSE watcher'[k] = watcher[k] /\ object'[k] = object[k]
    BY <1>2 DEF DropRedundant
  <2>2. WasReady' => WasReady
    BY <2>1 DEF WasReady
  <2>3. \A i \in first' : i \in first /\ watcher[i] # "none" /\ watcher'[i] = watcher[i]
                          /\ object'[i] = object[i] /\ (i \in counted => i \in counted')
    BY <2>1 DEF FirstInOrder, HoldsBack, TypeOK
  <2>4. \A i \in first' : /\ ListToggle(i) \in toggles => ListToggle(i) \in toggles'
                          /\ ObjectToggle(i) \in toggles => ObjectToggle(i) \in toggles'
    BY <2>1, TogglesAreDistinct DEF LeaveToggles, TogglesOf
  <2> QED BY <2>1, <2>2, <2>3, <2>4 DEF FirstInOrder, HoldsBack, IsOver
<1>3. ASSUME BlockReadiness PROVE FirstInOrder'
  <2>1. /\ orchestrator = "blocking" /\ orchestrator' = "spawning"
        /\ toggles' = toggles \cup {Blocker}
        /\ first' = IF WasReady THEN first ELSE first \cup {k \in MissingWatchers : k[1] \in indexed}
        /\ UNCHANGED <<served, namespaces, indexed, watcher, object, counted, freed>>
    BY <1>3 DEF BlockReadiness, OrchestrationBlocker
  <2>2. WasReady' = WasReady /\ MissingWatchers' = MissingWatchers
    BY <2>1 DEF WasReady, MissingWatchers
  <2>3. \A k \in MissingWatchers : k \in Keys /\ watcher[k] = "none"
    BY KeysOfAreKeys DEF MissingWatchers, TypeOK
  <2>4. \A i \in first : HoldsBack(i)'
    BY <2>1 DEF FirstInOrder, HoldsBack
  <2>5. ASSUME NEW k \in MissingWatchers, k[1] \in indexed PROVE HoldsBack(k)'
    BY <2>1, <2>2, <2>3, <2>5 DEF FirstInOrder, HoldsBack
  <2>6. \A i \in first' : HoldsBack(i)'
    BY <2>1, <2>4, <2>5
  <2>7. WasReady' => \A i \in first' : IsOver(i)'
    BY <2>1, <2>2 DEF FirstInOrder, IsOver
  <2> QED BY <2>1, <2>6, <2>7 DEF FirstInOrder
<1>4. ASSUME NEW k \in Keys, SpawnWatcher(k) PROVE FirstInOrder'
  <2>1. /\ orchestrator' = orchestrator /\ k \in MissingWatchers
        /\ watcher' = [watcher EXCEPT ![k] = "new"]
        /\ k[1] \in indexed => toggles' = toggles \cup {ListToggle(k)} /\ counted' = counted \cup {k}
        /\ toggles \subseteq toggles' /\ counted \subseteq counted'
        /\ UNCHANGED <<served, namespaces, indexed, freed, object, first>>
    BY <1>4 DEF SpawnWatcher
  <2>2. watcher[k] = "none" /\ MissingWatchers \ {k} \subseteq MissingWatchers'
    BY <2>1, KeysOfAreKeys DEF MissingWatchers, TypeOK
  <2>3. WasReady' = WasReady
    BY <2>1 DEF WasReady
  <2>4. ASSUME NEW i \in first PROVE HoldsBack(i)'
    <3>1. HoldsBack(i) /\ i \in Keys
      BY DEF FirstInOrder, TypeOK
    <3>2. CASE i = k
      BY <2>1, <2>2, <3>1, <3>2 DEF HoldsBack, TypeOK
    <3>3. CASE i # k
      BY <2>1, <2>2, <3>1, <3>3 DEF HoldsBack, TypeOK
    <3> QED BY <3>2, <3>3
  <2>5. WasReady => \A i \in first : IsOver(i)'
    BY <2>1, <2>2 DEF FirstInOrder, IsOver, TypeOK
  <2> QED BY <2>1, <2>2, <2>3, <2>4, <2>5 DEF FirstInOrder, TypeOK
<1>5. ASSUME EndAdjusting PROVE FirstInOrder'
  <2>1. /\ MissingWatchers = {} /\ toggles' = toggles \ {Blocker}
        /\ UNCHANGED <<watcher, object, counted, freed, first>>
    BY <1>5 DEF EndAdjusting, OrchestrationBlocker
  <2>2. \A i \in first : watcher[i] # "none"
    BY <2>1 DEF FirstInOrder, HoldsBack
  <2> QED BY <2>1, <2>2, TogglesAreDistinct DEF FirstInOrder, HoldsBack, IsOver, WasReady
<1>6. ASSUME CancelOrchestrator PROVE FirstInOrder'
  <2>1. /\ orchestrator' = "closing"
        /\ UNCHANGED <<served, namespaces, indexed, toggles, counted, freed, object, first>>
        /\ \A k \in Keys : watcher'[k] = watcher[k] \/ (watcher[k] # "none" /\ watcher'[k] = "cancelled")
    BY <1>6 DEF CancelOrchestrator
  <2>2. \A k \in MissingWatchers : k \in Keys
    BY KeysOfAreKeys DEF MissingWatchers, TypeOK
  <2>3. MissingWatchers \subseteq MissingWatchers'
    BY <2>1, <2>2 DEF MissingWatchers
  <2> QED BY <2>1, <2>3 DEF FirstInOrder, HoldsBack, IsOver, WasReady, TypeOK
<1>7. ASSUME CloseOrchestrator PROVE FirstInOrder'
  <2>1. /\ orchestrator' = "closed"
        /\ UNCHANGED <<served, namespaces, indexed, watcher, toggles, counted, freed, object, first>>
    BY <1>7 DEF CloseOrchestrator
  <2>2. MissingWatchers' = MissingWatchers
    BY <2>1 DEF MissingWatchers
  <2> QED BY <2>1, <2>2 DEF FirstInOrder, HoldsBack, IsOver, WasReady
<1>8. ASSUME SpawnPeerings PROVE FirstInOrder'
  <2>1. /\ orchestrator = "peering" /\ orchestrator' = "blocking"
        /\ UNCHANGED <<served, namespaces, indexed, watcher, toggles, counted, freed, object, first>>
    BY <1>8 DEF SpawnPeerings
  <2> QED BY <2>1 DEF FirstInOrder, HoldsBack, IsOver, WasReady
<1> QED BY <1>1, <1>2, <1>3, <1>4, <1>5, <1>6, <1>7, <1>8 DEF Orchestrate

(* A new object: either nothing is being waited for, or it holds back too. *)
LEMMA NewStreamFirst ==
  ASSUME TypeOK, FirstInOrder, NEW k \in Keys, NEW state \in {"found", "added"}, NewStream(k, state),
         watcher[k] # "none", state = "found" => watcher[k] = "new",
         UNCHANGED <<served, namespaces, indexed, orchestrator, watcher, counted, first>>
  PROVE  FirstInOrder'
<1>1. object' = [object EXCEPT ![k] = state] /\ object[k] = "none"
  BY DEF NewStream
<1>2. \A l \in Keys : watcher'[l] = "none" => object'[l] = "none"
  BY <1>1 DEF FirstInOrder, TypeOK
<1>3. MissingWatchers' = MissingWatchers
  BY DEF MissingWatchers
<1>4. CASE IsIndexed \/ k \in freed
  <2>1. toggles' = toggles /\ freed' = freed \cup {k}
    BY <1>4 DEF NewStream
  <2>2. \A i \in first : IsOver(i)
    <3>1. CASE IsIndexed
      BY <3>1 DEF FirstInOrder, HoldsBack, IsOver, IsIndexed
    <3>2. CASE k \in freed
      BY <3>2 DEF FirstInOrder, WasReady
    <3> QED BY <1>4, <3>1, <3>2
  <2>3. \A i \in first : IsOver(i)'
    BY <1>1, <2>2 DEF IsOver, TypeOK
  <2>4. \A i \in first : HoldsBack(i)'
    BY <2>3 DEF HoldsBack, IsOver
  <2> QED BY <1>2, <2>3, <2>4 DEF FirstInOrder
<1>5. CASE ~(IsIndexed \/ k \in freed)
  <2>1. /\ freed' = freed /\ toggles \subseteq toggles'
        /\ k \in counted => ObjectToggle(k) \in toggles'
    BY <1>5 DEF NewStream
  <2>2. WasReady' => WasReady
    BY <1>1, <2>1 DEF WasReady, TypeOK
  <2>3. ASSUME NEW i \in first PROVE HoldsBack(i)'
    <3>1. HoldsBack(i) /\ i \in Keys
      BY DEF FirstInOrder, TypeOK
    <3>2. CASE i = k
      BY <1>1, <2>1, <3>1, <3>2 DEF HoldsBack, TypeOK
    <3>3. CASE i # k
      BY <1>1, <1>3, <2>1, <3>1, <3>3 DEF HoldsBack, TypeOK
    <3> QED BY <3>2, <3>3
  <2>4. WasReady => \A i \in first : IsOver(i)'
    BY <1>1 DEF FirstInOrder, IsOver, TypeOK
  <2> QED BY <1>2, <2>2, <2>3, <2>4 DEF FirstInOrder
<1> QED BY <1>4, <1>5

LEMMA ServeFirst ==
  ASSUME TypeOK, FirstInOrder, NEW k \in Keys,
         AddObject(k) \/ FindObject(k) \/ EndListing(k) \/ IndexObject(k) \/ HandleObject(k)
           \/ EndWatcher(k) \/ FailWatcher(k)
  PROVE  FirstInOrder'
<1> USE DEF clusterVars, observerVars, insightVars, ensembleVars, indexVars
<1>1. ASSUME AddObject(k) PROVE FirstInOrder'
  BY <1>1, NewStreamFirst DEF AddObject
<1>2. ASSUME FindObject(k) PROVE FirstInOrder'
  BY <1>2, NewStreamFirst DEF FindObject
<1>3. ASSUME EndListing(k) PROVE FirstInOrder'
  <2>1. /\ watcher[k] = "new" /\ watcher' = [watcher EXCEPT ![k] = "listed"]
        /\ toggles' = toggles \ {ListToggle(k)}
        /\ UNCHANGED <<served, namespaces, indexed, orchestrator, counted, freed, object, first>>
    BY <1>3 DEF EndListing
  <2>2. MissingWatchers \subseteq MissingWatchers'
    BY <2>1, KeysOfAreKeys DEF MissingWatchers, TypeOK
  <2> QED BY <2>1, <2>2, TogglesAreDistinct DEF FirstInOrder, HoldsBack, IsOver, WasReady, TypeOK
<1>4. ASSUME IndexObject(k) PROVE FirstInOrder'
  <2>1. /\ object[k] \in {"found", "added"} /\ object' = [object EXCEPT ![k] = "waiting"]
        /\ toggles' = toggles \ {ObjectToggle(k)}
        /\ UNCHANGED <<served, namespaces, indexed, orchestrator, watcher, counted, freed, first>>
    BY <1>4 DEF IndexObject
  <2>2. MissingWatchers' = MissingWatchers
    BY <2>1 DEF MissingWatchers
  <2>3. WasReady' => WasReady
    BY <2>1 DEF WasReady, TypeOK
  <2> QED BY <2>1, <2>2, <2>3, TogglesAreDistinct DEF FirstInOrder, HoldsBack, IsOver, TypeOK
<1>5. ASSUME HandleObject(k) PROVE FirstInOrder'
  <2>1. /\ object[k] = "waiting" /\ object' = [object EXCEPT ![k] = "handled"]
        /\ IsIndexed \/ k \in freed
        /\ UNCHANGED <<served, namespaces, indexed, orchestrator, watcher, toggles, counted, freed, first>>
    BY <1>5 DEF HandleObject
  <2>2. MissingWatchers' = MissingWatchers
    BY <2>1 DEF MissingWatchers
  <2>3. \A i \in first : IsOver(i)
    <3>1. CASE IsIndexed
      BY <3>1 DEF FirstInOrder, HoldsBack, IsOver, IsIndexed
    <3>2. CASE k \in freed
      BY <3>2 DEF FirstInOrder, WasReady
    <3> QED BY <2>1, <3>1, <3>2
  <2> QED BY <2>1, <2>2, <2>3 DEF FirstInOrder, HoldsBack, IsOver, TypeOK
<1>6. ASSUME EndWatcher(k) \/ FailWatcher(k) PROVE FirstInOrder'
  <2>1. /\ watcher[k] # "none"
        /\ \A l \in Keys \ {k} : watcher'[l] = watcher[l] /\ object'[l] = object[l]
        /\ watcher'[k] \in {"ended", "failed"} /\ object'[k] # "found"
        /\ object'[k] = "handled" => object[k] = "handled"
        /\ UNCHANGED <<served, namespaces, indexed, orchestrator, toggles, counted, freed, first>>
    BY <1>6 DEF EndWatcher, FailWatcher, KillWorkers, TypeOK
  <2>2. MissingWatchers \subseteq MissingWatchers'
    BY <2>1, KeysOfAreKeys DEF MissingWatchers, TypeOK
  <2>3. WasReady' => WasReady
    BY <2>1 DEF WasReady
  <2>4. ASSUME NEW i \in first PROVE HoldsBack(i)' /\ (WasReady => IsOver(i)')
    <3>1. HoldsBack(i) /\ (WasReady => IsOver(i)) /\ i \in Keys
      BY DEF FirstInOrder, TypeOK
    <3>2. CASE i = k
      BY <2>1, <3>1, <3>2 DEF HoldsBack, IsOver
    <3>3. CASE i # k
      BY <2>1, <2>2, <3>1, <3>3 DEF HoldsBack, IsOver
    <3> QED BY <3>2, <3>3
  <2> QED BY <2>1, <2>3, <2>4 DEF FirstInOrder
<1> QED BY <1>1, <1>2, <1>3, <1>4, <1>5, <1>6

LEMMA NextFirstInOrder ==
  ASSUME ClusterAssumption, TypeOK, NamesInOrder, FirstInOrder, [Next]_vars
  PROVE  FirstInOrder'
<1>1. ASSUME Revise PROVE FirstInOrder'
  <2>1. orchestrator = "waiting" /\ UNCHANGED <<ensembleVars, indexVars>>
    BY <1>1, RevisionsAreTold
  <2>2. UNCHANGED <<watcher, toggles, counted, freed, object, first>>
    BY <2>1 DEF ensembleVars, indexVars
  <2>3. \A i \in first : watcher[i] # "none"
    BY <2>1 DEF FirstInOrder, HoldsBack
  <2> QED BY <2>2, <2>3 DEF FirstInOrder, HoldsBack, IsOver, WasReady
<1> QED BY <1>1, OthersKeepFirst, OrchestrateFirst, ServeFirst
-----------------------------------------------------------------------------
(* The theorems.                                                           *)

LEMMA InitIInv == ClusterAssumption /\ Init => IInv
<1> SUFFICES ASSUME ClusterAssumption, Init PROVE IInv
  OBVIOUS
<1>1. backbone = [s \in DOMAIN backbone |-> backbone[s]] /\ PeeringResources = {}
  BY DEF Init, PeeringResources
<1>2. KeysOf(served, namespaces) = {} /\ KeysOf(PeeringResources, namespaces) = {}
  BY DEF Init, KeysOf
<1>3. EnsembleKeys = {}
  BY DEF Init, EnsembleKeys
<1>4. TypeOK
  BY <1>1 DEF Init, TypeOK, Spaces
<1>5. NamesInOrder /\ ScansInOrder
  BY DEF Init, NamesInOrder, ScansInOrder
<1>6. KeysInOrder /\ EnsembleInOrder
  BY <1>2, <1>3 DEF Init, KeysInOrder, EnsembleInOrder, Adjusted
<1>7. ConflictsAreOwned /\ FirstInOrder
  BY DEF Init, ConflictsAreOwned, FirstInOrder, WasReady
<1>8. ResourcesAreKnown /\ NamespacesAreKnown
  BY DEF Init, ResourcesAreKnown, IsKnown, NamespacesAreKnown, IsNamed
<1> QED BY <1>4, <1>5, <1>6, <1>7, <1>8 DEF IInv

LEMMA NextIInv == ClusterAssumption /\ IInv /\ [Next]_vars => IInv'
BY NextTypeOK, NextNamesInOrder, NextScansInOrder, NextKeysInOrder, NextEnsembleInOrder,
   NextConflictsAreOwned, NextFirstInOrder, NextResourcesAreKnown, NextNamespacesAreKnown
   DEF IInv

(* The inductive invariant, from which all the others follow.              *)
THEOREM IInvHolds == Spec => []IInv
<1>1. Init => IInv
  BY InitIInv, ClusterAssumption
<1>2. IInv /\ [Next]_vars => IInv'
  BY NextIInv, ClusterAssumption
<1> QED BY <1>1, <1>2, PTL DEF Spec

(* The variables keep their types: only keys of known resources and        *)
(* namespaces are watched and peered, and there are no other toggles than  *)
(* those of the watchers, the objects and the orchestrator.                *)
THEOREM TypeCorrect == Spec => []TypeOK
<1>1. IInv => TypeOK
  BY DEF IInv
<1> QED BY IInvHolds, <1>1, PTL

(* Whenever the orchestrator rests, the watchers and the peerings are what *)
(* the insights call for: no revision is lost, whenever the observers make *)
(* it, and however the tasks end meanwhile.                                *)
THEOREM EnsembleFollowsInsights == Spec => []EnsembleMatchesInsights
<1>1. ASSUME IInv, orchestrator = "waiting", ~revised PROVE EnsembleMatchesInsights
  <2>1. /\ \A k \in EnsembleKeys : IsRemaining(k) /\ IsProper(k)
        /\ \A k \in peering : k[1] \in PeeringResources
        /\ KeysOf(PeeringResources, namespaces) \subseteq peering
        /\ KeysOf(served, namespaces) \subseteq Watched
        /\ namespaces # {} => missing = (Mandatory /\ PeeringResources = {})
    BY <1>1 DEF IInv, KeysInOrder, EnsembleInOrder, Adjusted
  <2>2. ASSUME NEW resources, NEW k \in EnsembleKeys, k[1] \in resources,
               k \notin KeysOf(resources, namespaces)
        PROVE  k[2] = Unset /\ namespaces = {}
    <3>1. k = <<k[1], k[2]>> /\ k \in Keys
      BY <1>1, KeysAreTheirs DEF EnsembleKeys, IInv, TypeOK
    <3>2. k[2] \in namespaces \cup {Unset} /\ IsProper(k)
      BY <2>1, <2>2 DEF IsRemaining
    <3>3. CASE Traits[k[1]].namespaced
      <4>1. k[2] \in namespaces
        BY <3>2, <3>3 DEF IsProper
      <4> QED BY <2>2, <3>1, <3>3, <4>1 DEF KeysOf
    <3>4. CASE ~Traits[k[1]].namespaced
      <4>1. k = <<k[1], Unset>> /\ k[2] = Unset
        BY <3>1, <3>2, <3>4 DEF IsProper
      <4> QED BY <2>2, <3>4, <4>1 DEF KeysOf
    <3> QED BY <3>3, <3>4
  <2>3. Watched \subseteq EnsembleKeys /\ peering \subseteq EnsembleKeys
    BY DEF Watched, EnsembleKeys
  <2>4. \A k \in Watched \ KeysOf(served, namespaces) : Lingers(k)
    BY <2>1, <2>2, <2>3 DEF Lingers
  <2>5. \A k \in peering \ KeysOf(PeeringResources, namespaces) : k[2] = Unset /\ namespaces = {}
    BY <2>1, <2>2, <2>3
  <2> QED BY <2>1, <2>4, <2>5 DEF EnsembleMatchesInsights
<1>2. IInv => EnsembleMatchesInsights
  BY <1>1 DEF EnsembleMatchesInsights
<1> QED BY IInvHolds, <1>2, PTL

(* No handler is called before all the objects of the indexed resources,   *)
(* as listed when these were started, are indexed.                         *)
THEOREM IndicesAreFull == Spec => []HandlersSeeFullIndices
<1>1. IInv => HandlersSeeFullIndices
  BY DEF IInv, FirstInOrder, IsOver, WasReady, HandlersSeeFullIndices
<1> QED BY IInvHolds, <1>1, PTL

(* The insights are the cluster's resources and namespaces that are meant, *)
(* once the observers have processed all the events that they got.         *)
THEOREM InsightsFollowCluster == Spec => []InsightsMatchCluster
<1>1. ASSUME IInv, AtRest, overlooked = {} PROVE InsightsMatchCluster
  <2>1. \A r \in Kinds : IsUnrivalled(r) => IsServedRightly(r)
    BY <1>1 DEF IInv, AtRest, ResourcesAreKnown, IsKnown, IsAsking
  <2>2. \A n \in Namespaces : FollowsSpace(n)
    BY <1>1 DEF IInv, AtRest, NamespacesAreKnown, IsNamed
  <2> QED BY <2>1, <2>2 DEF InsightsMatchCluster, FollowsSpace
<1>2. IInv => InsightsMatchCluster
  BY <1>1 DEF InsightsMatchCluster
<1> QED BY IInvHolds, <1>2, PTL

(* No conflict is left without its peering, nor outlives its namespace: it *)
(* is dropped together with the tasks of its peering, for any peerings and *)
(* namespaces that come and go, and any of their tasks that fail.  A task  *)
(* that has failed stays in the ensemble, and its conflict with it.        *)
THEOREM PausesStayOwned == Spec => []PausesAreOwned
<1>1. ASSUME IInv, InsightsMatchCluster, AtRest, overlooked = {}, NEW k \in conflicts, k[2] # Unset
      PROVE  space[k[2]] \notin {"vacant", "absent"}
  <2>1. k \in peering
    BY <1>1 DEF IInv, ConflictsAreOwned, Alive, AtRest
  <2>2. k \in Keys /\ IsRemaining(k)
    BY <1>1, <2>1 DEF IInv, TypeOK, EnsembleInOrder, EnsembleKeys, Adjusted, AtRest
  <2>3. k[2] \in Namespaces /\ k[2] \in namespaces
    BY <1>1, <2>2 DEF Keys, IsRemaining
  <2> QED BY <1>1, <2>3 DEF InsightsMatchCluster
<1>2. IInv /\ InsightsMatchCluster => PausesAreOwned
  BY <1>1 DEF PausesAreOwned, NoneIsOfTheGone, IInv
<1> QED BY IInvHolds, InsightsFollowCluster, <1>2, PTL

(* A watcher that is being stopped is redundant, until the orchestrator is *)
(* done with it.                                                           *)
StoppedAreRedundant ==
  orchestrator \notin {"closing", "closed"} =>
    \A k \in Keys : watcher[k] \in {"cancelled", "ended"} =>
      orchestrator = "stopping" /\ k \in redundant

LEMMA InitStopped == Init => StoppedAreRedundant
BY DEF Init, StoppedAreRedundant

LEMMA NextStopped ==
  ASSUME TypeOK, StoppedAreRedundant, [Next]_vars
  PROVE  StoppedAreRedundant'
<1> USE DEF StoppedAreRedundant
<1>1. CASE UNCHANGED <<orchestrator, watcher, redundant>>
  BY <1>1
<1>2. CASE BeginAdjusting
  BY <1>2 DEF BeginAdjusting
<1>3. CASE DropRedundant
  BY <1>3 DEF DropRedundant
<1>4. CASE SpawnPeerings \/ BlockReadiness \/ EndAdjusting
  BY <1>4 DEF SpawnPeerings, BlockReadiness, EndAdjusting, ensembleVars
<1>5. CASE CloseOrchestrator \/ CancelOrchestrator
  BY <1>5 DEF CloseOrchestrator, CancelOrchestrator
<1>6. ASSUME NEW k \in Keys,
             SpawnWatcher(k) \/ EndListing(k) \/ EndWatcher(k) \/ FailWatcher(k)
      PROVE  StoppedAreRedundant'
  <2>1. UNCHANGED <<orchestrator, redundant>>
    BY <1>6 DEF SpawnWatcher, EndListing, EndWatcher, FailWatcher
  <2>2. \A i \in Keys : \/ watcher'[i] = watcher[i]
                        \/ watcher'[i] \in {"new", "listed", "failed"}
                        \/ watcher[i] = "cancelled"
    BY <1>6 DEF SpawnWatcher, EndListing, EndWatcher, FailWatcher, TypeOK
  <2> QED BY <2>1, <2>2
<1>7. ASSUME NEW k \in Keys,
             \/ FindObject(k) \/ IndexObject(k) \/ HandleObject(k)
             \/ FailPeering(k) \/ RaiseConflict(k) \/ ResolveConflict(k) \/ AddObject(k)
      PROVE  UNCHANGED <<orchestrator, watcher, redundant>>
  BY <1>7 DEF FindObject, IndexObject, HandleObject, FailPeering, RaiseConflict, ResolveConflict, AddObject,
              ensembleVars
<1>8. CASE Observe
  BY <1>8 DEF Observe, Revise, ScanResources, ListResources, ScanGroup, ListNamespaces,
              RelistNamespaces, FirstRevision, ReviseGroup, FirstNamespaces,
              AssumeNamespaces, NoticeNamespace, ensembleVars
<1>9. CASE (\E r \in Kinds : ChangeResource(r)) \/ (\E n \in Namespaces : ChangeNamespace(n))
           \/ LoseResources \/ LoseNamespaces
  BY <1>9 DEF ChangeResource, ChangeNamespace, LoseResources, LoseNamespaces,
              ensembleVars
<1>10. CASE Environment
  BY <1>1, <1>5, <1>7, <1>9, <1>10 DEF Environment
<1>11. CASE Orchestrate
  BY <1>2, <1>3, <1>4, <1>5, <1>6, <1>11 DEF Orchestrate
<1>12. ASSUME NEW k \in Keys, Serve(k) PROVE StoppedAreRedundant'
  BY <1>1, <1>6, <1>7, <1>12 DEF Serve
<1>13. CASE UNCHANGED vars
  BY <1>1, <1>13 DEF vars
<1> QED BY <1>8, <1>10, <1>11, <1>12, <1>13 DEF Next

(* The whole chain: the watchers are those of the cluster's resources and  *)
(* namespaces, once the observers and the orchestrator have nothing to do. *)
THEOREM EnsembleFollowsCluster == Spec => []EnsembleMatchesCluster
<1>1. ASSUME IInv, StoppedAreRedundant, EnsembleMatchesInsights, InsightsMatchCluster,
             AtRest, overlooked = {}, NEW r \in Kinds, NEW n \in Namespaces, IsUnrivalled(r)
      PROVE  /\ IsToBeWatched(r, n) => watcher[KeyOf(r, n)] \in {"new", "listed", "failed"}
             /\ KeyOf(r, n) \in Watched /\ r \notin PeeringResources =>
                  /\ r \in existing /\ IsMeant(r)
                  /\ Traits[r].namespaced => space[n] \notin {"vacant", "absent"}
  <2>1. /\ IsServedRightly(r)
        /\ space[n] = "active" /\ Matched(n) => n \in namespaces
        /\ space[n] \in {"vacant", "absent"} => n \notin namespaces
    BY <1>1 DEF InsightsMatchCluster
  <2>2. /\ KeysOf(served, namespaces) \subseteq Watched
        /\ \A k \in Watched \ KeysOf(served, namespaces) : Lingers(k)
    BY <1>1 DEF EnsembleMatchesInsights, AtRest
  <2>3. TypeOK
    BY <1>1 DEF IInv
  <2>4. ASSUME IsToBeWatched(r, n)
        PROVE  watcher[KeyOf(r, n)] \in {"new", "listed", "failed"}
    <3>1. r \in served /\ n \in namespaces
      BY <2>1, <2>4 DEF IsToBeWatched, IsServedRightly
    <3>2. KeyOf(r, n) \in Watched
      BY <2>2, <3>1 DEF KeysOf, KeyOf
    <3>3. KeyOf(r, n) \in Keys /\ watcher[KeyOf(r, n)] # "none"
      BY <3>2 DEF Watched
    <3>4. watcher[KeyOf(r, n)] \notin {"cancelled", "ended"}
      BY <1>1, <3>3 DEF StoppedAreRedundant, AtRest
    <3> QED BY <2>3, <3>3, <3>4 DEF TypeOK
  <2>5. ASSUME KeyOf(r, n) \in Watched, r \notin PeeringResources
        PROVE  /\ r \in existing /\ IsMeant(r)
               /\ Traits[r].namespaced => space[n] \notin {"vacant", "absent"}
    <3>1. KeyOf(r, n)[1] = r /\ (Traits[r].namespaced => KeyOf(r, n)[2] = n)
      BY DEF KeyOf
    <3>2. n # Unset
      BY ClusterAssumption DEF ClusterAssumption
    <3>3. CASE KeyOf(r, n) \in KeysOf(served, namespaces)
      <4>1. PICK q \in served, m \in namespaces :
              KeyOf(r, n) = <<q, IF Traits[q].namespaced THEN m ELSE Unset>>
        BY <3>3 DEF KeysOf
      <4>2. q = r /\ (Traits[r].namespaced => m = n)
        BY <4>1 DEF KeyOf
      <4> QED BY <2>1, <4>1, <4>2 DEF IsServedRightly
    <3>4. CASE KeyOf(r, n) \notin KeysOf(served, namespaces)
      <4>1. Lingers(KeyOf(r, n))
        BY <2>2, <2>5, <3>4
      <4>2. r \in served /\ ~Traits[r].namespaced
        BY <2>5, <3>1, <3>2, <4>1 DEF Lingers, IsRemaining
      <4> QED BY <2>1, <4>2 DEF IsServedRightly
    <3> QED BY <3>3, <3>4
  <2> QED BY <2>4, <2>5
<1>2. IInv /\ StoppedAreRedundant /\ EnsembleMatchesInsights /\ InsightsMatchCluster
        => EnsembleMatchesCluster
  BY <1>1 DEF EnsembleMatchesCluster
<1>3. IInv /\ StoppedAreRedundant /\ [Next]_vars => StoppedAreRedundant'
  BY NextStopped DEF IInv
<1>4. Spec => []StoppedAreRedundant
  BY IInvHolds, InitStopped, <1>3, PTL DEF Spec
<1> QED BY IInvHolds, EnsembleFollowsInsights, InsightsFollowCluster, <1>2, <1>4, PTL
=============================================================================
