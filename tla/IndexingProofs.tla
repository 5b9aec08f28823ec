--------------------------- MODULE IndexingProofs ---------------------------
(***************************************************************************)
(* The indices are exact for any objects, indexing functions, results and  *)
(* errors.  First the dicts: discarding an object from some of its keys,   *)
(* from all of them, and replacing its values; then the outcomes; then the *)
(* steps of Indexing.                                                      *)
(***************************************************************************)
EXTENDS Indexing, TLAPS

(* Consistent, but that an object may have a record without any keys.      *)
NearlyConsistent(index, o) ==
    /\ \A k \in DOMAIN index.items :
          /\ DOMAIN index.items[k] # {}
          /\ \A p \in DOMAIN index.items[k] :
                p \in DOMAIN index.reverse /\ k \in index.reverse[p]
    /\ \A p \in DOMAIN index.reverse :
          /\ p # o => index.reverse[p] # {}
          /\ \A k \in index.reverse[p] :
                k \in DOMAIN index.items /\ p \in DOMAIN index.items[k]

(* Nothing changes for the other objects.                                  *)
SameForOthers(new, old, o) == \A p : p # o => Visible(new, p) = Visible(old, p)

-----------------------------------------------------------------------------
(* What remains in the items when an object is discarded from some keys.   *)
LEMMA DiscardedItems ==
    ASSUME NEW index, NEW o, NEW keys,
           o \in DOMAIN index.reverse, keys \subseteq index.reverse[o],
           NearlyConsistent(index, o)
    PROVE  \A k, p : (/\ k \in DOMAIN DiscardFrom(index, o, keys).items
                     /\ p \in DOMAIN DiscardFrom(index, o, keys).items[k])
                    <=> (/\ k \in DOMAIN index.items /\ p \in DOMAIN index.items[k]
                         /\ ~(p = o /\ k \in keys))
<1> DEFINE new == DiscardFrom(index, o, keys)
           emptied == {k \in keys : IsEmptied(index.items[k], o)}
<1>1. new.items = [k \in DOMAIN index.items \ emptied |->
                     IF k \in keys THEN StoreWithout(index.items[k], o) ELSE index.items[k]]
  BY DEF DiscardFrom
<1>2. DOMAIN new.items = DOMAIN index.items \ emptied
  BY <1>1
<1>3. \A k \in DOMAIN new.items :
        DOMAIN new.items[k] = IF k \in keys THEN DOMAIN index.items[k] \ {o}
                                            ELSE DOMAIN index.items[k]
  BY <1>1, <1>2 DEF StoreWithout, Without
<1>4. \A k \in emptied : DOMAIN index.items[k] = {o} /\ k \in keys
  BY DEF IsEmptied
<1> HIDE DEF new, emptied
<1>5. \A k, p : (k \in DOMAIN new.items /\ p \in DOMAIN new.items[k])
                   <=> /\ k \in DOMAIN index.items /\ p \in DOMAIN index.items[k]
                       /\ ~(p = o /\ k \in keys)
  BY <1>2, <1>3, <1>4
<1> QED BY <1>5 DEF new

(* The values that remain are the same.                                    *)
LEMMA DiscardedValues ==
    ASSUME NEW index, NEW o, NEW keys, NEW k, NEW p,
           k \in DOMAIN DiscardFrom(index, o, keys).items,
           p \in DOMAIN DiscardFrom(index, o, keys).items[k]
    PROVE  DiscardFrom(index, o, keys).items[k][p] = index.items[k][p]
<1> DEFINE new == DiscardFrom(index, o, keys)
           emptied == {x \in keys : IsEmptied(index.items[x], o)}
<1>1. new.items = [x \in DOMAIN index.items \ emptied |->
                     IF x \in keys THEN StoreWithout(index.items[x], o) ELSE index.items[x]]
  BY DEF DiscardFrom
<1>2. new.items[k] = IF k \in keys THEN StoreWithout(index.items[k], o) ELSE index.items[k]
  BY <1>1
<1> QED BY <1>2 DEF StoreWithout, Without

(* The reverse items.                                                      *)
LEMMA DiscardedReverse ==
    ASSUME NEW index, NEW o, NEW keys, o \in DOMAIN index.reverse
    PROVE  /\ \A p : p \in DOMAIN DiscardFrom(index, o, keys).reverse
                    <=> p \in DOMAIN index.reverse /\ (p = o => index.reverse[o] \ keys # {})
           /\ \A p \in DOMAIN DiscardFrom(index, o, keys).reverse :
                /\ p = o => DiscardFrom(index, o, keys).reverse[p] = index.reverse[o] \ keys
                /\ p # o => DiscardFrom(index, o, keys).reverse[p] = index.reverse[p]
<1> DEFINE left == index.reverse[o] \ keys
<1>1. DiscardFrom(index, o, keys).reverse
        = IF left = {} THEN Without(index.reverse, {o}) ELSE With(index.reverse, o, left)
  BY DEF DiscardFrom
<1>2. CASE left = {}
  BY <1>1, <1>2 DEF Without
<1>3. CASE left # {}
  BY <1>1, <1>3 DEF With
<1> QED BY <1>2, <1>3

(* Discarding from some of the keys makes an index consistent.             *)
LEMMA DiscardFromIsConsistent ==
    ASSUME NEW index, NEW o, NEW keys,
           o \in DOMAIN index.reverse, keys \subseteq index.reverse[o],
           NearlyConsistent(index, o)
    PROVE  IsConsistent(DiscardFrom(index, o, keys))
<1> DEFINE new == DiscardFrom(index, o, keys)
           left == index.reverse[o] \ keys
           emptied == {k \in keys : IsEmptied(index.items[k], o)}
<1>1. \A k, p : (k \in DOMAIN new.items /\ p \in DOMAIN new.items[k])
                   <=> /\ k \in DOMAIN index.items /\ p \in DOMAIN index.items[k]
                       /\ ~(p = o /\ k \in keys)
  BY DiscardedItems
<1>2. /\ \A p : p \in DOMAIN new.reverse
                  <=> p \in DOMAIN index.reverse /\ (p = o => left # {})
      /\ \A p \in DOMAIN new.reverse : /\ p = o => new.reverse[p] = left
                                       /\ p # o => new.reverse[p] = index.reverse[p]
  BY DiscardedReverse
<1>3. new.items = [k \in DOMAIN index.items \ emptied |->
                     IF k \in keys THEN StoreWithout(index.items[k], o) ELSE index.items[k]]
  BY DEF DiscardFrom
<1>4. \A k \in DOMAIN new.items : DOMAIN new.items[k] # {}
  <2> SUFFICES ASSUME NEW k \in DOMAIN new.items PROVE DOMAIN new.items[k] # {}
    OBVIOUS
  <2>1. k \in DOMAIN index.items /\ k \notin emptied
    BY <1>3
  <2>2. DOMAIN index.items[k] # {}
    BY <2>1 DEF NearlyConsistent
  <2>3. CASE k \in keys
    <3>1. DOMAIN new.items[k] = DOMAIN index.items[k] \ {o}
      BY <1>3, <2>1, <2>3 DEF StoreWithout, Without
    <3>2. DOMAIN index.items[k] # {o}
      BY <2>1, <2>3 DEF IsEmptied
    <3> QED BY <3>1, <3>2, <2>2
  <2>4. CASE k \notin keys
    BY <1>3, <2>1, <2>2, <2>4
  <2> QED BY <2>3, <2>4
<1> HIDE DEF new, left, emptied
<1>5. \A k \in DOMAIN new.items : \A p \in DOMAIN new.items[k] :
        p \in DOMAIN new.reverse /\ k \in new.reverse[p]
  <2> SUFFICES ASSUME NEW k \in DOMAIN new.items, NEW p \in DOMAIN new.items[k]
               PROVE  p \in DOMAIN new.reverse /\ k \in new.reverse[p]
    OBVIOUS
  <2>1. /\ k \in DOMAIN index.items /\ p \in DOMAIN index.items[k]
        /\ ~(p = o /\ k \in keys)
    BY <1>1
  <2>2. p \in DOMAIN index.reverse /\ k \in index.reverse[p]
    BY <2>1 DEF NearlyConsistent
  <2>3. p = o => k \in left
    BY <2>1, <2>2 DEF left
  <2> QED BY <1>2, <2>2, <2>3
<1>6. \A p \in DOMAIN new.reverse :
        /\ new.reverse[p] # {}
        /\ \A k \in new.reverse[p] : k \in DOMAIN new.items /\ p \in DOMAIN new.items[k]
  <2> SUFFICES ASSUME NEW p \in DOMAIN new.reverse
               PROVE  /\ new.reverse[p] # {}
                      /\ \A k \in new.reverse[p] :
                           k \in DOMAIN new.items /\ p \in DOMAIN new.items[k]
    OBVIOUS
  <2>1. p \in DOMAIN index.reverse /\ (p = o => left # {})
    BY <1>2
  <2>2. CASE p = o
    <3>1. new.reverse[p] = left /\ left # {}
      BY <1>2, <2>1, <2>2
    <3>2. \A k \in left : k \in index.reverse[p] /\ k \notin keys
      BY <2>2 DEF left
    <3>3. \A k \in left : k \in DOMAIN index.items /\ p \in DOMAIN index.items[k]
      BY <2>1, <3>2 DEF NearlyConsistent
    <3> QED BY <3>1, <3>2, <3>3, <1>1
  <2>3. CASE p # o
    <3>1. new.reverse[p] = index.reverse[p]
      BY <1>2, <2>3
    <3>2. /\ index.reverse[p] # {}
          /\ \A k \in index.reverse[p] : k \in DOMAIN index.items /\ p \in DOMAIN index.items[k]
      BY <2>1, <2>3 DEF NearlyConsistent
    <3> QED BY <3>1, <3>2, <2>3, <1>1
  <2> QED BY <2>2, <2>3
<1>7. IsConsistent(new)
  BY <1>4, <1>5, <1>6 DEF IsConsistent
<1> QED BY <1>7 DEF new

(* The object is seen without some of the keys, the others as before.      *)
IsVisibleBut(new, old, o, keys) ==
    /\ SameForOthers(new, old, o)
    /\ DOMAIN Visible(new, o) = DOMAIN Visible(old, o) \ keys
    /\ \A k \in DOMAIN Visible(old, o) \ keys : Visible(new, o)[k] = Visible(old, o)[k]

(* What is seen of the object, and of the others, afterwards.              *)
LEMMA DiscardFromIsVisible ==
    ASSUME NEW index, NEW o, NEW keys,
           o \in DOMAIN index.reverse, keys \subseteq index.reverse[o],
           NearlyConsistent(index, o)
    PROVE  IsVisibleBut(DiscardFrom(index, o, keys), index, o, keys)
<1> DEFINE new == DiscardFrom(index, o, keys)
<1>1. \A k, p : (k \in DOMAIN new.items /\ p \in DOMAIN new.items[k])
                   <=> /\ k \in DOMAIN index.items /\ p \in DOMAIN index.items[k]
                       /\ ~(p = o /\ k \in keys)
  BY DiscardedItems
<1>2. \A k, p : k \in DOMAIN new.items /\ p \in DOMAIN new.items[k]
                  => new.items[k][p] = index.items[k][p]
  BY DiscardedValues
<1> HIDE DEF new
<1>3. SameForOthers(new, index, o)
  <2> SUFFICES ASSUME NEW p, p # o PROVE Visible(new, p) = Visible(index, p)
    BY DEF SameForOthers
  <2>1. {k \in DOMAIN new.items : p \in DOMAIN new.items[k]}
          = {k \in DOMAIN index.items : p \in DOMAIN index.items[k]}
    BY <1>1
  <2>2. \A k \in {k \in DOMAIN new.items : p \in DOMAIN new.items[k]} :
          new.items[k][p] = index.items[k][p]
    BY <1>2
  <2> QED BY <2>1, <2>2 DEF Visible
<1>4. DOMAIN Visible(new, o) = DOMAIN Visible(index, o) \ keys
  BY <1>1 DEF Visible
<1>5. \A k \in DOMAIN Visible(index, o) \ keys : Visible(new, o)[k] = Visible(index, o)[k]
  BY <1>1, <1>2, <1>4 DEF Visible
<1> QED BY <1>3, <1>4, <1>5 DEF new, IsVisibleBut

-----------------------------------------------------------------------------
(* A function with an empty domain is the empty dict.                      *)
LEMMA EmptyIsEmpty ==
    ASSUME NEW index, NEW o, DOMAIN Visible(index, o) = {}
    PROVE  Visible(index, o) = Empty
BY DEF Visible, Empty

(* The items know of an object just what the reverse items do.             *)
LEMMA KnownIsVisible ==
    ASSUME NEW index, NEW o, IsConsistent(index)
    PROVE  /\ o \in DOMAIN index.reverse => DOMAIN Visible(index, o) = index.reverse[o]
           /\ o \notin DOMAIN index.reverse => DOMAIN Visible(index, o) = {}
BY DEF IsConsistent, Visible

(* A discarded object is nowhere in the index.                             *)
LEMMA Discarding ==
    ASSUME NEW index, NEW o, IsConsistent(index)
    PROVE  /\ IsConsistent(Discard(index, o))
           /\ Visible(Discard(index, o), o) = Empty
           /\ SameForOthers(Discard(index, o), index, o)
<1>1. CASE o \notin DOMAIN index.reverse
  <2>1. Discard(index, o) = index
    BY <1>1 DEF Discard
  <2>2. Visible(index, o) = Empty
    BY <1>1, KnownIsVisible, EmptyIsEmpty
  <2> QED BY <2>1, <2>2 DEF SameForOthers
<1>2. CASE o \in DOMAIN index.reverse
  <2> DEFINE keys == index.reverse[o]
             new == DiscardFrom(index, o, keys)
  <2>0. keys \subseteq index.reverse[o]
    OBVIOUS
  <2>1. Discard(index, o) = new
    BY <1>2 DEF Discard
  <2>2. NearlyConsistent(index, o)
    BY DEF IsConsistent, NearlyConsistent
  <2>3. IsConsistent(new)
    BY <1>2, <2>2, DiscardFromIsConsistent
  <2>4. SameForOthers(new, index, o) /\ DOMAIN Visible(new, o) = DOMAIN Visible(index, o) \ keys
    <3>1. IsVisibleBut(new, index, o, keys)
      BY <1>2, <2>2, <2>0, DiscardFromIsVisible
    <3> HIDE DEF new, keys
    <3> QED BY <3>1 DEF IsVisibleBut
  <2>5. DOMAIN Visible(index, o) = keys
    BY <1>2, KnownIsVisible
  <2> HIDE DEF new
  <2>6. DOMAIN Visible(new, o) = {}
    BY <2>4, <2>5
  <2>7. Visible(new, o) = Empty
    BY <2>6, EmptyIsEmpty
  <2> QED BY <2>1, <2>3, <2>4, <2>7
<1> QED BY <1>1, <1>2

(* An index with the new values added, before the stale ones are discarded. *)
Extended(index, o, mapping) ==
    [items |-> [k \in DOMAIN index.items \cup DOMAIN mapping |->
                  IF k \in DOMAIN mapping
                  THEN StoreWith(Get(index.items, k, Empty), o, mapping[k])
                  ELSE index.items[k]],
     reverse |-> With(index.reverse, o, Get(index.reverse, o, {}) \cup DOMAIN mapping)]

(* What the extended index has in its items, and in its reverse items.     *)
LEMMA ExtendedItems ==
    ASSUME NEW index, NEW o, NEW mapping
    PROVE  /\ \A k, p :
                (/\ k \in DOMAIN Extended(index, o, mapping).items
                 /\ p \in DOMAIN Extended(index, o, mapping).items[k])
                <=> \/ k \in DOMAIN mapping /\ p = o
                    \/ k \in DOMAIN index.items /\ p \in DOMAIN index.items[k]
           /\ \A k \in DOMAIN mapping : Extended(index, o, mapping).items[k][o] = mapping[k]
           /\ \A k \in DOMAIN index.items : \A p \in DOMAIN index.items[k] :
                (p # o \/ k \notin DOMAIN mapping) =>
                    Extended(index, o, mapping).items[k][p] = index.items[k][p]
<1> DEFINE new == Extended(index, o, mapping)
           store(k) == Get(index.items, k, Empty)
<1>1. DOMAIN new.items = DOMAIN index.items \cup DOMAIN mapping
  BY DEF Extended
<1>2. \A k \in DOMAIN mapping : new.items[k] = StoreWith(store(k), o, mapping[k])
  BY DEF Extended
<1>3. \A k \in DOMAIN index.items : k \notin DOMAIN mapping => new.items[k] = index.items[k]
  BY DEF Extended
<1>4. \A k \in DOMAIN mapping :
        /\ DOMAIN new.items[k] = DOMAIN store(k) \cup {o}
        /\ new.items[k][o] = mapping[k]
        /\ \A p \in DOMAIN store(k) : p # o => new.items[k][p] = store(k)[p]
  <2> SUFFICES ASSUME NEW k \in DOMAIN mapping
               PROVE  /\ DOMAIN new.items[k] = DOMAIN store(k) \cup {o}
                      /\ new.items[k][o] = mapping[k]
                      /\ \A p \in DOMAIN store(k) : p # o => new.items[k][p] = store(k)[p]
    OBVIOUS
  <2> HIDE DEF new, store
  <2>1. new.items[k] = [p \in DOMAIN store(k) \cup {o} |->
                          IF p = o THEN mapping[k] ELSE store(k)[p]]
    BY <1>2 DEF StoreWith, With
  <2> QED BY <2>1
<1>5. \A k : /\ k \in DOMAIN index.items => store(k) = index.items[k]
             /\ k \notin DOMAIN index.items => DOMAIN store(k) = {}
  BY DEF Get, Empty
<1> HIDE DEF new, store
<1>6. \A k, p : (k \in DOMAIN new.items /\ p \in DOMAIN new.items[k])
                <=> \/ k \in DOMAIN mapping /\ p = o
                    \/ k \in DOMAIN index.items /\ p \in DOMAIN index.items[k]
  <2> SUFFICES ASSUME NEW k, NEW p
               PROVE (k \in DOMAIN new.items /\ p \in DOMAIN new.items[k])
                <=> \/ k \in DOMAIN mapping /\ p = o
                    \/ k \in DOMAIN index.items /\ p \in DOMAIN index.items[k]
    OBVIOUS
  <2>1. CASE k \in DOMAIN mapping
    BY <1>1, <1>4, <1>5, <2>1
  <2>2. CASE k \notin DOMAIN mapping
    BY <1>1, <1>3, <2>2
  <2> QED BY <2>1, <2>2
<1>7. \A k \in DOMAIN index.items : \A p \in DOMAIN index.items[k] :
        (p # o \/ k \notin DOMAIN mapping) => new.items[k][p] = index.items[k][p]
  BY <1>3, <1>4, <1>5
<1> QED BY <1>4, <1>6, <1>7 DEF new

(* The extended index is consistent but for an object without any keys.    *)
LEMMA ExtendedIsNearlyConsistent ==
    ASSUME NEW index, NEW o, NEW mapping, IsConsistent(index)
    PROVE  /\ NearlyConsistent(Extended(index, o, mapping), o)
           /\ o \in DOMAIN Extended(index, o, mapping).reverse
           /\ Extended(index, o, mapping).reverse[o]
                = Get(index.reverse, o, {}) \cup DOMAIN mapping
<1> DEFINE new == Extended(index, o, mapping)
           known == Get(index.reverse, o, {}) \cup DOMAIN mapping
<1>1. \A k, p : (k \in DOMAIN new.items /\ p \in DOMAIN new.items[k])
                <=> \/ k \in DOMAIN mapping /\ p = o
                    \/ k \in DOMAIN index.items /\ p \in DOMAIN index.items[k]
  BY ExtendedItems
<1>2. new.reverse = With(index.reverse, o, known)
  BY DEF Extended
<1>3. /\ DOMAIN new.reverse = DOMAIN index.reverse \cup {o}
      /\ new.reverse[o] = known
      /\ \A p \in DOMAIN index.reverse : p # o => new.reverse[p] = index.reverse[p]
  BY <1>2 DEF With
<1>4. DOMAIN new.items = DOMAIN index.items \cup DOMAIN mapping
  BY DEF Extended
<1>5. /\ o \in DOMAIN index.reverse => known = index.reverse[o] \cup DOMAIN mapping
      /\ o \notin DOMAIN index.reverse => known = DOMAIN mapping
  BY DEF Get
<1> HIDE DEF new, known
<1>6. \A k \in DOMAIN new.items : DOMAIN new.items[k] # {}
  <2> SUFFICES ASSUME NEW k \in DOMAIN new.items PROVE \E p : p \in DOMAIN new.items[k]
    OBVIOUS
  <2>1. CASE k \in DOMAIN mapping
    BY <1>1, <2>1
  <2>2. CASE k \in DOMAIN index.items
    <3>1. PICK p : p \in DOMAIN index.items[k]
      BY <2>2 DEF IsConsistent
    <3> QED BY <3>1, <2>2, <1>1
  <2> QED BY <2>1, <2>2, <1>4
<1>7. \A k \in DOMAIN new.items : \A p \in DOMAIN new.items[k] :
        p \in DOMAIN new.reverse /\ k \in new.reverse[p]
  <2> SUFFICES ASSUME NEW k \in DOMAIN new.items, NEW p \in DOMAIN new.items[k]
               PROVE  p \in DOMAIN new.reverse /\ k \in new.reverse[p]
    OBVIOUS
  <2>1. CASE k \in DOMAIN mapping /\ p = o
    BY <2>1, <1>3, <1>5
  <2>2. CASE k \in DOMAIN index.items /\ p \in DOMAIN index.items[k]
    <3>1. p \in DOMAIN index.reverse /\ k \in index.reverse[p]
      BY <2>2 DEF IsConsistent
    <3> QED BY <3>1, <1>3, <1>5
  <2> QED BY <2>1, <2>2, <1>1
<1>8. \A p \in DOMAIN new.reverse :
        /\ p # o => new.reverse[p] # {}
        /\ \A k \in new.reverse[p] : k \in DOMAIN new.items /\ p \in DOMAIN new.items[k]
  <2> SUFFICES ASSUME NEW p \in DOMAIN new.reverse
               PROVE  /\ p # o => new.reverse[p] # {}
                      /\ \A k \in new.reverse[p] :
                           k \in DOMAIN new.items /\ p \in DOMAIN new.items[k]
    OBVIOUS
  <2>1. p \in DOMAIN index.reverse =>
          /\ index.reverse[p] # {}
          /\ \A k \in index.reverse[p] : k \in DOMAIN index.items /\ p \in DOMAIN index.items[k]
    BY DEF IsConsistent
  <2>2. CASE p = o
    BY <2>1, <2>2, <1>1, <1>3, <1>5
  <2>3. CASE p # o
    BY <2>1, <2>3, <1>1, <1>3
  <2> QED BY <2>2, <2>3
<1>9. NearlyConsistent(new, o)
  BY <1>6, <1>7, <1>8 DEF NearlyConsistent
<1> QED BY <1>3, <1>9 DEF new, known

(* An object with new values is found with them, and with nothing else.    *)
LEMMA Replacing ==
    ASSUME NEW index, NEW o, NEW mapping, IsConsistent(index),
           mapping = [k \in DOMAIN mapping |-> mapping[k]]
    PROVE  /\ IsConsistent(Replace(index, o, mapping))
           /\ Visible(Replace(index, o, mapping), o) = mapping
           /\ SameForOthers(Replace(index, o, mapping), index, o)
<1> DEFINE mid == Extended(index, o, mapping)
           known == Get(index.reverse, o, {}) \cup DOMAIN mapping
           keys == Stale(known, mapping)
           new == DiscardFrom(mid, o, keys)
<1>1. Replace(index, o, mapping) = new
  BY DEF Replace, Extended
<1>2. NearlyConsistent(mid, o) /\ o \in DOMAIN mid.reverse /\ mid.reverse[o] = known
  BY ExtendedIsNearlyConsistent
<1>3. keys \subseteq mid.reverse[o]
  BY <1>2 DEF Stale
<1>4. /\ \A k, p : (k \in DOMAIN mid.items /\ p \in DOMAIN mid.items[k])
                <=> \/ k \in DOMAIN mapping /\ p = o
                    \/ k \in DOMAIN index.items /\ p \in DOMAIN index.items[k]
      /\ \A k \in DOMAIN mapping : mid.items[k][o] = mapping[k]
      /\ \A k \in DOMAIN index.items : \A p \in DOMAIN index.items[k] :
            (p # o \/ k \notin DOMAIN mapping) => mid.items[k][p] = index.items[k][p]
  BY ExtendedItems
<1> HIDE DEF mid
<1>5. IsConsistent(new)
  BY <1>2, <1>3, DiscardFromIsConsistent
<1>6. /\ SameForOthers(new, mid, o)
      /\ DOMAIN Visible(new, o) = DOMAIN Visible(mid, o) \ keys
      /\ \A k \in DOMAIN Visible(mid, o) \ keys : Visible(new, o)[k] = Visible(mid, o)[k]
  <2>1. IsVisibleBut(new, mid, o, keys)
    BY <1>2, <1>3, DiscardFromIsVisible
  <2> HIDE DEF new, keys
  <2> QED BY <2>1 DEF IsVisibleBut
<1> HIDE DEF new
<1>7. SameForOthers(mid, index, o)
  <2> SUFFICES ASSUME NEW p, p # o PROVE Visible(mid, p) = Visible(index, p)
    BY DEF SameForOthers
  <2>1. {k \in DOMAIN mid.items : p \in DOMAIN mid.items[k]}
          = {k \in DOMAIN index.items : p \in DOMAIN index.items[k]}
    BY <1>4
  <2>2. \A k \in {k \in DOMAIN mid.items : p \in DOMAIN mid.items[k]} :
          mid.items[k][p] = index.items[k][p]
    BY <1>4, <2>1
  <2> QED BY <2>1, <2>2 DEF Visible
<1>8. SameForOthers(new, index, o)
  BY <1>6, <1>7 DEF SameForOthers
<1>9. DOMAIN Visible(mid, o) = known
  <2>1. \A k : k \in DOMAIN Visible(mid, o) <=> k \in DOMAIN mid.items /\ o \in DOMAIN mid.items[k]
    BY DEF Visible
  <2>2. \A k \in known : k \in DOMAIN mid.items /\ o \in DOMAIN mid.items[k]
    BY <1>2 DEF NearlyConsistent
  <2>3. \A k \in DOMAIN mid.items : o \in DOMAIN mid.items[k] => k \in known
    BY <1>2 DEF NearlyConsistent
  <2> QED BY <2>1, <2>2, <2>3
<1>10. DOMAIN Visible(new, o) = DOMAIN mapping
  BY <1>6, <1>9 DEF Stale
<1>11. \A k \in DOMAIN mapping : Visible(new, o)[k] = mapping[k]
  <2> SUFFICES ASSUME NEW k \in DOMAIN mapping PROVE Visible(new, o)[k] = mapping[k]
    OBVIOUS
  <2>1. k \in DOMAIN Visible(mid, o) \ keys
    BY <1>6, <1>10
  <2>2. Visible(mid, o)[k] = mid.items[k][o]
    BY <2>1 DEF Visible
  <2> QED BY <2>1, <2>2, <1>4, <1>6
<1>12. Visible(new, o) = [k \in DOMAIN Visible(new, o) |-> Visible(new, o)[k]]
  BY DEF Visible
<1>13. Visible(new, o) = mapping
  BY <1>10, <1>11, <1>12
<1> QED BY <1>1, <1>5, <1>8, <1>13
-----------------------------------------------------------------------------
(* An attempt fails when it is refused or ends with an error; otherwise    *)
(* its result is what the function returned.                               *)
LEMMA Outcomes ==
    ASSUME NEW h, IsHandler(h), NEW s, NEW t, NEW what \in Attempts
    PROVE  /\ IsOver(h, s, t) \/ IsError(h, what) => OutcomeOf(h, s, t, what).failed
           /\ ~IsOver(h, s, t) /\ ~IsError(h, what) =>
                /\ ~OutcomeOf(h, s, t, what).failed
                /\ OutcomeOf(h, s, t, what).result = what.result
<1> DEFINE outcome == OutcomeOf(h, s, t, what)
<1>1. CASE IsOver(h, s, t)
  BY <1>1 DEF OutcomeOf, Failure
<1>2. CASE ~IsOver(h, s, t)
  <2>1. CASE \E m \in Mappings : what = Returns({m})
    BY <1>2, <2>1 DEF OutcomeOf, Returns, Success, IsError
  <2>2. CASE what = Returns({})
    BY <1>2, <2>2 DEF OutcomeOf, Returns, Success, IsError
  <2>3. CASE what = RaisesPermanent
    BY <1>2, <2>3 DEF OutcomeOf, RaisesPermanent, Failure, IsError
  <2>4. CASE what = RaisesAnything
    <3>1. outcome = OutcomeOfException(h, s, t) /\ what.result = {}
      BY <1>2, <2>4 DEF OutcomeOf, RaisesAnything
    <3>2. IsError(h, what) <=> h.errors # "ignored"
      BY <2>4 DEF RaisesAnything, IsError
    <3> HIDE DEF outcome
    <3>3. CASE h.errors = "ignored"
      <4>1. outcome = Success({})
        BY <3>1, <3>3 DEF OutcomeOfException
      <4> QED BY <1>2, <3>1, <3>2, <3>3, <4>1 DEF Success, outcome
    <3>4. CASE h.errors = "temporary"
      <4>1. outcome = Failure \/ outcome = Retry(h.backoff)
        BY <3>1, <3>4 DEF OutcomeOfException, RetryOrFail
      <4>2. outcome.failed
        BY <4>1 DEF Failure, Retry
      <4> QED BY <3>2, <3>4, <4>2 DEF outcome
    <3>5. CASE h.errors = "permanent"
      <4>1. outcome = Failure
        BY <3>1, <3>5 DEF OutcomeOfException
      <4> QED BY <3>2, <3>5, <4>1 DEF Failure, outcome
    <3>6. h.errors \in {"ignored", "temporary", "permanent"}
      BY DEF IsHandler, ErrorsModes
    <3> QED BY <1>2, <3>3, <3>4, <3>5, <3>6 DEF outcome
  <2>5. CASE \E d \in Delays : what = RaisesTemporary(d)
    <3>1. PICK d : what = RaisesTemporary(d)
      BY <2>5
    <3>2. what.kind = "temporary"
      BY <3>1 DEF RaisesTemporary
    <3>3. outcome = Failure \/ outcome = [Retry(0) EXCEPT !.delay = what.delay]
      BY <1>2, <3>2 DEF OutcomeOf
    <3>4. outcome.failed
      BY <3>3 DEF Failure, Retry
    <3> QED BY <1>2, <3>2, <3>4 DEF IsError
  <2> HIDE DEF outcome
  <2> QED BY <2>1, <2>2, <2>3, <2>4, <2>5 DEF Attempts, outcome
<1> QED BY <1>1, <1>2

(* The results of the attempts are dicts, or nothing.                      *)
LEMMA Results ==
    ASSUME NEW what \in Attempts, what.result # {}
    PROVE  \E m \in Mappings : what.result = {m}
BY DEF Attempts, Returns, RaisesPermanent, RaisesAnything, RaisesTemporary

(* The index of one function after one event: with what it has returned,   *)
(* or as it was, or without the object.                                    *)
ExactFor(index, expected) ==
    IsConsistent(index) /\ \A p \in Objects : Visible(index, p) = expected[p]

(* Replacing and discarding keep an index exact.                           *)
LEMMA ExactAfterReplacing ==
    ASSUME NEW index, NEW expected, NEW o \in Objects, NEW m,
           DOMAIN expected = Objects, ExactFor(index, expected),
           m = [k \in DOMAIN m |-> m[k]]
    PROVE  ExactFor(Replace(index, o, m), [expected EXCEPT ![o] = m])
<1>1. /\ IsConsistent(Replace(index, o, m))
      /\ Visible(Replace(index, o, m), o) = m
      /\ SameForOthers(Replace(index, o, m), index, o)
  BY Replacing DEF ExactFor
<1>2. \A p : p # o => Visible(Replace(index, o, m), p) = Visible(index, p)
  BY <1>1 DEF SameForOthers
<1> QED BY <1>1, <1>2 DEF ExactFor

(* Likewise for discarding.                                                *)
LEMMA ExactAfterDiscarding ==
    ASSUME NEW index, NEW expected, NEW o \in Objects,
           DOMAIN expected = Objects, ExactFor(index, expected)
    PROVE  ExactFor(Discard(index, o), [expected EXCEPT ![o] = Empty])
<1>1. /\ IsConsistent(Discard(index, o))
      /\ Visible(Discard(index, o), o) = Empty
      /\ SameForOthers(Discard(index, o), index, o)
  BY Discarding DEF ExactFor
<1>2. \A p : p # o => Visible(Discard(index, o), p) = Visible(index, p)
  BY <1>1 DEF SameForOthers
<1> QED BY <1>1, <1>2 DEF ExactFor

(* The inductive invariant: the history has all objects for all indices.   *)
Exact ==
    \A i \in Ids : DOMAIN last[i] = Objects /\ ExactFor(indexers[i], last[i])

(* It is what the property says.                                           *)
LEMMA ExactIsExact == Exact => IndicesAreExact
BY DEF Exact, ExactFor, IndicesAreExact

(* An event for an object keeps the indices exact.                         *)
LEMMA IndexKeepsExact ==
    ASSUME Exact, NEW o \in Objects, Index(o)
    PROVE  Exact'
<1>1. PICK matching \in SUBSET Ids :
        LET state == WithHandlers(memory[o], matching)
            planned == {i \in matching : Awakened(state[i], now)}
            called == {i \in planned : ~IsOver(Handler[i], state[i], now)}
        IN \E what \in [planned -> Attempts] :
            LET outcomes == [i \in planned |->
                                OutcomeOf(Handler[i], state[i], now, what[i])]
            IN /\ indexers' = ReplaceAll(o, outcomes)
               /\ last' = [i \in Ids |-> [last[i] EXCEPT ![o] =
                    IF i \in called /\ ~IsError(Handler[i], what[i])
                    THEN IF what[i].result = {} THEN @
                         ELSE CHOOSE m \in what[i].result : TRUE
                    ELSE Empty]]
  BY DEF Index
<1> DEFINE state == WithHandlers(memory[o], matching)
           planned == {i \in matching : Awakened(state[i], now)}
           called == {i \in planned : ~IsOver(Handler[i], state[i], now)}
<1>5. PICK what \in [planned -> Attempts] :
        /\ indexers' = ReplaceAll(o, [i \in planned |->
                                OutcomeOf(Handler[i], state[i], now, what[i])])
        /\ last' = [i \in Ids |-> [last[i] EXCEPT ![o] =
                    IF i \in called /\ ~IsError(Handler[i], what[i])
                    THEN IF what[i].result = {} THEN @
                         ELSE CHOOSE m \in what[i].result : TRUE
                    ELSE Empty]]
  BY <1>1, Zenon
<1>4. called = {i \in planned : ~IsOver(Handler[i], state[i], now)}
  OBVIOUS
<1> HIDE DEF state, planned, called
<1> DEFINE outcomes == [i \in planned |-> OutcomeOf(Handler[i], state[i], now, what[i])]
<1>6. outcomes = [i \in planned |-> OutcomeOf(Handler[i], state[i], now, what[i])]
  OBVIOUS
<1>7. \A i \in Ids : indexers'[i] =
        IF i \notin DOMAIN outcomes \/ outcomes[i].failed THEN Discard(indexers[i], o)
        ELSE IF outcomes[i].result = {} THEN indexers[i]
        ELSE Replace(indexers[i], o, CHOOSE m \in outcomes[i].result : TRUE)
  BY <1>5 DEF ReplaceAll
<1> HIDE DEF outcomes
<1>8. SUFFICES ASSUME NEW i \in Ids
               PROVE  DOMAIN last'[i] = Objects /\ ExactFor(indexers'[i], last'[i])
  BY DEF Exact, ExactFor
<1>9. DOMAIN last[i] = Objects /\ ExactFor(indexers[i], last[i])
  BY DEF Exact
<1>10. last'[i] = [last[i] EXCEPT ![o] =
                    IF i \in called /\ ~IsError(Handler[i], what[i])
                    THEN IF what[i].result = {} THEN last[i][o]
                         ELSE CHOOSE m \in what[i].result : TRUE
                    ELSE Empty]
  BY <1>5
<1>11. DOMAIN last'[i] = Objects
  BY <1>9, <1>10
<1>12. i \in planned => outcomes[i] = OutcomeOf(Handler[i], state[i], now, what[i])
  BY <1>6
<1>13. i \in planned => what[i] \in Attempts
  OBVIOUS
<1>14. IsHandler(Handler[i])
  BY IndexingAssumption
<1>15. CASE i \in called /\ ~IsError(Handler[i], what[i])
  <2>1. i \in planned /\ ~IsOver(Handler[i], state[i], now)
    BY <1>4, <1>15
  <2>2. ~outcomes[i].failed /\ outcomes[i].result = what[i].result
    BY <2>1, <1>12, <1>13, <1>14, <1>15, Outcomes
  <2>3. i \in DOMAIN outcomes
    BY <2>1, <1>6
  <2>4. CASE what[i].result = {}
    <3>1. indexers'[i] = indexers[i]
      BY <1>7, <2>2, <2>3, <2>4
    <3>2. last'[i] = [last[i] EXCEPT ![o] = last[i][o]]
      BY <1>10, <1>15, <2>4
    <3> QED BY <1>9, <1>11, <3>1, <3>2 DEF ExactFor
  <2>5. CASE what[i].result # {}
    <3>1. PICK m \in Mappings : what[i].result = {m}
      BY <2>1, <2>5, <1>13, Results
    <3>2. (CHOOSE x \in what[i].result : TRUE) = m
      BY <3>1
    <3>3. indexers'[i] = Replace(indexers[i], o, m)
      BY <1>7, <2>2, <2>3, <2>5, <3>2
    <3>4. last'[i] = [last[i] EXCEPT ![o] = m]
      BY <1>10, <1>15, <2>5, <3>2
    <3>5. m = [k \in DOMAIN m |-> m[k]]
      BY IndexingAssumption
    <3>6. ExactFor(Replace(indexers[i], o, m), [last[i] EXCEPT ![o] = m])
      BY <1>9, <3>5, ExactAfterReplacing
    <3> QED BY <1>11, <3>3, <3>4, <3>6
  <2> QED BY <2>4, <2>5
<1>16. CASE ~(i \in called /\ ~IsError(Handler[i], what[i]))
  <2>1. i \notin DOMAIN outcomes \/ outcomes[i].failed
    <3>1. CASE i \in planned
      <4>1. IsOver(Handler[i], state[i], now) \/ IsError(Handler[i], what[i])
        BY <1>4, <1>16, <3>1
      <4> QED BY <4>1, <3>1, <1>12, <1>13, <1>14, Outcomes
    <3>2. CASE i \notin planned
      BY <1>6, <3>2
    <3> QED BY <3>1, <3>2
  <2>2. indexers'[i] = Discard(indexers[i], o)
    BY <1>7, <2>1
  <2>3. last'[i] = [last[i] EXCEPT ![o] = Empty]
    BY <1>10, <1>16
  <2>4. ExactFor(Discard(indexers[i], o), [last[i] EXCEPT ![o] = Empty])
    BY <1>9, ExactAfterDiscarding
  <2> QED BY <1>11, <2>2, <2>3, <2>4
<1> QED BY <1>15, <1>16

(* So does a deletion.                                                     *)
LEMMA DeleteKeepsExact ==
    ASSUME Exact, NEW o \in Objects, Delete(o)
    PROVE  Exact'
<1>1. SUFFICES ASSUME NEW i \in Ids
               PROVE  DOMAIN last'[i] = Objects /\ ExactFor(indexers'[i], last'[i])
  BY DEF Exact, ExactFor
<1>2. DOMAIN last[i] = Objects /\ ExactFor(indexers[i], last[i])
  BY DEF Exact
<1>3. indexers'[i] = Discard(indexers[i], o) /\ last'[i] = [last[i] EXCEPT ![o] = Empty]
  BY DEF Delete, DiscardAll
<1>4. ExactFor(Discard(indexers[i], o), [last[i] EXCEPT ![o] = Empty])
  BY <1>2, ExactAfterDiscarding
<1> QED BY <1>2, <1>3, <1>4

(* For any objects, functions and errors, what is found in the indices is  *)
(* exactly what the functions have returned for the objects as they are:   *)
(* nothing is lost, nothing is left behind, in any order of the events.    *)
THEOREM Exactness == Spec => []IndicesAreExact
<1>1. Init => Exact
  BY DEF Init, Exact, ExactFor, EmptyIndex, Empty, IsConsistent, Visible
<1>2. Exact /\ [Next]_vars => Exact'
  <2> SUFFICES ASSUME Exact, [Next]_vars PROVE Exact'
    OBVIOUS
  <2>1. ASSUME NEW o \in Objects, Index(o) PROVE Exact'
    BY <2>1, IndexKeepsExact
  <2>2. ASSUME NEW o \in Objects, Delete(o) PROVE Exact'
    BY <2>2, DeleteKeepsExact
  <2>3. CASE Tick
    BY <2>3 DEF Tick, Exact, ExactFor
  <2>4. CASE UNCHANGED vars
    BY <2>4 DEF vars, Exact, ExactFor
  <2> QED BY <2>1, <2>2, <2>3, <2>4 DEF Next
<1> QED BY <1>1, <1>2, ExactIsExact, PTL DEF Spec
-----------------------------------------------------------------------------
(* The records of the progress, and the errors of the history, of one      *)
(* function for one object: the record knows all that excludes the object. *)
Records == [started : Nat, delayed : SUBSET Int, retries : Nat,
            success : BOOLEAN, failure : BOOLEAN]
Troubles == [since : SUBSET Int, fails : Nat, until : Int, forever : BOOLEAN]

Knows(r, t, time) ==
    /\ r \in Records /\ t \in Troubles
    /\ r.started <= time
    /\ t.fails <= r.retries
    /\ \A since \in t.since : r.started <= since
    /\ t.forever => r.failure
    /\ r.failure \/ t.until <= time \/ \E x \in r.delayed : t.until <= x

(* A new record of a function without errors knows all there is.           *)
LEMMA ScratchKnows ==
    ASSUME NEW time \in Nat PROVE Knows(Scratch(time), NoTrouble, time)
BY DEF Knows, Scratch, NoTrouble, Records, Troubles

(* What is known remains known when the time goes on.                      *)
LEMMA KnowsLater ==
    ASSUME NEW time \in Nat, NEW r, NEW t, Knows(r, t, time)
    PROVE  Knows(r, t, time + 1)
BY DEF Knows, Records, Troubles

(* The handlers that are awake and not over do not exclude the object.     *)
LEMMA AwakeIsIncluded ==
    ASSUME NEW h, IsHandler(h), NEW r, NEW t, now \in Nat, Knows(r, t, now),
           Awakened(r, now), ~IsOver(h, r, now)
    PROVE  ~Excluded(h, t)
<1>1. /\ r.started \in Nat /\ r.retries \in Nat /\ r.delayed \subseteq Int
      /\ t.fails \in Nat /\ t.until \in Int /\ t.since \subseteq Int
  BY DEF Knows, Records, Troubles
<1>2. ~r.success /\ ~r.failure /\ \A x \in r.delayed : ~(x > now)
  BY DEF Awakened, Sleeping, Finished
<1>3. ~t.forever
  BY <1>2 DEF Knows
<1>4. ~(now < t.until)
  BY <1>1, <1>2 DEF Knows
<1>5. ASSUME NEW limit \in h.retries PROVE ~(t.fails >= limit)
  <2>1. limit \in Nat
    BY DEF IsHandler, IsLimit
  <2>2. ~(r.retries >= limit)
    BY <1>5 DEF IsOver
  <2>3. t.fails <= r.retries
    BY DEF Knows
  <2> QED BY <1>1, <2>1, <2>2, <2>3
<1>6. ASSUME NEW limit \in h.timeout, NEW since \in t.since PROVE ~(now - since >= limit)
  <2>1. limit \in Nat
    BY DEF IsHandler, IsLimit
  <2>2. ~(now - r.started >= limit)
    BY <1>6 DEF IsOver
  <2>3. r.started <= since
    BY DEF Knows
  <2> QED BY <1>1, <2>1, <2>2, <2>3
<1> QED BY <1>3, <1>4, <1>5, <1>6 DEF Excluded

(* A handler that is over is not called but fails: no new errors.          *)
LEMMA OverKnows ==
    ASSUME NEW h, NEW r, NEW t, NEW what, now \in Nat, Knows(r, t, now), IsOver(h, r, now)
    PROVE  /\ Knows(WithOutcome(r, OutcomeOf(h, r, now, what), now), t, now)
           /\ ~WithOutcome(r, OutcomeOf(h, r, now, what), now).success
<1>1. OutcomeOf(h, r, now, what) = Failure
  BY DEF OutcomeOf
<1>2. WithOutcome(r, Failure, now)
        = [r EXCEPT !.delayed = {}, !.retries = r.retries + 1, !.success = FALSE, !.failure = TRUE]
  BY DEF WithOutcome, Failure
<1> DEFINE new == WithOutcome(r, OutcomeOf(h, r, now, what), now)
<1>3. r \in Records /\ t \in Troubles /\ t.fails <= r.retries /\ r.started <= now
      /\ \A since \in t.since : r.started <= since
  BY DEF Knows
<1>4. new = [r EXCEPT !.delayed = {}, !.retries = r.retries + 1, !.success = FALSE, !.failure = TRUE]
  BY <1>1, <1>2
<1> HIDE DEF new
<1>5. /\ ~new.success /\ new.failure
      /\ new.started = r.started /\ new.retries = r.retries + 1 /\ new.delayed = {}
  BY <1>3, <1>4 DEF Records
<1>8. new = [started |-> r.started, delayed |-> {}, retries |-> r.retries + 1,
             success |-> FALSE, failure |-> TRUE]
  BY <1>3, <1>4 DEF Records
<1>9. new \in Records
  <2>1. r.started \in Nat /\ r.retries + 1 \in Nat
    BY <1>3 DEF Records
  <2> QED BY <1>8, <2>1 DEF Records
<1>6. t.fails <= new.retries
  BY <1>3, <1>5 DEF Records, Troubles
<1>7. Knows(new, t, now)
  BY <1>3, <1>5, <1>6, <1>9 DEF Knows
<1> QED BY <1>5, <1>7 DEF new

(* A handler that is called either succeeds, and is forgotten with all its *)
(* errors, or its record knows the new error, too.                         *)
LEMMA CalledKnows ==
    ASSUME NEW h, IsHandler(h), NEW r, NEW t, NEW what \in Attempts, now \in Nat,
           Knows(r, t, now), ~IsOver(h, r, now)
    PROVE  /\ ~IsError(h, what) =>
                /\ WithOutcome(r, OutcomeOf(h, r, now, what), now).success
                /\ Troubled(h, t, what) = NoTrouble
           /\ IsError(h, what) =>
                /\ ~WithOutcome(r, OutcomeOf(h, r, now, what), now).success
                /\ Knows(WithOutcome(r, OutcomeOf(h, r, now, what), now),
                         Troubled(h, t, what), now)
<1> DEFINE outcome == OutcomeOf(h, r, now, what)
           new == WithOutcome(r, outcome, now)
           more == Troubled(h, t, what)
<1>1. new = [r EXCEPT !.delayed = {now + d : d \in outcome.delay}, !.retries = r.retries + 1,
                      !.success = outcome.final /\ ~outcome.failed,
                      !.failure = outcome.final /\ outcome.failed]
  BY DEF WithOutcome
<1>2. r \in Records /\ t \in Troubles /\ r.started <= now /\ t.fails <= r.retries
      /\ \A since \in t.since : r.started <= since
  BY DEF Knows
<1>3. /\ new.started = r.started
      /\ new.delayed = {now + d : d \in outcome.delay}
      /\ new.retries = r.retries + 1
      /\ new.success = (outcome.final /\ ~outcome.failed)
      /\ new.failure = (outcome.final /\ outcome.failed)
  BY <1>1, <1>2 DEF Records
<1>4. ASSUME ~IsError(h, what) PROVE new.success /\ more = NoTrouble
  <2>1. outcome \in {Success(x) : x \in {what.result, {}}}
    <3>1. CASE what.kind = "returns"
      BY <3>1 DEF OutcomeOf
    <3>2. CASE what.kind # "returns"
      <4>1. what.kind = "arbitrary" /\ h.errors = "ignored"
        BY <1>4, <3>2 DEF IsError, Attempts, Returns, RaisesPermanent, RaisesAnything,
                          RaisesTemporary
      <4>2. outcome = OutcomeOfException(h, r, now)
        BY <4>1 DEF OutcomeOf
      <4> QED BY <4>1, <4>2 DEF OutcomeOfException
    <3> QED BY <3>1, <3>2
  <2>2. outcome.final /\ ~outcome.failed
    BY <2>1 DEF Success
  <2>3. more = NoTrouble
    BY <1>4 DEF Troubled
  <2> HIDE DEF outcome, new
  <2> QED BY <2>2, <2>3, <1>3
<1>5. ASSUME IsError(h, what) PROVE ~new.success /\ Knows(new, more, now)
  <2>1. more = [since |-> IF t.since = {} THEN {now} ELSE t.since,
                fails |-> t.fails + 1,
                until |-> CASE what.kind = "temporary" ->
                                    now + (CHOOSE d \in what.delay : TRUE)
                            [] what.kind = "arbitrary" /\ h.errors = "temporary" ->
                                    now + h.backoff
                            [] OTHER -> now,
                forever |-> what.kind = "permanent"
                              \/ (what.kind = "arbitrary" /\ h.errors = "permanent")]
    BY <1>5 DEF Troubled
  <2>2. \/ outcome = Failure
        \/ /\ what.kind = "temporary"
           /\ \E d \in Delays : what.delay = {d}
           /\ outcome = [Retry(0) EXCEPT !.delay = what.delay]
        \/ /\ what.kind = "arbitrary" /\ h.errors = "temporary"
           /\ outcome = Retry(h.backoff)
    <3>1. CASE \E d \in Delays : what = RaisesTemporary(d)
      <4>1. what.kind = "temporary" /\ \E d \in Delays : what.delay = {d}
        BY <3>1 DEF RaisesTemporary
      <4> QED BY <4>1 DEF OutcomeOf
    <3>2. CASE what = RaisesPermanent
      BY <3>2 DEF RaisesPermanent, OutcomeOf
    <3>3. CASE what = RaisesAnything
      <4>1. what.kind = "arbitrary" /\ h.errors # "ignored"
        BY <1>5, <3>3 DEF RaisesAnything, IsError
      <4>2. outcome = OutcomeOfException(h, r, now)
        BY <4>1 DEF OutcomeOf
      <4>3. h.errors = "temporary" \/ h.errors = "permanent"
        BY <4>1 DEF IsHandler, ErrorsModes
      <4> QED BY <4>1, <4>2, <4>3 DEF OutcomeOfException, RetryOrFail
    <3>4. what.kind # "returns"
      BY <1>5 DEF IsError
    <3> QED BY <3>1, <3>2, <3>3, <3>4 DEF Attempts, Returns
  <2> HIDE DEF outcome, new, more
  <2>3. outcome.failed /\ outcome.final \in BOOLEAN
        /\ \E d \in Nat : outcome.delay \subseteq {d}
    <3>1. h.backoff \in Nat /\ Delays \subseteq Nat
      BY IndexingAssumption DEF IsHandler
    <3>2. CASE outcome = Failure
      BY <3>2 DEF Failure
    <3>3. CASE (\E d \in Delays : what.delay = {d})
               /\ outcome = [Retry(0) EXCEPT !.delay = what.delay]
      BY <3>1, <3>3 DEF Retry
    <3>4. CASE outcome = Retry(h.backoff)
      BY <3>1, <3>4 DEF Retry
    <3> QED BY <2>2, <3>2, <3>3, <3>4
  <2>4. ~new.success /\ new.failure = outcome.final
    BY <1>3, <2>3
  <2>5. new \in Records
    <3>1. {now + d : d \in outcome.delay} \subseteq Int
      BY <2>3
    <3>2. new.failure \in BOOLEAN /\ new.success \in BOOLEAN /\ new.retries \in Nat
          /\ new.started \in Nat /\ new.delayed \in SUBSET Int
      BY <1>2, <1>3, <2>3, <2>4, <3>1 DEF Records
    <3>3. new = [started |-> new.started, delayed |-> new.delayed, retries |-> new.retries,
                 success |-> new.success, failure |-> new.failure]
      BY <1>1, <1>2 DEF Records
    <3> QED BY <3>2, <3>3 DEF Records
  <2>6. what.kind = "temporary" => \E d \in Delays : what.delay = {d}
    BY DEF Attempts, Returns, RaisesPermanent, RaisesAnything, RaisesTemporary
  <2>7. more.until \in Int
    <3>1. CASE what.kind = "temporary"
      <4>1. PICK d \in Delays : what.delay = {d}
        BY <2>6, <3>1
      <4>2. (CHOOSE x \in what.delay : TRUE) = d /\ d \in Nat
        BY <4>1, IndexingAssumption
      <4>3. more.until = now + d
        BY <2>1, <3>1, <4>2
      <4> QED BY <4>2, <4>3
    <3>2. CASE what.kind = "arbitrary" /\ h.errors = "temporary"
      <4>0. what.kind # "temporary"
        BY <3>2
      <4>1. more.until = now + h.backoff
        BY <2>1, <3>2, <4>0
      <4>2. h.backoff \in Nat
        BY DEF IsHandler
      <4> QED BY <4>1, <4>2
    <3>3. CASE what.kind # "temporary" /\ ~(what.kind = "arbitrary" /\ h.errors = "temporary")
      BY <2>1, <3>3
    <3> QED BY <3>1, <3>2, <3>3
  <2>8. more \in Troubles
    <3>1. more.since \in SUBSET Int /\ more.fails \in Nat /\ more.forever \in BOOLEAN
      BY <1>2, <2>1 DEF Troubles
    <3> QED BY <2>1, <2>7, <3>1 DEF Troubles
  <2>9. \A since \in more.since : new.started <= since
    BY <1>2, <1>3, <2>1
  <2>10. more.fails <= new.retries /\ new.started <= now
    BY <1>2, <1>3, <2>1 DEF Records, Troubles
  <2>11. CASE outcome = Failure
    <3>1. new.failure
      BY <2>4, <2>11 DEF Failure
    <3> QED BY <2>4, <2>5, <2>8, <2>9, <2>10, <3>1 DEF Knows
  <2>12. CASE /\ what.kind = "temporary"
              /\ outcome = [Retry(0) EXCEPT !.delay = what.delay]
    <3>1. PICK d \in Delays : what.delay = {d}
      BY <2>6, <2>12
    <3>2. outcome.delay = {d}
      BY <2>12, <3>1 DEF Retry
    <3>3. (CHOOSE x \in what.delay : TRUE) = d /\ d \in Nat
      BY <3>1, IndexingAssumption
    <3>4. more.until = now + d /\ ~more.forever /\ new.delayed = {now + d}
      BY <1>3, <2>1, <2>12, <3>2, <3>3
    <3> QED BY <2>4, <2>5, <2>8, <2>9, <2>10, <3>3, <3>4 DEF Knows
  <2>13. CASE /\ what.kind = "arbitrary" /\ h.errors = "temporary"
              /\ outcome = Retry(h.backoff)
    <3>1. outcome.delay = {h.backoff} /\ h.backoff \in Nat
      BY <2>13 DEF Retry, IsHandler
    <3>2. more.until = now + h.backoff /\ ~more.forever /\ new.delayed = {now + h.backoff}
      BY <1>3, <2>1, <2>13, <3>1
    <3> QED BY <2>4, <2>5, <2>8, <2>9, <2>10, <3>1, <3>2 DEF Knows
  <2> QED BY <2>2, <2>11, <2>12, <2>13
<1> QED BY <1>4, <1>5
-----------------------------------------------------------------------------
(* The inductive invariant: whatever is remembered of an object for one    *)
(* function, knows its errors; and what is forgotten, has none.            *)
KnownFor(records, troubles, i, time) ==
    /\ i \in DOMAIN records =>
          Knows(records[i], troubles[i], time) /\ ~records[i].success
    /\ i \notin DOMAIN records => troubles[i] = NoTrouble

Remembers ==
    /\ now \in Nat /\ ~abused
    /\ DOMAIN memory = Objects /\ DOMAIN trouble = Objects
    /\ \A o \in Objects, i \in Ids : KnownFor(memory[o], trouble[o], i, now)

(* An event for an object: each function's record and errors are updated   *)
(* together, and no function is called for what it excludes.               *)
LEMMA IndexRemembers ==
    ASSUME Remembers, NEW o \in Objects, Index(o)
    PROVE  Remembers'
<1>1. PICK matching \in SUBSET Ids :
        LET state == WithHandlers(memory[o], matching)
            planned == {i \in matching : Awakened(state[i], now)}
            called == {i \in planned : ~IsOver(Handler[i], state[i], now)}
        IN \E what \in [planned -> Attempts] :
            LET outcomes == [i \in planned |->
                                OutcomeOf(Handler[i], state[i], now, what[i])]
            IN /\ memory' = [memory EXCEPT ![o] =
                                WithoutSuccesses(WithOutcomes(state, outcomes))]
               /\ trouble' = [trouble EXCEPT ![o] = [i \in Ids |->
                    IF i \in called THEN Troubled(Handler[i], @[i], what[i]) ELSE @[i]]]
               /\ abused' = (abused \/ \E i \in called : Excluded(Handler[i], trouble[o][i]))
               /\ UNCHANGED now
  BY DEF Index
<1> DEFINE state == WithHandlers(memory[o], matching)
           planned == {i \in matching : Awakened(state[i], now)}
           called == {i \in planned : ~IsOver(Handler[i], state[i], now)}
<1>2. PICK what \in [planned -> Attempts] :
        /\ memory' = [memory EXCEPT ![o] = WithoutSuccesses(WithOutcomes(state,
                [i \in planned |-> OutcomeOf(Handler[i], state[i], now, what[i])]))]
        /\ trouble' = [trouble EXCEPT ![o] = [i \in Ids |->
                IF i \in called THEN Troubled(Handler[i], @[i], what[i]) ELSE @[i]]]
        /\ abused' = (abused \/ \E i \in called : Excluded(Handler[i], trouble[o][i]))
        /\ UNCHANGED now
  BY <1>1, Zenon
<1> DEFINE outcomes == [i \in planned |-> OutcomeOf(Handler[i], state[i], now, what[i])]
           updated == WithOutcomes(state, outcomes)
           records == WithoutSuccesses(updated)
<1>3. now \in Nat /\ ~abused /\ DOMAIN memory = Objects /\ DOMAIN trouble = Objects
  BY DEF Remembers
<1>4. memory'[o] = records /\ DOMAIN memory' = Objects
      /\ \A p \in Objects : p # o => memory'[p] = memory[p]
  BY <1>2, <1>3
<1>5. /\ DOMAIN trouble' = Objects
      /\ \A p \in Objects : p # o => trouble'[p] = trouble[p]
      /\ \A i \in Ids :
            /\ i \in called => trouble'[o][i] = Troubled(Handler[i], trouble[o][i], what[i])
            /\ i \notin called => trouble'[o][i] = trouble[o][i]
  BY <1>2, <1>3
<1>6. /\ DOMAIN state = DOMAIN memory[o] \cup matching
      /\ \A i \in DOMAIN memory[o] : state[i] = memory[o][i]
      /\ \A i \in matching : i \notin DOMAIN memory[o] => state[i] = Scratch(now)
  BY DEF WithHandlers, Get
<1>7. planned \subseteq matching /\ called \subseteq planned
      /\ \A i \in planned :
            /\ Awakened(state[i], now)
            /\ i \in called <=> ~IsOver(Handler[i], state[i], now)
  OBVIOUS
<1>8. DOMAIN updated = DOMAIN state
      /\ \A i \in DOMAIN state :
            /\ i \in planned => updated[i] = WithOutcome(state[i],
                                    OutcomeOf(Handler[i], state[i], now, what[i]), now)
            /\ i \notin planned => updated[i] = state[i]
  BY DEF WithOutcomes
<1>9. \A i : /\ i \in DOMAIN records <=> i \in DOMAIN updated /\ ~updated[i].success
             /\ i \in DOMAIN records => records[i] = updated[i]
  BY DEF WithoutSuccesses
<1>10. \A i \in planned : what[i] \in Attempts
  OBVIOUS
<1> HIDE DEF state, planned, called, outcomes, updated, records
<1>11. \A i \in Ids : KnownFor(memory[o], trouble[o], i, now)
  BY DEF Remembers
<1>12. \A i \in DOMAIN state \cap Ids :
          Knows(state[i], trouble[o][i], now) /\ ~state[i].success
  <2> SUFFICES ASSUME NEW i \in DOMAIN state \cap Ids
               PROVE  Knows(state[i], trouble[o][i], now) /\ ~state[i].success
    OBVIOUS
  <2>1. CASE i \in DOMAIN memory[o]
    BY <2>1, <1>6, <1>11 DEF KnownFor
  <2>2. CASE i \notin DOMAIN memory[o]
    <3>1. state[i] = Scratch(now) /\ trouble[o][i] = NoTrouble
      BY <2>2, <1>6, <1>11 DEF KnownFor
    <3>2. ~Scratch(now).success
      BY DEF Scratch
    <3> QED BY <3>1, <3>2, <1>3, ScratchKnows
  <2> QED BY <2>1, <2>2
<1>13. \A i \in called : ~Excluded(Handler[i], trouble[o][i])
  <2> SUFFICES ASSUME NEW i \in called PROVE ~Excluded(Handler[i], trouble[o][i])
    OBVIOUS
  <2>1. /\ i \in DOMAIN state \cap Ids /\ i \in planned
        /\ Awakened(state[i], now) /\ ~IsOver(Handler[i], state[i], now)
    BY <1>6, <1>7
  <2>2. IsHandler(Handler[i])
    BY <2>1, IndexingAssumption
  <2> QED BY <2>1, <2>2, <1>3, <1>12, AwakeIsIncluded
<1>14. ~abused'
  BY <1>2, <1>3, <1>13
<1>15. \A i \in Ids : KnownFor(records, trouble'[o], i, now)
  <2> SUFFICES ASSUME NEW i \in Ids PROVE KnownFor(records, trouble'[o], i, now)
    OBVIOUS
  <2>1. IsHandler(Handler[i])
    BY IndexingAssumption
  <2>2. CASE i \in called
    <3>1. /\ i \in planned /\ i \in DOMAIN state /\ what[i] \in Attempts
          /\ ~IsOver(Handler[i], state[i], now)
      BY <2>2, <1>6, <1>7, <1>10
    <3>2. updated[i] = WithOutcome(state[i],
                                   OutcomeOf(Handler[i], state[i], now, what[i]), now)
      BY <3>1, <1>8
    <3>3. trouble'[o][i] = Troubled(Handler[i], trouble[o][i], what[i])
      BY <2>2, <1>5
    <3>4. Knows(state[i], trouble[o][i], now)
      BY <3>1, <1>12
    <3>5. /\ ~IsError(Handler[i], what[i]) =>
               updated[i].success /\ trouble'[o][i] = NoTrouble
          /\ IsError(Handler[i], what[i]) =>
               ~updated[i].success /\ Knows(updated[i], trouble'[o][i], now)
      BY <2>1, <3>1, <3>2, <3>3, <3>4, <1>3, CalledKnows
    <3> QED BY <3>1, <3>5, <1>8, <1>9 DEF KnownFor
  <2>3. CASE i \in planned /\ i \notin called
    <3>1. /\ i \in DOMAIN state /\ IsOver(Handler[i], state[i], now)
      BY <2>3, <1>6, <1>7
    <3>2. updated[i] = WithOutcome(state[i],
                                   OutcomeOf(Handler[i], state[i], now, what[i]), now)
      BY <2>3, <3>1, <1>8
    <3>3. trouble'[o][i] = trouble[o][i]
      BY <2>3, <1>5
    <3>4. Knows(state[i], trouble[o][i], now)
      BY <3>1, <1>12
    <3>5. ~updated[i].success /\ Knows(updated[i], trouble'[o][i], now)
      BY <3>1, <3>2, <3>3, <3>4, <1>3, OverKnows
    <3> QED BY <3>1, <3>5, <1>8, <1>9 DEF KnownFor
  <2>4. CASE i \notin planned
    <3>1. trouble'[o][i] = trouble[o][i]
      BY <2>4, <1>5, <1>7
    <3>2. CASE i \in DOMAIN state
      <4>1. updated[i] = state[i] /\ ~state[i].success
        BY <2>4, <3>2, <1>8, <1>12
      <4>2. Knows(state[i], trouble[o][i], now)
        BY <3>2, <1>12
      <4> QED BY <3>1, <3>2, <4>1, <4>2, <1>8, <1>9 DEF KnownFor
    <3>3. CASE i \notin DOMAIN state
      <4>1. trouble[o][i] = NoTrouble
        BY <3>3, <1>6, <1>11 DEF KnownFor
      <4> QED BY <3>1, <3>3, <4>1, <1>8, <1>9 DEF KnownFor
    <3> QED BY <3>2, <3>3
  <2> QED BY <2>2, <2>3, <2>4
<1>16. \A p \in Objects, i \in Ids : KnownFor(memory'[p], trouble'[p], i, now)
  <2> SUFFICES ASSUME NEW p \in Objects, NEW i \in Ids
               PROVE  KnownFor(memory'[p], trouble'[p], i, now)
    OBVIOUS
  <2>1. CASE p = o
    BY <2>1, <1>4, <1>15
  <2>2. CASE p # o
    <3>1. memory'[p] = memory[p] /\ trouble'[p] = trouble[p]
      BY <2>2, <1>4, <1>5
    <3> QED BY <3>1 DEF Remembers
  <2> QED BY <2>1, <2>2
<1>17. now' = now
  BY <1>2
<1> QED BY <1>3, <1>4, <1>5, <1>14, <1>16, <1>17 DEF Remembers

(* A deletion forgets the object with all its errors.                      *)
LEMMA DeleteRemembers ==
    ASSUME Remembers, NEW o \in Objects, Delete(o)
    PROVE  Remembers'
<1>1. /\ now \in Nat /\ ~abused /\ DOMAIN memory = Objects /\ DOMAIN trouble = Objects
      /\ now' = now /\ abused' = abused
  BY DEF Remembers, Delete
<1>2. /\ memory' = [memory EXCEPT ![o] = Empty]
      /\ trouble' = [trouble EXCEPT ![o] = [i \in Ids |-> NoTrouble]]
  BY DEF Delete
<1>3. ASSUME NEW p \in Objects, NEW i \in Ids
      PROVE  KnownFor(memory'[p], trouble'[p], i, now)
  <2>1. CASE p = o
    <3>1. DOMAIN memory'[p] = {} /\ trouble'[p][i] = NoTrouble
      BY <1>1, <1>2, <2>1 DEF Empty
    <3> QED BY <3>1 DEF KnownFor
  <2>2. CASE p # o
    <3>1. memory'[p] = memory[p] /\ trouble'[p] = trouble[p]
      BY <1>1, <1>2, <2>2
    <3> QED BY <3>1 DEF Remembers
  <2> QED BY <2>1, <2>2
<1>4. DOMAIN memory' = Objects /\ DOMAIN trouble' = Objects
  BY <1>1, <1>2
<1> QED BY <1>1, <1>3, <1>4 DEF Remembers

(* The clock takes nothing away from what is known.                        *)
LEMMA TickRemembers ==
    ASSUME Remembers, Tick PROVE Remembers'
<1>1. now \in Nat /\ now' = now + 1 /\ UNCHANGED << memory, trouble, abused >>
  BY DEF Remembers, Tick
<1>2. ASSUME NEW o \in Objects, NEW i \in Ids
      PROVE  KnownFor(memory[o], trouble[o], i, now + 1)
  <2>1. KnownFor(memory[o], trouble[o], i, now)
    BY DEF Remembers
  <2> QED BY <2>1, <1>1, KnowsLater DEF KnownFor
<1> QED BY <1>1, <1>2 DEF Remembers

(* For any limits, delays and modes of errors, no indexing function is     *)
(* called for an object that its errors exclude.                           *)
THEOREM ExclusionsAreRespected == Spec => []ExclusionIsRespected
<1>1. Init => Remembers
  BY DEF Init, Remembers, KnownFor, Empty
<1>2. Remembers /\ [Next]_vars => Remembers'
  <2> SUFFICES ASSUME Remembers, [Next]_vars PROVE Remembers'
    OBVIOUS
  <2>1. ASSUME NEW o \in Objects, Index(o) PROVE Remembers'
    BY <2>1, IndexRemembers
  <2>2. ASSUME NEW o \in Objects, Delete(o) PROVE Remembers'
    BY <2>2, DeleteRemembers
  <2>3. CASE Tick
    BY <2>3, TickRemembers
  <2>4. CASE UNCHANGED vars
    BY <2>4 DEF vars, Remembers
  <2> QED BY <2>1, <2>2, <2>3, <2>4 DEF Next
<1>3. Remembers => ExclusionIsRespected
  BY DEF Remembers, ExclusionIsRespected
<1> QED BY <1>1, <1>2, <1>3, PTL DEF Spec

=============================================================================
