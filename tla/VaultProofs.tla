----------------------------- MODULE VaultProofs -----------------------------
(***************************************************************************)
(* For any number of calls, login handlers and credentials: nobody misses  *)
(* a notification of the vault, the login handlers are run only when the   *)
(* vault is depleted, no credentials are dropped because of the older      *)
(* ones of the same handler, and nobody is stuck.                          *)
(***************************************************************************)
EXTENDS Vault, FiniteSetTheorems, WellFoundedInduction, TLAPS

-----------------------------------------------------------------------------
(* The inductive invariant.  The queues of the event loop and of the lock  *)
(* are not in it: only who holds the lock matters, but for GInv below.     *)

Labels == Sections \cup {"rest", "expire", "pick", "request", "login", "failed"}
Caches == {"none", "empty", "open", "closing"}
AllIds == UNION {Ids(k) : k \in Keys}

ItemsOK(cur, hold, its) ==
  /\ DOMAIN cur \subseteq Keys
  /\ \A k \in DOMAIN cur : cur[k] \in Ids(k) /\ cur[k] \in DOMAIN its
  /\ DOMAIN its \subseteq AllIds
  /\ \A i \in DOMAIN its : its[i] \in [info : Infos, caches : Caches]
  /\ hold \in [Calls -> AllIds \cup {NoItem}]
  /\ \A t \in Calls : hold[t] = NoItem \/ hold[t] \in DOMAIN its
  /\ \A i \in DOMAIN its : \/ \E k \in DOMAIN cur : cur[k] = i
                           \/ \E t \in Calls : hold[t] = i

Types ==
  /\ waiting \in Seq(Tasks)
  /\ pc \in [Tasks -> Labels]
  /\ ready \in BOOLEAN
  /\ ItemsOK(current, held, items)
  /\ invalid \in [Keys -> Seq(Infos)]
  /\ \A k \in Keys : Len(invalid[k]) <= 3
  /\ expiring \in [Calls -> SUBSET Keys]
  /\ DOMAIN login \subseteq Keys /\ \A k \in DOMAIN login : login[k] \in Infos

(* Those who take the last item make the vault unready, and only the       *)
(* authenticator makes it ready again.                                     *)
UnreadyIsEmpty == ~ready => IsEmpty(current)
LoginsAreAwaited == pc[Authenticator] \in {"login", "populate"} => ~ready

IsBad(i) == items[i].info \in expired \cup revoked

(* A call that drops the expired items holds the lock all along, so that   *)
(* the items it has found are still there.                                 *)
FoundExpired(t) ==
  /\ holder = t
  /\ expiring[t] # {}
  /\ \A k \in expiring[t] : k \in DOMAIN current /\ items[current[k]].info \in expired
ExpiringIsExpired == \A t \in Calls : pc[t] = "expire" => FoundExpired(t)

(* The session of a current item is closed only if the item is bad, and so *)
(* a request with a current item fails for no other reason.                *)
ClosingIsBad ==
  \A k \in DOMAIN current :
    items[current[k]].caches = "closing" => IsBad(current[k])
RequestIsOpen ==
  \A t \in Calls : pc[t] = "request" /\ IsCurrent(held[t])
                     => items[held[t]].caches = "open" \/ IsBad(held[t])
FailedIsBad ==
  \A t \in Calls : pc[t] = "invalidate" /\ IsCurrent(held[t]) => IsBad(held[t])

IInv ==
  /\ Types
  /\ UnreadyIsEmpty /\ LoginsAreAwaited /\ NobodyWaitsInVain
  /\ ExpiringIsExpired /\ ClosingIsBad /\ RequestIsOpen /\ FailedIsBad

-----------------------------------------------------------------------------
USE VaultAssumption DEF Tasks

(* The names of the items of different keys are different.                 *)
LEMMA Names ==
  /\ \A k \in Keys : \A i \in Ids(k) : KeyOf(i) = k /\ i \in AllIds
  /\ \A i \in AllIds : KeyOf(i) \in Keys /\ i \in Ids(KeyOf(i))
  /\ NoItem \notin AllIds
BY DEF Ids, KeyOf, AllIds, NoItem

(* There are more names than calls, so that one is free for a new item.    *)
LEMMA FreshName ==
  ASSUME ItemsOK(current, held, items), NEW k \in Keys, k \notin DOMAIN current
  PROVE  NewItem(k) \in Ids(k) /\ NewItem(k) \notin DOMAIN items
<1> DEFINE N == Cardinality(Calls)
<1>1. N \in Nat
  BY FS_CardinalityType
<1>2. ASSUME \A i \in Ids(k) : i \in DOMAIN items
      PROVE  FALSE
  <2>1. \A n \in 1..N + 1 : \E t \in Calls : held[t] = <<k, n>>
    <3> SUFFICES ASSUME NEW n \in 1..N + 1
                 PROVE  \E t \in Calls : held[t] = <<k, n>>
      OBVIOUS
    <3>1. <<k, n>> \in Ids(k)
      BY DEF Ids
    <3>2. ~ \E j \in DOMAIN current : current[j] = <<k, n>>
      BY <3>1, Names DEF ItemsOK
    <3> QED BY <1>2, <3>1, <3>2 DEF ItemsOK
  <2> DEFINE f == [n \in 1..N + 1 |-> CHOOSE t \in Calls : held[t] = <<k, n>>]
  <2>2. \A n \in 1..N + 1 : f[n] \in Calls /\ held[f[n]] = <<k, n>>
    BY <2>1
  <2>3. f \in [1..N + 1 -> Calls]
    BY <2>2
  <2>4. IsFiniteSet(1..N + 1) /\ Cardinality(1..N + 1) = N + 1
    BY <1>1, FS_Interval
  <2> HIDE DEF f, N
  <2>5. \E x, y \in 1..N + 1 : x # y /\ f[x] = f[y]
    BY <1>1, <2>3, <2>4, FS_PigeonHole DEF N
  <2> QED BY <2>2, <2>5
<1> QED BY <1>2 DEF NewItem

-----------------------------------------------------------------------------
(* The items through the steps.                                            *)

(* What the steps do to the items: the caches of one of them are set, a     *)
(* call takes one or gives it back, the item of a key is dropped.           *)
CachesSet(i, c) ==
  /\ UNCHANGED <<current, held>>
  /\ ItemsOK(current', held', items') /\ DOMAIN items' = DOMAIN items
  /\ \A j \in DOMAIN items : /\ items'[j].info = items[j].info
                             /\ items'[j].caches = IF j = i THEN c ELSE items[j].caches
HeldSet(t, i) ==
  /\ current' = current /\ held' = [held EXCEPT ![t] = i]
  /\ ItemsOK(current', held', items') /\ DOMAIN items' \subseteq DOMAIN items
  /\ \A j \in DOMAIN items' : items'[j] = items[j]
Dropped(k) ==
  /\ current' = Without(k) /\ held' = held
  /\ ItemsOK(current', held', items') /\ DOMAIN items' \subseteq DOMAIN items
  /\ \A i \in DOMAIN items' :
       /\ items'[i].info = items[i].info
       /\ items'[i].caches = IF i = current[k] THEN "none" ELSE items[i].caches

(* Garbage or not, whoever is referred to is still there, unchanged.       *)
LEMMA ReferKeeps ==
  ASSUME NEW cur, NEW hold, NEW its,
         Refer(cur, hold, its),
         DOMAIN cur \subseteq Keys,
         \A k \in DOMAIN cur : cur[k] \in Ids(k) /\ cur[k] \in DOMAIN its,
         DOMAIN its \subseteq AllIds,
         \A i \in DOMAIN its : its[i] \in [info : Infos, caches : Caches],
         hold \in [Calls -> AllIds \cup {NoItem}],
         \A t \in Calls : hold[t] = NoItem \/ hold[t] \in DOMAIN its
  PROVE  /\ ItemsOK(current', held', items')
         /\ current' = cur /\ held' = hold
         /\ DOMAIN items' \subseteq DOMAIN its
         /\ \A i \in DOMAIN items' : items'[i] = its[i]
<1>1. current' = cur /\ held' = hold
  BY DEF Refer
<1>2. /\ DOMAIN items' = DOMAIN its \cap
           ({cur[k] : k \in DOMAIN cur} \cup {hold[t] : t \in Calls})
      /\ \A i \in DOMAIN items' : items'[i] = its[i]
  BY DEF Refer
<1> QED BY <1>1, <1>2 DEF ItemsOK

(* A change of the caches of an item.                                      *)
LEMMA Caching ==
  ASSUME ItemsOK(current, held, items), NEW i, NEW c \in Caches,
         items' = Cached(i, c), UNCHANGED <<current, held>>
  PROVE  CachesSet(i, c)
<1>1. /\ DOMAIN items' = DOMAIN items
      /\ \A j \in DOMAIN items :
           items'[j] = IF j = i THEN [items[j] EXCEPT !.caches = c] ELSE items[j]
  BY DEF Cached
<1> QED BY <1>1 DEF ItemsOK, CachesSet

(* A call takes an item, or gives it back.                                 *)
LEMMA Holding ==
  ASSUME ItemsOK(current, held, items), NEW t \in Calls,
         NEW i, i = NoItem \/ i \in DOMAIN items,
         Refer(current, [held EXCEPT ![t] = i], items)
  PROVE  HeldSet(t, i)
<1> DEFINE hold == [held EXCEPT ![t] = i]
<1>1. /\ hold \in [Calls -> AllIds \cup {NoItem}]
      /\ \A u \in Calls : hold[u] = NoItem \/ hold[u] \in DOMAIN items
  BY DEF ItemsOK
<1> HIDE DEF hold
<1>2. Refer(current, hold, items)
  BY DEF hold
<1>3. /\ ItemsOK(current', held', items')
      /\ current' = current /\ held' = hold
      /\ DOMAIN items' \subseteq DOMAIN items
      /\ \A j \in DOMAIN items' : items'[j] = items[j]
  BY <1>1, <1>2, ReferKeeps DEF ItemsOK
<1> QED BY <1>3 DEF hold, HeldSet

(* An item leaves the vault; the calls that have it keep it.               *)
LEMMA Dropping ==
  ASSUME ItemsOK(current, held, items), NEW k \in DOMAIN current,
         Refer(Without(k), held, Cached(current[k], "none"))
  PROVE  Dropped(k)
<1> DEFINE cur == Without(k)
           its == Cached(current[k], "none")
<1>1. /\ DOMAIN its = DOMAIN items
      /\ \A i \in DOMAIN items :
           its[i] = IF i = current[k] THEN [items[i] EXCEPT !.caches = "none"] ELSE items[i]
  BY DEF Cached
<1>2. /\ DOMAIN cur \subseteq DOMAIN current
      /\ \A j \in DOMAIN cur : cur[j] = current[j]
  BY DEF Without
<1> HIDE DEF cur, its
<1>3. \A i \in DOMAIN its : its[i] \in [info : Infos, caches : Caches]
  BY <1>1 DEF ItemsOK, Caches
<1>4. Refer(cur, held, its)
  BY DEF cur, its
<1>5. /\ ItemsOK(current', held', items')
      /\ current' = cur /\ held' = held
      /\ DOMAIN items' \subseteq DOMAIN its
      /\ \A i \in DOMAIN items' : items'[i] = its[i]
  BY <1>1, <1>2, <1>3, <1>4, ReferKeeps DEF ItemsOK
<1>6. \A i \in DOMAIN items' :
        /\ items'[i].info = items[i].info
        /\ items'[i].caches = IF i = current[k] THEN "none" ELSE items[i].caches
  BY <1>1, <1>5 DEF ItemsOK
<1> QED BY <1>1, <1>5, <1>6 DEF cur, Dropped

(* The vault is populated when it is empty, and with new items only.       *)
LEMMA Populating ==
  ASSUME IInv, Populate
  PROVE  /\ ItemsOK(current', held', items')
         /\ IsEmpty(current) /\ held' = held
         /\ \A k \in DOMAIN current' : /\ current'[k] \notin DOMAIN items
                                       /\ items'[current'[k]].caches = "none"
         /\ \A i \in DOMAIN items' \cap DOMAIN items : items'[i] = items[i]
<1>1. IsEmpty(current)
  BY DEF IInv, UnreadyIsEmpty, LoginsAreAwaited, Populate
<1> DEFINE cur == [k \in DOMAIN current \cup Accepted |->
                     IF k \in Accepted THEN NewItem(k) ELSE current[k]]
           new == [i \in {NewItem(k) : k \in Accepted} |-> Item(login[KeyOf(i)])]
           its == [i \in DOMAIN items \cup DOMAIN new |->
                     IF i \in DOMAIN new THEN new[i] ELSE items[i]]
<1>2. /\ ItemsOK(current, held, items) /\ Accepted \subseteq Keys
      /\ \A k \in Accepted : login[k] \in Infos
  BY DEF IInv, Types, Accepted
<1>3. \A k \in Accepted : NewItem(k) \in Ids(k) /\ NewItem(k) \notin DOMAIN items
  BY <1>1, <1>2, FreshName DEF IsEmpty
<1>4. DOMAIN cur = Accepted /\ \A k \in Accepted : cur[k] = NewItem(k)
  BY <1>1 DEF IsEmpty
<1>5. /\ DOMAIN new = {NewItem(k) : k \in Accepted}
      /\ \A i \in DOMAIN new : /\ i \in AllIds \ DOMAIN items
                               /\ new[i] \in [info : Infos, caches : Caches]
                               /\ new[i].caches = "none"
  BY <1>2, <1>3, Names DEF Item, Caches
<1> HIDE DEF new
<1>6. /\ DOMAIN its = DOMAIN items \cup DOMAIN new
      /\ \A i \in DOMAIN its : its[i] = IF i \in DOMAIN new THEN new[i] ELSE items[i]
  OBVIOUS
<1>7. Refer(cur, held, its)
  BY DEF Populate, new
<1> HIDE DEF cur, its
<1>8. /\ DOMAIN cur \subseteq Keys
      /\ \A k \in DOMAIN cur : cur[k] \in Ids(k) /\ cur[k] \in DOMAIN new
  BY <1>2, <1>3, <1>4, <1>5
<1>9. /\ DOMAIN its \subseteq AllIds
      /\ \A i \in DOMAIN its : its[i] \in [info : Infos, caches : Caches]
      /\ \A t \in Calls : held[t] = NoItem \/ held[t] \in DOMAIN its
  BY <1>2, <1>5, <1>6 DEF ItemsOK
<1>10. /\ ItemsOK(current', held', items')
       /\ current' = cur /\ held' = held
       /\ DOMAIN items' \subseteq DOMAIN its
       /\ \A i \in DOMAIN items' : items'[i] = its[i]
  BY <1>2, <1>6, <1>7, <1>8, <1>9, ReferKeeps DEF ItemsOK
<1>11. \A k \in DOMAIN current' : /\ current'[k] \notin DOMAIN items
                                  /\ items'[current'[k]].caches = "none"
  BY <1>5, <1>6, <1>8, <1>10 DEF ItemsOK
<1> QED BY <1>1, <1>5, <1>6, <1>10, <1>11

-----------------------------------------------------------------------------
USE DEF vaultVars, worldVars, lockVars, Goes, Continue, ReleaseAndRun, ReleaseAndSuspend,
        SuspendHolding, Holds, Authenticator, Labels, Sections

(* The steps on the items by their outcomes, for all that the invariant is  *)
(* about.                                                                  *)
Calm == UNCHANGED <<ready, waiting, invalid, expiring, login, expired, revoked>>

ExpireOutcome(t, k) ==
  /\ holder = t /\ pc[t] = "expire" /\ UNCHANGED <<invalid, login, expired, revoked>>
  /\ k \in DOMAIN current /\ items[current[k]].info \in expired
  /\ \/ /\ CachesSet(current[k], "closing")
        /\ loop' = Tail(loop) /\ UNCHANGED <<ready, waiting, queue, holder, pc, expiring>>
     \/ /\ Dropped(k)
        /\ expiring' = [expiring EXCEPT ![t] = @ \ {k}]
        /\ \/ /\ IsEmpty(current') /\ ready' = FALSE /\ waiting' = <<t>>
              /\ holder' = Nobody /\ pc' = [pc EXCEPT ![t] = "expired"]
           \/ /\ UNCHANGED <<ready, lockVars>>
              /\ pc' = [pc EXCEPT ![t] = IF expiring'[t] = {} THEN "pick" ELSE "expire"]

InvalidateOutcome(t) ==
  /\ holder = t /\ pc[t] = "invalidate"
  /\ UNCHANGED <<expiring, login, expired, revoked>>
  /\ \/ /\ IsCurrent(held[t]) /\ CachesSet(held[t], "closing")
        /\ UNCHANGED <<ready, waiting, holder, pc, invalid>>
     \/ /\ \/ /\ IsCurrent(held[t]) /\ Dropped(KeyOf(held[t]))
              /\ \E info \in Infos :
                   invalid' = [invalid EXCEPT ![KeyOf(held[t])] = History(@, info)]
           \/ UNCHANGED <<current, items, held, invalid>>
        /\ \/ /\ IsEmpty(current') /\ ready' = FALSE /\ waiting' = <<t>>
              /\ holder' = Nobody /\ pc' = [pc EXCEPT ![t] = "depleted"]
           \/ /\ ~IsEmpty(current') /\ UNCHANGED <<ready, waiting>>
              /\ holder' = Nobody /\ pc' = [pc EXCEPT ![t] = "check"]

SelectOutcome(t, k) ==
  /\ Calm /\ holder = t /\ holder' = Nobody
  /\ HeldSet(t, current[k])
  /\ \/ \E label \in {"cache", "context"} : pc' = [pc EXCEPT ![t] = label]
     \/ /\ items[current[k]].caches \in {"open", "closing"}
        /\ pc' = [pc EXCEPT ![t] = "request"]

GiveBackOutcome(t) ==
  /\ Calm
  /\ \/ holder = t /\ holder' = Nobody
     \/ pc[t] = "request" /\ holder' = holder
  /\ \/ HeldSet(t, NoItem) /\ pc' = [pc EXCEPT ![t] = "rest"]
     \/ /\ UNCHANGED <<current, items, held>>
        /\ pc' = [pc EXCEPT ![t] = "check"]

OpenOutcome(t) ==
  /\ Calm /\ holder = t /\ holder' = Nobody /\ pc[t] \in {"cache", "context"}
  /\ \/ /\ items[held[t]].caches = "none" /\ CachesSet(held[t], "empty")
        /\ pc' = [pc EXCEPT ![t] = "context"]
     \/ /\ UNCHANGED <<current, items, held>>
        /\ pc' = [pc EXCEPT ![t] = "context"]
     \/ /\ items[held[t]].caches \notin {"none", "empty"}
        /\ UNCHANGED <<current, items, held>>
        /\ pc' = [pc EXCEPT ![t] = "request"]
     \/ /\ CachesSet(held[t], "open")
        /\ pc' = [pc EXCEPT ![t] = "request"]

CloseOutcome(i) ==
  /\ Calm /\ UNCHANGED <<holder, pc>>
  /\ items[i].caches = "closing" /\ CachesSet(i, "none")

(* Expire(): a session is being closed, or an expired item is dropped.     *)
LEMMA ExpireCases ==
  ASSUME IInv, NEW t \in Calls, Expire(t)
  PROVE  \E k \in expiring[t] : ExpireOutcome(t, k)
<1> DEFINE k == CHOOSE k \in expiring[t] : TRUE
<1>1. /\ k \in expiring[t] /\ k \in DOMAIN current /\ items[current[k]].info \in expired
      /\ ItemsOK(current, held, items) /\ current[k] \in DOMAIN items
      /\ expiring \in [Calls -> SUBSET Keys]
  <2>1. FoundExpired(t)
    BY DEF IInv, ExpiringIsExpired, Expire
  <2>2. k \in expiring[t]
    BY <2>1 DEF FoundExpired
  <2>3. ItemsOK(current, held, items) /\ expiring \in [Calls -> SUBSET Keys]
    BY DEF IInv, Types
  <2> HIDE DEF k
  <2> QED BY <2>1, <2>2, <2>3 DEF FoundExpired, ItemsOK
<1>2. \/ /\ Flush(t, current[k]) /\ UNCHANGED <<ready, current, held, expiring>>
      \/ /\ Refer(Without(k), held, Cached(current[k], "none"))
         /\ expiring' = [expiring EXCEPT ![t] = expiring[t] \ {k}]
         /\ IF expiring[t] \ {k} = {} /\ IsEmpty(Without(k))
              THEN Deplete(t, "expired")
              ELSE /\ Continue(t, IF expiring[t] \ {k} = {} THEN "pick" ELSE "expire")
                   /\ UNCHANGED ready
  BY DEF Expire
<1> HIDE DEF k
<1>3. CASE Flush(t, current[k]) /\ UNCHANGED <<ready, current, held, expiring>>
  <2>1. CachesSet(current[k], "closing")
    BY <1>1, <1>3, Caching DEF Flush, Caches
  <2> QED BY <1>1, <1>3, <2>1 DEF Flush, Expire, ExpireOutcome
<1>4. CASE /\ Refer(Without(k), held, Cached(current[k], "none"))
           /\ expiring' = [expiring EXCEPT ![t] = expiring[t] \ {k}]
           /\ IF expiring[t] \ {k} = {} /\ IsEmpty(Without(k))
                THEN Deplete(t, "expired")
                ELSE /\ Continue(t, IF expiring[t] \ {k} = {} THEN "pick" ELSE "expire")
                     /\ UNCHANGED ready
  <2>1. Dropped(k)
    BY <1>1, <1>4, Dropping
  <2>2. current' = Without(k) /\ expiring'[t] = expiring[t] \ {k}
    BY <1>1, <1>4, <2>1 DEF Dropped
  <2> QED BY <1>1, <1>4, <2>1, <2>2 DEF Deplete, Expire, ExpireOutcome
<1> QED BY <1>2, <1>3, <1>4

(* Invalidate(): the same for the item in hands, if it is the current one. *)
LEMMA InvalidateCases ==
  ASSUME IInv, NEW t \in Calls, Invalidate(t)
  PROVE  InvalidateOutcome(t)
<1> DEFINE k == KeyOf(held[t])
<1>1. ItemsOK(current, held, items)
  BY DEF IInv, Types
<1>2. CASE /\ IsCurrent(held[t]) /\ Flush(t, current[k])
           /\ UNCHANGED <<ready, current, invalid, held>>
  <2>1. CachesSet(current[k], "closing")
    BY <1>1, <1>2, Caching DEF Flush, Caches
  <2> QED BY <1>2, <2>1 DEF Flush, IsCurrent, Invalidate, InvalidateOutcome
<1>3. CASE /\ IsCurrent(held[t])
           /\ Refer(Without(k), held, Cached(current[k], "none"))
           /\ invalid' = [invalid EXCEPT ![k] = History(@, items[current[k]].info)]
           /\ AfterInvalidation(t, Without(k))
  <2>1. k \in DOMAIN current /\ items[current[k]].info \in Infos
    BY <1>1, <1>3 DEF IsCurrent, ItemsOK
  <2>2. Dropped(k)
    BY <1>1, <1>3, <2>1, Dropping
  <2>3. current' = Without(k)
    BY <2>2 DEF Dropped
  <2> QED BY <1>3, <2>1, <2>2, <2>3
             DEF AfterInvalidation, Deplete, Invalidate, InvalidateOutcome
<1>4. CASE AfterInvalidation(t, current) /\ UNCHANGED <<current, items, invalid, held>>
  BY <1>4 DEF AfterInvalidation, Deplete, Invalidate, InvalidateOutcome
<1> QED BY <1>2, <1>3, <1>4 DEF Invalidate

(* The ends of a call, with a result or with an error.                     *)
LEMMA GiveBackCases ==
  ASSUME IInv, NEW t \in Calls,
         RanOut(t) \/ CachesAreGone(t) \/ Depleted(t) \/ RequestSucceeds(t)
  PROVE  GiveBackOutcome(t)
<1> ItemsOK(current, held, items)
  BY DEF IInv, Types
<1>1. CASE RanOut(t)
  BY <1>1, Holding DEF RanOut, Fail, Calm, GiveBackOutcome
<1>2. CASE CachesAreGone(t)
  BY <1>2, Holding DEF CachesAreGone, Fail, Calm, GiveBackOutcome
<1>3. CASE Depleted(t)
  BY <1>3, Holding DEF Depleted, Fail, Calm, GiveBackOutcome
<1>4. CASE RequestSucceeds(t)
  BY <1>4, Holding DEF RequestSucceeds, Calm, GiveBackOutcome
<1> QED BY <1>1, <1>2, <1>3, <1>4

(* The choice of an item.                                                  *)
LEMMA SelectCases ==
  ASSUME IInv, NEW t \in Calls, Select(t)
  PROVE  \E k \in DOMAIN current : SelectOutcome(t, k)
<1>1. ItemsOK(current, held, items)
  BY DEF IInv, Types
<1>2. PICK k \in DOMAIN current :
        /\ Refer(current, [held EXCEPT ![t] = current[k]], items)
        /\ CASE items[current[k]].caches = "none"  -> ReleaseAndRun(t, "cache")
             [] items[current[k]].caches = "empty" -> ReleaseAndRun(t, "context")
             [] OTHER -> ReleaseAndSuspend(t, "request")
  BY DEF Select, Prioritised
<1>3. current[k] \in DOMAIN items /\ items[current[k]].caches \in Caches
  BY <1>1 DEF ItemsOK
<1>4. HeldSet(t, current[k])
  BY <1>1, <1>2, <1>3, Holding
<1> QED BY <1>2, <1>3, <1>4 DEF Select, Calm, Caches, SelectOutcome

(* The caches and the session are made for the item in hands.              *)
LEMMA OpenCases ==
  ASSUME IInv, NEW t \in Calls, MakeCaches(t) \/ MakeContext(t)
  PROVE  OpenOutcome(t)
<1>1. ItemsOK(current, held, items)
  BY DEF IInv, Types
<1>2. CASE MakeCaches(t) /\ items[held[t]].caches = "none"
  <2>1. items' = Cached(held[t], "empty") /\ UNCHANGED <<current, held>>
    BY <1>2 DEF MakeCaches
  <2>2. CachesSet(held[t], "empty")
    BY <1>1, <2>1, Caching DEF Caches
  <2> QED BY <1>2, <2>2 DEF MakeCaches, Calm, OpenOutcome
<1>3. CASE MakeCaches(t) /\ items[held[t]].caches # "none"
  BY <1>3 DEF MakeCaches, Calm, OpenOutcome
<1>4. CASE MakeContext(t)
  <2>1. CachesSet(held[t], "open")
    BY <1>1, <1>4, Caching DEF MakeContext, Caches
  <2> QED BY <1>4, <2>1 DEF MakeContext, Calm, OpenOutcome
<1> QED BY <1>2, <1>3, <1>4

(* The session has been closed.                                            *)
LEMMA CloseCases ==
  ASSUME IInv, NEW i \in DOMAIN items, CloseEnds(i)
  PROVE  CloseOutcome(i)
BY Caching DEF CloseEnds, Caches, IInv, Types, Calm, CloseOutcome

(* The other items are not affected by the drop of one.                    *)
LEMMA DroppedKeeps ==
  ASSUME NEW k, Dropped(k)
  PROVE  /\ \A j \in DOMAIN current' : j \in DOMAIN current /\ current'[j] = current[j]
         /\ \A j \in DOMAIN current' : current'[j] \in DOMAIN items'
         /\ \A i : IsCurrent(i)' => IsCurrent(i) /\ i \in DOMAIN items'
BY DEF Dropped, Without, ItemsOK, IsCurrent

(* The items that the calls have are older than those of the new login.    *)
LEMMA NobodyHasNew ==
  ASSUME IInv, Populate, NEW u \in Calls
  PROVE  ~IsCurrent(held[u])'
<1>1. held' = held /\ (held[u] = NoItem \/ held[u] \in DOMAIN items)
  BY Populating DEF IInv, Types, ItemsOK
<1>2. /\ DOMAIN current' \subseteq Keys
      /\ \A k \in DOMAIN current' : current'[k] \notin DOMAIN items
  BY Populating DEF ItemsOK
<1>3. KeyOf(NoItem) \notin DOMAIN current'
  BY <1>2 DEF KeyOf, NoItem
<1> QED BY <1>1, <1>2, <1>3 DEF IsCurrent

-----------------------------------------------------------------------------
(* The conjuncts of the invariant through the steps.                       *)

(* At most three of the last infos of a key are remembered.                *)
LEMMA HistoryIs ==
  ASSUME NEW past \in Seq(Infos), Len(past) <= 3, NEW info \in Infos
  PROVE  History(past, info) \in Seq(Infos) /\ Len(History(past, info)) <= 3
BY DEF History

(* All the steps keep the types.                                           *)
LEMMA TypesNext ==
  ASSUME IInv, [Next]_vars
  PROVE  Types'
<1>1. ASSUME NEW t \in Tasks, Lock(t)
      PROVE  Types'
  BY <1>1 DEF Lock, IInv, Types
<1>2. ASSUME NEW t \in Tasks, Wait(t)
      PROVE  Types'
  BY <1>2 DEF Wait, IInv, Types
<1>3. ASSUME NEW t \in Calls, CheckExpiration(t)
      PROVE  Types'
  <2>1. {k \in DOMAIN current : IsExpired(k)} \in SUBSET Keys
    BY DEF IInv, Types, ItemsOK
  <2> QED BY <1>3, <2>1 DEF CheckExpiration, IInv, Types
<1>4. ASSUME NEW t \in Calls, Reauthenticated(t) \/ CheckAfterYield(t)
      PROVE  Types'
  BY <1>4 DEF Reauthenticated, CheckAfterYield, IInv, Types
<1>5. ASSUME NEW t \in Calls, Begin(t) \/ RequestFails(t)
      PROVE  Types'
  BY <1>5 DEF Begin, RequestFails, IInv, Types
<1>6. ASSUME BeginLogin \/ LoginEnds \/ LoginFails
      PROVE  Types'
  BY <1>6 DEF BeginLogin, LoginEnds, LoginFails, IInv, Types
<1>7. ASSUME NEW info \in Infos, Expires(info) \/ Revoke(info)
      PROVE  Types'
  BY <1>7 DEF Expires, Revoke, IInv, Types
<1>8. ASSUME UNCHANGED vars
      PROVE  Types'
  BY <1>8 DEF vars, IInv, Types
<1>9. ASSUME NEW t \in Calls, Expire(t)
      PROVE  Types'
  <2>1. PICK k \in expiring[t] : ExpireOutcome(t, k)
    BY <1>9, ExpireCases
  <2>2. ItemsOK(current', held', items')
    BY <2>1 DEF ExpireOutcome, CachesSet, Dropped, IInv, Types
  <2>3. ready' \in BOOLEAN
    BY <2>1 DEF ExpireOutcome, IInv, Types
  <2>a. <<t>> \in Seq(Tasks)
    OBVIOUS
  <2>b. waiting' \in Seq(Tasks)
    BY <2>1, <2>a DEF ExpireOutcome, IInv, Types
  <2>c. pc' \in [Tasks -> Labels]
    BY <2>1 DEF ExpireOutcome, IInv, Types
  <2>4. expiring' \in [Calls -> SUBSET Keys]
    BY <2>1 DEF ExpireOutcome, IInv, Types
  <2> QED BY <2>1, <2>2, <2>3, <2>b, <2>c, <2>4 DEF ExpireOutcome, IInv, Types
<1>10. ASSUME NEW t \in Calls, Invalidate(t)
      PROVE  Types'
  <2>1. InvalidateOutcome(t)
    BY <1>10, InvalidateCases
  <2>2. ItemsOK(current', held', items')
    BY <2>1 DEF InvalidateOutcome, CachesSet, Dropped, IInv, Types
  <2>3. ready' \in BOOLEAN
    BY <2>1 DEF InvalidateOutcome, IInv, Types
  <2>a. <<t>> \in Seq(Tasks)
    OBVIOUS
  <2>b. waiting' \in Seq(Tasks)
    BY <2>1, <2>a DEF InvalidateOutcome, IInv, Types
  <2>c. pc' \in [Tasks -> Labels]
    BY <2>1 DEF InvalidateOutcome, IInv, Types
  <2>4. invalid' \in [Keys -> Seq(Infos)] /\ \A k \in Keys : Len(invalid'[k]) <= 3
    <3>1. CASE UNCHANGED invalid
      BY <3>1 DEF IInv, Types
    <3>2. CASE \E info \in Infos :
                 invalid' = [invalid EXCEPT ![KeyOf(held[t])] = History(@, info)]
      <4>1. PICK info \in Infos :
              invalid' = [invalid EXCEPT ![KeyOf(held[t])] = History(@, info)]
        BY <3>2
      <4>2. \A k \in Keys : /\ History(invalid[k], info) \in Seq(Infos)
                             /\ Len(History(invalid[k], info)) <= 3
        BY HistoryIs DEF IInv, Types
      <4> QED BY <4>1, <4>2 DEF IInv, Types
    <3> QED BY <2>1, <3>1, <3>2 DEF InvalidateOutcome
  <2> QED BY <2>1, <2>2, <2>3, <2>b, <2>c, <2>4 DEF InvalidateOutcome, IInv, Types
<1>11. ASSUME NEW t \in Calls, Select(t)
      PROVE  Types'
  <2>1. PICK k \in DOMAIN current : SelectOutcome(t, k)
    BY <1>11, SelectCases
  <2>2. /\ ItemsOK(current', held', items')
        /\ UNCHANGED <<ready, waiting, invalid, expiring, login>>
    BY <2>1 DEF SelectOutcome, HeldSet, Calm
  <2>3. \E label \in {"cache", "context", "request"} : pc' = [pc EXCEPT ![t] = label]
    BY <2>1 DEF SelectOutcome
  <2>4. pc' \in [Tasks -> Labels]
    <3>1. pc \in [Tasks -> Labels] /\ {"cache", "context", "request"} \subseteq Labels
      BY DEF IInv, Types, Labels
    <3> QED BY <2>3, <3>1
  <2> QED BY <2>2, <2>4 DEF IInv, Types
<1>12. ASSUME NEW t \in Calls,
             RanOut(t) \/ CachesAreGone(t) \/ Depleted(t) \/ RequestSucceeds(t)
      PROVE  Types'
  <2>1. GiveBackOutcome(t)
    BY <1>12, GiveBackCases
  <2> QED BY <2>1 DEF GiveBackOutcome, HeldSet, Calm, IInv, Types
<1>13. ASSUME NEW t \in Calls, MakeCaches(t) \/ MakeContext(t)
      PROVE  Types'
  <2>1. OpenOutcome(t)
    BY <1>13, OpenCases
  <2>2. ItemsOK(current', held', items')
    BY <2>1 DEF OpenOutcome, CachesSet, IInv, Types
  <2>3. pc' \in [Tasks -> Labels]
    BY <2>1 DEF OpenOutcome, IInv, Types
  <2> QED BY <2>1, <2>2, <2>3 DEF OpenOutcome, Calm, IInv, Types
<1>14. ASSUME NEW i \in DOMAIN items, CloseEnds(i)
      PROVE  Types'
  <2>1. CloseOutcome(i)
    BY <1>14, CloseCases
  <2> QED BY <2>1 DEF CloseOutcome, CachesSet, Calm, IInv, Types
<1>15. ASSUME Populate
      PROVE  Types'
  <2>1. ItemsOK(current', held', items')
    BY <1>15, Populating
  <2>2. waiting' \in Seq(Tasks) /\ ready' \in BOOLEAN /\ pc' \in [Tasks -> Labels]
    BY <1>15 DEF Populate, NotifyAll, IInv, Types
  <2> QED BY <1>15, <2>1, <2>2 DEF Populate, NoLogin, IInv, Types
<1> QED
  BY <1>1, <1>2, <1>3, <1>4, <1>5, <1>6, <1>7, <1>8, <1>9, <1>10,
     <1>11, <1>12, <1>13, <1>14, <1>15
     DEF Next, LoopSteps, CallSteps, RequestEnds

(* The newly waiting task is the only one added.                           *)
LEMMA AppendedIs ==
  ASSUME NEW S, NEW s \in Seq(S), NEW e
  PROVE  ToSet(Append(s, e)) = ToSet(s) \cup {e}
<1>1. DOMAIN Append(s, e) = DOMAIN s \cup {Len(s) + 1} /\ Append(s, e)[Len(s) + 1] = e
  OBVIOUS
<1>2. \A i \in DOMAIN s : Append(s, e)[i] = s[i]
  OBVIOUS
<1> QED BY <1>1, <1>2 DEF ToSet

(* A task starts to wait under the lock, after a look at the readiness;     *)
(* and when the readiness changes, all those who wait are awakened.         *)
LEMMA WaitNext ==
  ASSUME IInv, [Next]_vars
  PROVE  NobodyWaitsInVain'
<1>1. ASSUME NEW t \in Tasks, Lock(t)
      PROVE  NobodyWaitsInVain'
  BY <1>1 DEF Lock, IInv, Types, NobodyWaitsInVain
<1>2. ASSUME NEW t \in Tasks, Wait(t)
      PROVE  NobodyWaitsInVain'
  <2>1. NobodyWaitsInVain /\ waiting \in Seq(Tasks) /\ (t = Authenticator \/ t \in Calls)
    BY DEF IInv, Types
  <2>2. ToSet(Append(waiting, t)) = ToSet(waiting) \cup {t}
    BY <2>1, AppendedIs
  <2> QED BY <1>2, <2>1, <2>2 DEF Wait, NobodyWaitsInVain
<1>3. ASSUME NEW t \in Calls, CheckExpiration(t)
      PROVE  NobodyWaitsInVain'
  BY <1>3 DEF CheckExpiration, IInv, Types, NobodyWaitsInVain
<1>4. ASSUME NEW t \in Calls, Reauthenticated(t) \/ CheckAfterYield(t)
      PROVE  NobodyWaitsInVain'
  BY <1>4 DEF Reauthenticated, CheckAfterYield, IInv, Types, NobodyWaitsInVain
<1>5. ASSUME NEW t \in Calls, Begin(t) \/ RequestFails(t)
      PROVE  NobodyWaitsInVain'
  BY <1>5 DEF Begin, RequestFails, IInv, Types, NobodyWaitsInVain
<1>6. ASSUME BeginLogin \/ LoginEnds \/ LoginFails
      PROVE  NobodyWaitsInVain'
  BY <1>6 DEF BeginLogin, LoginEnds, LoginFails, IInv, Types, NobodyWaitsInVain
<1>7. ASSUME NEW info \in Infos, Expires(info) \/ Revoke(info)
      PROVE  NobodyWaitsInVain'
  BY <1>7 DEF Expires, Revoke, IInv, Types, NobodyWaitsInVain
<1>8. ASSUME UNCHANGED vars
      PROVE  NobodyWaitsInVain'
  BY <1>8 DEF vars, IInv, Types, NobodyWaitsInVain
<1>9. ASSUME NEW t \in Calls, Expire(t)
      PROVE  NobodyWaitsInVain'
  <2>1. PICK k \in expiring[t] : ExpireOutcome(t, k)
    BY <1>9, ExpireCases
  <2>2. ToSet(<<t>>) = {t} /\ t # Authenticator
    BY DEF ToSet
  <2>3. CASE waiting' = waiting /\ ready' = ready
    BY <2>3 DEF IInv, NobodyWaitsInVain
  <2>4. CASE waiting' = <<t>> /\ ready' = FALSE
    BY <2>2, <2>4 DEF NobodyWaitsInVain
  <2> QED BY <2>1, <2>3, <2>4 DEF ExpireOutcome
<1>10. ASSUME NEW t \in Calls, Invalidate(t)
      PROVE  NobodyWaitsInVain'
  <2>1. InvalidateOutcome(t)
    BY <1>10, InvalidateCases
  <2>2. ToSet(<<t>>) = {t} /\ t # Authenticator
    BY DEF ToSet
  <2>3. CASE waiting' = waiting /\ ready' = ready
    BY <2>3 DEF IInv, NobodyWaitsInVain
  <2>4. CASE waiting' = <<t>> /\ ready' = FALSE
    BY <2>2, <2>4 DEF NobodyWaitsInVain
  <2> QED BY <2>1, <2>3, <2>4 DEF InvalidateOutcome
<1>11. ASSUME NEW t \in Calls, Select(t)
      PROVE  NobodyWaitsInVain'
  <2>1. PICK k \in DOMAIN current : SelectOutcome(t, k)
    BY <1>11, SelectCases
  <2> QED BY <2>1 DEF SelectOutcome, HeldSet, Calm, IInv, Types, NobodyWaitsInVain
<1>12. ASSUME NEW t \in Calls,
             RanOut(t) \/ CachesAreGone(t) \/ Depleted(t) \/ RequestSucceeds(t)
      PROVE  NobodyWaitsInVain'
  <2>1. GiveBackOutcome(t)
    BY <1>12, GiveBackCases
  <2> QED BY <2>1 DEF GiveBackOutcome, HeldSet, Calm, IInv, Types, NobodyWaitsInVain
<1>13. ASSUME NEW t \in Calls, MakeCaches(t) \/ MakeContext(t)
      PROVE  NobodyWaitsInVain'
  <2>1. OpenOutcome(t)
    BY <1>13, OpenCases
  <2> QED BY <2>1 DEF OpenOutcome, CachesSet, Calm, IInv, Types, NobodyWaitsInVain
<1>14. ASSUME NEW i \in DOMAIN items, CloseEnds(i)
      PROVE  NobodyWaitsInVain'
  <2>1. CloseOutcome(i)
    BY <1>14, CloseCases
  <2> QED BY <2>1 DEF CloseOutcome, CachesSet, Calm, IInv, Types, NobodyWaitsInVain
<1>15. ASSUME Populate
      PROVE  NobodyWaitsInVain'
  BY <1>15 DEF Populate, NotifyAll, NobodyWaitsInVain, ToSet
<1> QED
  BY <1>1, <1>2, <1>3, <1>4, <1>5, <1>6, <1>7, <1>8, <1>9, <1>10,
     <1>11, <1>12, <1>13, <1>14, <1>15
     DEF Next, LoopSteps, CallSteps, RequestEnds

(* The vault gets unready with its last item, ready with the new ones.     *)
LEMMA ReadyNext ==
  ASSUME IInv, [Next]_vars
  PROVE  UnreadyIsEmpty' /\ LoginsAreAwaited'
<1>1. ASSUME NEW t \in Tasks, Lock(t)
      PROVE  UnreadyIsEmpty' /\ LoginsAreAwaited'
  BY <1>1 DEF Lock, IInv, Types, UnreadyIsEmpty, LoginsAreAwaited, IsEmpty
<1>2. ASSUME NEW t \in Tasks, Wait(t)
      PROVE  UnreadyIsEmpty' /\ LoginsAreAwaited'
  BY <1>2 DEF Wait, IInv, Types, UnreadyIsEmpty, LoginsAreAwaited, IsEmpty
<1>3. ASSUME NEW t \in Calls, CheckExpiration(t)
      PROVE  UnreadyIsEmpty' /\ LoginsAreAwaited'
  BY <1>3 DEF CheckExpiration, IInv, Types, UnreadyIsEmpty, LoginsAreAwaited, IsEmpty
<1>4. ASSUME NEW t \in Calls, Reauthenticated(t) \/ CheckAfterYield(t)
      PROVE  UnreadyIsEmpty' /\ LoginsAreAwaited'
  BY <1>4
     DEF Reauthenticated, CheckAfterYield, IInv, Types, UnreadyIsEmpty,
         LoginsAreAwaited, IsEmpty
<1>5. ASSUME NEW t \in Calls, Begin(t) \/ RequestFails(t)
      PROVE  UnreadyIsEmpty' /\ LoginsAreAwaited'
  BY <1>5
     DEF Begin, RequestFails, IInv, Types, UnreadyIsEmpty, LoginsAreAwaited, IsEmpty
<1>6. ASSUME BeginLogin \/ LoginEnds \/ LoginFails
      PROVE  UnreadyIsEmpty' /\ LoginsAreAwaited'
  BY <1>6
     DEF BeginLogin, LoginEnds, LoginFails, IInv, Types, UnreadyIsEmpty,
         LoginsAreAwaited, IsEmpty
<1>7. ASSUME NEW info \in Infos, Expires(info) \/ Revoke(info)
      PROVE  UnreadyIsEmpty' /\ LoginsAreAwaited'
  BY <1>7 DEF Expires, Revoke, IInv, Types, UnreadyIsEmpty, LoginsAreAwaited, IsEmpty
<1>8. ASSUME UNCHANGED vars
      PROVE  UnreadyIsEmpty' /\ LoginsAreAwaited'
  BY <1>8 DEF vars, IInv, Types, UnreadyIsEmpty, LoginsAreAwaited, IsEmpty
<1>9. ASSUME NEW t \in Calls, Expire(t)
      PROVE  UnreadyIsEmpty' /\ LoginsAreAwaited'
  <2>1. PICK k \in expiring[t] : ExpireOutcome(t, k)
    BY <1>9, ExpireCases
  <2> QED BY <2>1
             DEF ExpireOutcome, CachesSet, Dropped, Without, IInv, Types,
                 UnreadyIsEmpty, LoginsAreAwaited, IsEmpty
<1>10. ASSUME NEW t \in Calls, Invalidate(t)
      PROVE  UnreadyIsEmpty' /\ LoginsAreAwaited'
  <2>1. InvalidateOutcome(t)
    BY <1>10, InvalidateCases
  <2>2. ready \/ UNCHANGED current
    BY <2>1 DEF InvalidateOutcome, CachesSet, IsCurrent, IInv, UnreadyIsEmpty, IsEmpty
  <2>3. pc'[Authenticator] = pc[Authenticator]
    BY <2>1 DEF InvalidateOutcome, IInv, Types
  <2>4. CASE UNCHANGED ready
    BY <2>2, <2>3, <2>4 DEF IInv, UnreadyIsEmpty, LoginsAreAwaited
  <2>5. CASE IsEmpty(current') /\ ready' = FALSE
    BY <2>3, <2>5 DEF IInv, UnreadyIsEmpty, LoginsAreAwaited
  <2> QED BY <2>1, <2>4, <2>5 DEF InvalidateOutcome
<1>11. ASSUME NEW t \in Calls, Select(t)
      PROVE  UnreadyIsEmpty' /\ LoginsAreAwaited'
  <2>1. PICK k \in DOMAIN current : SelectOutcome(t, k)
    BY <1>11, SelectCases
  <2> QED BY <2>1
             DEF SelectOutcome, HeldSet, Calm, IInv, Types, UnreadyIsEmpty,
                 LoginsAreAwaited, IsEmpty
<1>12. ASSUME NEW t \in Calls,
             RanOut(t) \/ CachesAreGone(t) \/ Depleted(t) \/ RequestSucceeds(t)
      PROVE  UnreadyIsEmpty' /\ LoginsAreAwaited'
  <2>1. GiveBackOutcome(t)
    BY <1>12, GiveBackCases
  <2> QED BY <2>1
             DEF GiveBackOutcome, HeldSet, Calm, IInv, Types, UnreadyIsEmpty,
                 LoginsAreAwaited, IsEmpty
<1>13. ASSUME NEW t \in Calls, MakeCaches(t) \/ MakeContext(t)
      PROVE  UnreadyIsEmpty' /\ LoginsAreAwaited'
  <2>1. OpenOutcome(t)
    BY <1>13, OpenCases
  <2> QED BY <2>1
             DEF OpenOutcome, CachesSet, Calm, IInv, Types, UnreadyIsEmpty,
                 LoginsAreAwaited, IsEmpty
<1>14. ASSUME NEW i \in DOMAIN items, CloseEnds(i)
      PROVE  UnreadyIsEmpty' /\ LoginsAreAwaited'
  <2>1. CloseOutcome(i)
    BY <1>14, CloseCases
  <2> QED BY <2>1
             DEF CloseOutcome, CachesSet, Calm, IInv, Types, UnreadyIsEmpty,
                 LoginsAreAwaited, IsEmpty
<1>15. ASSUME Populate
      PROVE  UnreadyIsEmpty' /\ LoginsAreAwaited'
  BY <1>15, Populating
     DEF Populate, NotifyAll, IInv, Types, UnreadyIsEmpty, LoginsAreAwaited, IsEmpty
<1> QED
  BY <1>1, <1>2, <1>3, <1>4, <1>5, <1>6, <1>7, <1>8, <1>9, <1>10,
     <1>11, <1>12, <1>13, <1>14, <1>15
     DEF Next, LoopSteps, CallSteps, RequestEnds

(* Nobody changes the vault under the lock of the one who expires the items. *)
LEMMA ExpiringNext ==
  ASSUME IInv, [Next]_vars
  PROVE  ExpiringIsExpired'
<1>1. ASSUME NEW t \in Tasks, Lock(t)
      PROVE  ExpiringIsExpired'
  BY <1>1
     DEF Lock, IInv, Types, ItemsOK, ExpiringIsExpired, FoundExpired, Nobody,
         IsExpired
<1>2. ASSUME NEW t \in Tasks, Wait(t)
      PROVE  ExpiringIsExpired'
  BY <1>2
     DEF Wait, IInv, Types, ItemsOK, ExpiringIsExpired, FoundExpired, Nobody,
         IsExpired
<1>3. ASSUME NEW t \in Calls, CheckExpiration(t)
      PROVE  ExpiringIsExpired'
  BY <1>3
     DEF CheckExpiration, IInv, Types, ItemsOK, ExpiringIsExpired, FoundExpired,
         Nobody, IsExpired
<1>4. ASSUME NEW t \in Calls, Reauthenticated(t) \/ CheckAfterYield(t)
      PROVE  ExpiringIsExpired'
  BY <1>4
     DEF Reauthenticated, CheckAfterYield, IInv, Types, ItemsOK, ExpiringIsExpired,
         FoundExpired, Nobody, IsExpired
<1>5. ASSUME NEW t \in Calls, Begin(t) \/ RequestFails(t)
      PROVE  ExpiringIsExpired'
  BY <1>5
     DEF Begin, RequestFails, IInv, Types, ItemsOK, ExpiringIsExpired, FoundExpired,
         Nobody, IsExpired
<1>6. ASSUME BeginLogin \/ LoginEnds \/ LoginFails
      PROVE  ExpiringIsExpired'
  BY <1>6
     DEF BeginLogin, LoginEnds, LoginFails, IInv, Types, ItemsOK, ExpiringIsExpired,
         FoundExpired, Nobody, IsExpired
<1>7. ASSUME NEW info \in Infos, Expires(info) \/ Revoke(info)
      PROVE  ExpiringIsExpired'
  BY <1>7
     DEF Expires, Revoke, IInv, Types, ItemsOK, ExpiringIsExpired, FoundExpired,
         Nobody, IsExpired
<1>8. ASSUME UNCHANGED vars
      PROVE  ExpiringIsExpired'
  BY <1>8
     DEF vars, IInv, Types, ItemsOK, ExpiringIsExpired, FoundExpired, Nobody,
         IsExpired
<1>9. ASSUME NEW t \in Calls, Expire(t)
      PROVE  ExpiringIsExpired'
  <2>1. PICK k \in expiring[t] : ExpireOutcome(t, k)
    BY <1>9, ExpireCases
  <2> QED BY <2>1
             DEF ExpireOutcome, CachesSet, Dropped, Without, IInv, Types, ItemsOK,
                 ExpiringIsExpired, FoundExpired, Nobody, IsExpired
<1>10. ASSUME NEW t \in Calls, Invalidate(t)
      PROVE  ExpiringIsExpired'
  <2>1. InvalidateOutcome(t)
    BY <1>10, InvalidateCases
  <2> QED BY <2>1
             DEF InvalidateOutcome, CachesSet, Dropped, Without, IInv, Types,
                 ItemsOK, ExpiringIsExpired, FoundExpired, Nobody, IsExpired
<1>11. ASSUME NEW t \in Calls, Select(t)
      PROVE  ExpiringIsExpired'
  <2>1. PICK k \in DOMAIN current : SelectOutcome(t, k)
    BY <1>11, SelectCases
  <2> QED BY <2>1
             DEF SelectOutcome, HeldSet, Calm, IInv, Types, ItemsOK,
                 ExpiringIsExpired, FoundExpired, Nobody, IsExpired
<1>12. ASSUME NEW t \in Calls,
             RanOut(t) \/ CachesAreGone(t) \/ Depleted(t) \/ RequestSucceeds(t)
      PROVE  ExpiringIsExpired'
  <2>1. GiveBackOutcome(t)
    BY <1>12, GiveBackCases
  <2> QED BY <2>1
             DEF GiveBackOutcome, HeldSet, Calm, IInv, Types, ItemsOK,
                 ExpiringIsExpired, FoundExpired, Nobody, IsExpired
<1>13. ASSUME NEW t \in Calls, MakeCaches(t) \/ MakeContext(t)
      PROVE  ExpiringIsExpired'
  <2>1. OpenOutcome(t)
    BY <1>13, OpenCases
  <2> QED BY <2>1
             DEF OpenOutcome, CachesSet, Calm, IInv, Types, ItemsOK,
                 ExpiringIsExpired, FoundExpired, Nobody, IsExpired
<1>14. ASSUME NEW i \in DOMAIN items, CloseEnds(i)
      PROVE  ExpiringIsExpired'
  <2>1. CloseOutcome(i)
    BY <1>14, CloseCases
  <2> QED BY <2>1
             DEF CloseOutcome, CachesSet, Calm, IInv, Types, ItemsOK,
                 ExpiringIsExpired, FoundExpired, Nobody, IsExpired
<1>15. ASSUME Populate
      PROVE  ExpiringIsExpired'
  BY <1>15, Populating
     DEF Populate, NotifyAll, IInv, Types, ItemsOK, ExpiringIsExpired, FoundExpired,
         Nobody, IsExpired
<1> QED
  BY <1>1, <1>2, <1>3, <1>4, <1>5, <1>6, <1>7, <1>8, <1>9, <1>10,
     <1>11, <1>12, <1>13, <1>14, <1>15
     DEF Next, LoopSteps, CallSteps, RequestEnds

(* Sessions are closed for bad items only.                                 *)
LEMMA ClosingNext ==
  ASSUME IInv, [Next]_vars
  PROVE  ClosingIsBad'
<1>1. ASSUME NEW t \in Tasks, Lock(t)
      PROVE  ClosingIsBad'
  BY <1>1 DEF Lock, IInv, Types, ItemsOK, ClosingIsBad, IsBad
<1>2. ASSUME NEW t \in Tasks, Wait(t)
      PROVE  ClosingIsBad'
  BY <1>2 DEF Wait, IInv, Types, ItemsOK, ClosingIsBad, IsBad
<1>3. ASSUME NEW t \in Calls, CheckExpiration(t)
      PROVE  ClosingIsBad'
  BY <1>3 DEF CheckExpiration, IInv, Types, ItemsOK, ClosingIsBad, IsBad
<1>4. ASSUME NEW t \in Calls, Reauthenticated(t) \/ CheckAfterYield(t)
      PROVE  ClosingIsBad'
  BY <1>4
     DEF Reauthenticated, CheckAfterYield, IInv, Types, ItemsOK, ClosingIsBad, IsBad
<1>5. ASSUME NEW t \in Calls, Begin(t) \/ RequestFails(t)
      PROVE  ClosingIsBad'
  BY <1>5 DEF Begin, RequestFails, IInv, Types, ItemsOK, ClosingIsBad, IsBad
<1>6. ASSUME BeginLogin \/ LoginEnds \/ LoginFails
      PROVE  ClosingIsBad'
  BY <1>6
     DEF BeginLogin, LoginEnds, LoginFails, IInv, Types, ItemsOK, ClosingIsBad,
         IsBad
<1>7. ASSUME NEW info \in Infos, Expires(info) \/ Revoke(info)
      PROVE  ClosingIsBad'
  BY <1>7 DEF Expires, Revoke, IInv, Types, ItemsOK, ClosingIsBad, IsBad
<1>8. ASSUME UNCHANGED vars
      PROVE  ClosingIsBad'
  BY <1>8 DEF vars, IInv, Types, ItemsOK, ClosingIsBad, IsBad
<1>9. ASSUME NEW t \in Calls, Expire(t)
      PROVE  ClosingIsBad'
  <2>1. PICK k \in expiring[t] : ExpireOutcome(t, k)
    BY <1>9, ExpireCases
  <2>2. UNCHANGED <<expired, revoked>> /\ IsBad(current[k]) /\ k \in DOMAIN current
    BY <2>1 DEF ExpireOutcome, IsBad
  <2>3. ItemsOK(current, held, items)
    BY DEF IInv, Types
  <2>4. CASE CachesSet(current[k], "closing")
    BY <2>2, <2>3, <2>4 DEF CachesSet, ItemsOK, IInv, ClosingIsBad, IsBad
  <2>5. CASE Dropped(k)
    BY <2>2, <2>3, <2>5, DroppedKeeps DEF Dropped, IInv, ClosingIsBad, IsBad
  <2> QED BY <2>1, <2>4, <2>5 DEF ExpireOutcome
<1>10. ASSUME NEW t \in Calls, Invalidate(t)
      PROVE  ClosingIsBad'
  <2>1. InvalidateOutcome(t)
    BY <1>10, InvalidateCases
  <2>2. UNCHANGED <<expired, revoked>> /\ (IsCurrent(held[t]) => IsBad(held[t]))
    BY <2>1 DEF InvalidateOutcome, IInv, FailedIsBad
  <2>3. ItemsOK(current, held, items)
    BY DEF IInv, Types
  <2>4. CASE IsCurrent(held[t]) /\ CachesSet(held[t], "closing")
    BY <2>2, <2>3, <2>4 DEF CachesSet, ItemsOK, IInv, ClosingIsBad, IsBad
  <2>5. CASE IsCurrent(held[t]) /\ Dropped(KeyOf(held[t]))
    BY <2>2, <2>3, <2>5, DroppedKeeps DEF Dropped, IInv, ClosingIsBad, IsBad
  <2>6. CASE UNCHANGED <<current, items, held>>
    BY <2>2, <2>6 DEF IInv, ClosingIsBad, IsBad
  <2> QED BY <2>1, <2>4, <2>5, <2>6 DEF InvalidateOutcome
<1>11. ASSUME NEW t \in Calls, Select(t)
      PROVE  ClosingIsBad'
  <2>1. PICK k \in DOMAIN current : SelectOutcome(t, k)
    BY <1>11, SelectCases
  <2> QED BY <2>1
             DEF SelectOutcome, HeldSet, Calm, IInv, Types, ItemsOK, ClosingIsBad,
                 IsBad
<1>12. ASSUME NEW t \in Calls,
             RanOut(t) \/ CachesAreGone(t) \/ Depleted(t) \/ RequestSucceeds(t)
      PROVE  ClosingIsBad'
  <2>1. GiveBackOutcome(t)
    BY <1>12, GiveBackCases
  <2> QED BY <2>1
             DEF GiveBackOutcome, HeldSet, Calm, IInv, Types, ItemsOK, ClosingIsBad,
                 IsBad
<1>13. ASSUME NEW t \in Calls, MakeCaches(t) \/ MakeContext(t)
      PROVE  ClosingIsBad'
  <2>1. OpenOutcome(t)
    BY <1>13, OpenCases
  <2>2. UNCHANGED <<expired, revoked>> /\ ItemsOK(current, held, items)
    BY <2>1 DEF OpenOutcome, Calm, IInv, Types
  <2>3. CASE CachesSet(held[t], "empty") \/ CachesSet(held[t], "open")
    BY <2>2, <2>3 DEF CachesSet, ItemsOK, IInv, ClosingIsBad, IsBad
  <2>4. CASE UNCHANGED <<current, items, held>>
    BY <2>2, <2>4 DEF IInv, ClosingIsBad, IsBad
  <2> QED BY <2>1, <2>3, <2>4 DEF OpenOutcome
<1>14. ASSUME NEW i \in DOMAIN items, CloseEnds(i)
      PROVE  ClosingIsBad'
  <2>1. CloseOutcome(i)
    BY <1>14, CloseCases
  <2> QED BY <2>1
             DEF CloseOutcome, CachesSet, Calm, IInv, Types, ItemsOK, ClosingIsBad,
                 IsBad
<1>15. ASSUME Populate
      PROVE  ClosingIsBad'
  BY <1>15, Populating
     DEF Populate, NotifyAll, IInv, Types, ItemsOK, ClosingIsBad, IsBad
<1> QED
  BY <1>1, <1>2, <1>3, <1>4, <1>5, <1>6, <1>7, <1>8, <1>9, <1>10,
     <1>11, <1>12, <1>13, <1>14, <1>15
     DEF Next, LoopSteps, CallSteps, RequestEnds

(* A session is closed under a running request only for a bad item.        *)
LEMMA RequestNext ==
  ASSUME IInv, [Next]_vars
  PROVE  RequestIsOpen'
<1>1. ASSUME NEW t \in Tasks, Lock(t)
      PROVE  RequestIsOpen'
  BY <1>1 DEF Lock, IInv, Types, ItemsOK, RequestIsOpen, ClosingIsBad, IsBad, IsCurrent
<1>2. ASSUME NEW t \in Tasks, Wait(t)
      PROVE  RequestIsOpen'
  BY <1>2 DEF Wait, IInv, Types, ItemsOK, RequestIsOpen, ClosingIsBad, IsBad, IsCurrent
<1>3. ASSUME NEW t \in Calls, CheckExpiration(t)
      PROVE  RequestIsOpen'
  BY <1>3
     DEF CheckExpiration, IInv, Types, ItemsOK, RequestIsOpen, ClosingIsBad, IsBad,
         IsCurrent
<1>4. ASSUME NEW t \in Calls, Reauthenticated(t) \/ CheckAfterYield(t)
      PROVE  RequestIsOpen'
  BY <1>4
     DEF Reauthenticated, CheckAfterYield, IInv, Types, ItemsOK, RequestIsOpen,
         ClosingIsBad, IsBad, IsCurrent
<1>5. ASSUME NEW t \in Calls, Begin(t) \/ RequestFails(t)
      PROVE  RequestIsOpen'
  BY <1>5
     DEF Begin, RequestFails, IInv, Types, ItemsOK, RequestIsOpen, ClosingIsBad,
         IsBad, IsCurrent
<1>6. ASSUME BeginLogin \/ LoginEnds \/ LoginFails
      PROVE  RequestIsOpen'
  BY <1>6
     DEF BeginLogin, LoginEnds, LoginFails, IInv, Types, ItemsOK, RequestIsOpen,
         ClosingIsBad, IsBad, IsCurrent
<1>7. ASSUME NEW info \in Infos, Expires(info) \/ Revoke(info)
      PROVE  RequestIsOpen'
  BY <1>7
     DEF Expires, Revoke, IInv, Types, ItemsOK, RequestIsOpen, ClosingIsBad, IsBad,
         IsCurrent
<1>8. ASSUME UNCHANGED vars
      PROVE  RequestIsOpen'
  BY <1>8 DEF vars, IInv, Types, ItemsOK, RequestIsOpen, ClosingIsBad, IsBad, IsCurrent
<1>9. ASSUME NEW t \in Calls, Expire(t)
      PROVE  RequestIsOpen'
  <2>1. PICK k \in expiring[t] : ExpireOutcome(t, k)
    BY <1>9, ExpireCases
  <2>2. UNCHANGED <<expired, revoked>> /\ IsBad(current[k]) /\ k \in DOMAIN current
    BY <2>1 DEF ExpireOutcome, IsBad
  <2>3. ItemsOK(current, held, items)
    BY DEF IInv, Types
  <2>4. \A u \in Calls : pc'[u] = "request" => pc[u] = "request"
    BY <2>1 DEF ExpireOutcome, IInv, Types
  <2>5. CASE CachesSet(current[k], "closing")
    BY <2>2, <2>3, <2>4, <2>5
       DEF CachesSet, ItemsOK, IInv, RequestIsOpen, IsBad, IsCurrent
  <2>6. CASE Dropped(k)
    BY <2>2, <2>3, <2>4, <2>6, DroppedKeeps DEF Dropped, IInv, RequestIsOpen, IsBad
  <2> QED BY <2>1, <2>5, <2>6 DEF ExpireOutcome
<1>10. ASSUME NEW t \in Calls, Invalidate(t)
      PROVE  RequestIsOpen'
  <2>1. InvalidateOutcome(t)
    BY <1>10, InvalidateCases
  <2>2. UNCHANGED <<expired, revoked>> /\ (IsCurrent(held[t]) => IsBad(held[t]))
    BY <2>1 DEF InvalidateOutcome, IInv, FailedIsBad
  <2>3. ItemsOK(current, held, items)
    BY DEF IInv, Types
  <2>4. \A u \in Calls : pc'[u] = "request" => pc[u] = "request"
    BY <2>1 DEF InvalidateOutcome, IInv, Types
  <2>5. CASE IsCurrent(held[t]) /\ CachesSet(held[t], "closing")
    BY <2>2, <2>3, <2>4, <2>5
       DEF CachesSet, ItemsOK, IInv, RequestIsOpen, IsBad, IsCurrent
  <2>6. CASE IsCurrent(held[t]) /\ Dropped(KeyOf(held[t]))
    <3>1. current[KeyOf(held[t])] = held[t]
      BY <2>6 DEF IsCurrent
    <3> QED BY <2>2, <2>3, <2>4, <2>6, <3>1, DroppedKeeps
               DEF Dropped, IInv, RequestIsOpen, IsBad
  <2>7. CASE UNCHANGED <<current, items, held>>
    BY <2>2, <2>4, <2>7 DEF IInv, RequestIsOpen, IsBad, IsCurrent
  <2> QED BY <2>1, <2>5, <2>6, <2>7 DEF InvalidateOutcome
<1>11. ASSUME NEW t \in Calls, Select(t)
      PROVE  RequestIsOpen'
  <2>1. PICK k \in DOMAIN current : SelectOutcome(t, k)
    BY <1>11, SelectCases
  <2> QED BY <2>1
             DEF SelectOutcome, HeldSet, Calm, IInv, Types, ItemsOK, RequestIsOpen,
                 ClosingIsBad, IsBad, IsCurrent
<1>12. ASSUME NEW t \in Calls,
             RanOut(t) \/ CachesAreGone(t) \/ Depleted(t) \/ RequestSucceeds(t)
      PROVE  RequestIsOpen'
  <2>1. GiveBackOutcome(t)
    BY <1>12, GiveBackCases
  <2>2. pc \in [Tasks -> Labels] /\ ItemsOK(current, held, items) /\ RequestIsOpen
    BY DEF IInv, Types
  <2>3. UNCHANGED <<current, expired, revoked>> /\ \A i : IsCurrent(i)' = IsCurrent(i)
    BY <2>1 DEF GiveBackOutcome, HeldSet, Calm, IsCurrent
  <2>4. CASE HeldSet(t, NoItem) /\ pc' = [pc EXCEPT ![t] = "rest"]
    BY <2>2, <2>3, <2>4 DEF HeldSet, ItemsOK, RequestIsOpen, IsBad, IsCurrent
  <2>5. CASE UNCHANGED <<items, held>> /\ pc' = [pc EXCEPT ![t] = "check"]
    BY <2>2, <2>3, <2>5 DEF RequestIsOpen, IsBad
  <2> QED BY <2>1, <2>4, <2>5 DEF GiveBackOutcome
<1>13. ASSUME NEW t \in Calls, MakeCaches(t) \/ MakeContext(t)
      PROVE  RequestIsOpen'
  <2>1. OpenOutcome(t)
    BY <1>13, OpenCases
  <2>2. UNCHANGED <<expired, revoked>> /\ ItemsOK(current, held, items)
    BY <2>1 DEF OpenOutcome, Calm, IInv, Types
  <2>3. \A u \in Calls : pc'[u] = "request" => u = t \/ pc[u] = "request"
    BY <2>1 DEF OpenOutcome, IInv, Types
  <2>4. CASE /\ items[held[t]].caches = "none" /\ CachesSet(held[t], "empty")
             /\ pc' = [pc EXCEPT ![t] = "context"]
    <3>1. \A u \in Calls : pc'[u] = "request" => pc[u] = "request"
      BY <2>4 DEF IInv, Types
    <3> QED BY <2>2, <2>4, <3>1
               DEF CachesSet, ItemsOK, IInv, RequestIsOpen, IsBad, IsCurrent
  <2>5. CASE UNCHANGED <<current, items, held>> /\ pc' = [pc EXCEPT ![t] = "context"]
    BY <2>2, <2>5 DEF IInv, Types, RequestIsOpen, IsBad, IsCurrent
  <2>6. CASE /\ items[held[t]].caches \notin {"none", "empty"}
             /\ UNCHANGED <<current, items, held>>
    <3>1. IsCurrent(held[t]) => items[held[t]].caches = "open" \/ IsBad(held[t])
      BY <2>2, <2>6 DEF ItemsOK, Caches, IInv, ClosingIsBad, IsCurrent
    <3> QED BY <2>2, <2>3, <2>6, <3>1 DEF IInv, RequestIsOpen, IsBad, IsCurrent
  <2>7. CASE CachesSet(held[t], "open")
    BY <2>2, <2>3, <2>7 DEF CachesSet, ItemsOK, IInv, RequestIsOpen, IsBad, IsCurrent
  <2> QED BY <2>1, <2>4, <2>5, <2>6, <2>7 DEF OpenOutcome
<1>14. ASSUME NEW i \in DOMAIN items, CloseEnds(i)
      PROVE  RequestIsOpen'
  <2>1. CloseOutcome(i)
    BY <1>14, CloseCases
  <2> QED BY SMTT(40), <2>1
             DEF CloseOutcome, CachesSet, Calm, IInv, Types, ItemsOK, RequestIsOpen,
                 ClosingIsBad, IsBad, IsCurrent
<1>15. ASSUME Populate
      PROVE  RequestIsOpen'
  BY <1>15, NobodyHasNew DEF RequestIsOpen
<1> QED
  BY <1>1, <1>2, <1>3, <1>4, <1>5, <1>6, <1>7, <1>8, <1>9, <1>10,
     <1>11, <1>12, <1>13, <1>14, <1>15
     DEF Next, LoopSteps, CallSteps, RequestEnds

(* A request fails with a current item only if the item is bad.            *)
LEMMA FailedNext ==
  ASSUME IInv, [Next]_vars
  PROVE  FailedIsBad'
<1>1. ASSUME NEW t \in Tasks, Lock(t)
      PROVE  FailedIsBad'
  BY <1>1 DEF Lock, IInv, Types, ItemsOK, RequestIsOpen, FailedIsBad, IsBad, IsCurrent
<1>2. ASSUME NEW t \in Tasks, Wait(t)
      PROVE  FailedIsBad'
  BY <1>2 DEF Wait, IInv, Types, ItemsOK, RequestIsOpen, FailedIsBad, IsBad, IsCurrent
<1>3. ASSUME NEW t \in Calls, CheckExpiration(t)
      PROVE  FailedIsBad'
  BY <1>3
     DEF CheckExpiration, IInv, Types, ItemsOK, RequestIsOpen, FailedIsBad, IsBad,
         IsCurrent
<1>4. ASSUME NEW t \in Calls, Reauthenticated(t) \/ CheckAfterYield(t)
      PROVE  FailedIsBad'
  BY <1>4
     DEF Reauthenticated, CheckAfterYield, IInv, Types, ItemsOK, RequestIsOpen,
         FailedIsBad, IsBad, IsCurrent
<1>5. ASSUME NEW t \in Calls, Begin(t) \/ RequestFails(t)
      PROVE  FailedIsBad'
  BY <1>5
     DEF Begin, RequestFails, IInv, Types, ItemsOK, RequestIsOpen, FailedIsBad,
         IsBad, IsCurrent
<1>6. ASSUME BeginLogin \/ LoginEnds \/ LoginFails
      PROVE  FailedIsBad'
  BY <1>6
     DEF BeginLogin, LoginEnds, LoginFails, IInv, Types, ItemsOK, RequestIsOpen,
         FailedIsBad, IsBad, IsCurrent
<1>7. ASSUME NEW info \in Infos, Expires(info) \/ Revoke(info)
      PROVE  FailedIsBad'
  BY <1>7
     DEF Expires, Revoke, IInv, Types, ItemsOK, RequestIsOpen, FailedIsBad, IsBad,
         IsCurrent
<1>8. ASSUME UNCHANGED vars
      PROVE  FailedIsBad'
  BY <1>8 DEF vars, IInv, Types, ItemsOK, RequestIsOpen, FailedIsBad, IsBad, IsCurrent
<1>9. ASSUME NEW t \in Calls, Expire(t)
      PROVE  FailedIsBad'
  <2>1. PICK k \in expiring[t] : ExpireOutcome(t, k)
    BY <1>9, ExpireCases
  <2> QED BY <2>1
             DEF ExpireOutcome, CachesSet, Dropped, Without, IInv, Types, ItemsOK,
                 RequestIsOpen, FailedIsBad, IsBad, IsCurrent
<1>10. ASSUME NEW t \in Calls, Invalidate(t)
      PROVE  FailedIsBad'
  <2>1. InvalidateOutcome(t)
    BY <1>10, InvalidateCases
  <2> QED BY <2>1
             DEF InvalidateOutcome, CachesSet, Dropped, Without, IInv, Types,
                 ItemsOK, RequestIsOpen, FailedIsBad, IsBad, IsCurrent
<1>11. ASSUME NEW t \in Calls, Select(t)
      PROVE  FailedIsBad'
  <2>1. PICK k \in DOMAIN current : SelectOutcome(t, k)
    BY <1>11, SelectCases
  <2> QED BY <2>1
             DEF SelectOutcome, HeldSet, Calm, IInv, Types, ItemsOK, RequestIsOpen,
                 FailedIsBad, IsBad, IsCurrent
<1>12. ASSUME NEW t \in Calls,
             RanOut(t) \/ CachesAreGone(t) \/ Depleted(t) \/ RequestSucceeds(t)
      PROVE  FailedIsBad'
  <2>1. GiveBackOutcome(t)
    BY <1>12, GiveBackCases
  <2> QED BY <2>1
             DEF GiveBackOutcome, HeldSet, Calm, IInv, Types, ItemsOK,
                 RequestIsOpen, FailedIsBad, IsBad, IsCurrent
<1>13. ASSUME NEW t \in Calls, MakeCaches(t) \/ MakeContext(t)
      PROVE  FailedIsBad'
  <2>1. OpenOutcome(t)
    BY <1>13, OpenCases
  <2> QED BY <2>1
             DEF OpenOutcome, CachesSet, Calm, IInv, Types, ItemsOK, RequestIsOpen,
                 FailedIsBad, IsBad, IsCurrent
<1>14. ASSUME NEW i \in DOMAIN items, CloseEnds(i)
      PROVE  FailedIsBad'
  <2>1. CloseOutcome(i)
    BY <1>14, CloseCases
  <2> QED BY <2>1
             DEF CloseOutcome, CachesSet, Calm, IInv, Types, ItemsOK, RequestIsOpen,
                 FailedIsBad, IsBad, IsCurrent
<1>15. ASSUME Populate
      PROVE  FailedIsBad'
  BY <1>15, NobodyHasNew DEF FailedIsBad
<1> QED
  BY <1>1, <1>2, <1>3, <1>4, <1>5, <1>6, <1>7, <1>8, <1>9, <1>10,
     <1>11, <1>12, <1>13, <1>14, <1>15
     DEF Next, LoopSteps, CallSteps, RequestEnds

DropsBad == \A k \in DOMAIN current \ DOMAIN current' :
              items[current[k]].info \in expired \cup revoked

(* Only bad credentials are dropped.                                        *)
LEMMA DropNext ==
  ASSUME IInv, [Next]_vars
  PROVE  DropsBad
<1>1. ASSUME NEW t \in Tasks, Lock(t)
      PROVE  DropsBad
  BY <1>1 DEF Lock, DropsBad
<1>2. ASSUME NEW t \in Tasks, Wait(t)
      PROVE  DropsBad
  BY <1>2 DEF Wait, DropsBad
<1>3. ASSUME NEW t \in Calls, CheckExpiration(t)
      PROVE  DropsBad
  BY <1>3 DEF CheckExpiration, DropsBad
<1>4. ASSUME NEW t \in Calls, Reauthenticated(t) \/ CheckAfterYield(t)
      PROVE  DropsBad
  BY <1>4 DEF Reauthenticated, CheckAfterYield, DropsBad
<1>5. ASSUME NEW t \in Calls, Begin(t) \/ RequestFails(t)
      PROVE  DropsBad
  BY <1>5 DEF Begin, RequestFails, DropsBad
<1>6. ASSUME BeginLogin \/ LoginEnds \/ LoginFails
      PROVE  DropsBad
  BY <1>6 DEF BeginLogin, LoginEnds, LoginFails, DropsBad
<1>7. ASSUME NEW info \in Infos, Expires(info) \/ Revoke(info)
      PROVE  DropsBad
  BY <1>7 DEF Expires, Revoke, DropsBad
<1>8. ASSUME UNCHANGED vars
      PROVE  DropsBad
  BY <1>8 DEF vars, DropsBad
<1>9. ASSUME NEW t \in Calls, Expire(t)
      PROVE  DropsBad
  <2>1. PICK k \in expiring[t] : ExpireOutcome(t, k)
    BY <1>9, ExpireCases
  <2>2. items[current[k]].info \in expired
    BY <2>1 DEF ExpireOutcome
  <2>3. current' = current \/ current' = Without(k)
    BY <2>1 DEF ExpireOutcome, CachesSet, Dropped
  <2> QED BY <2>2, <2>3 DEF Without, DropsBad
<1>10. ASSUME NEW t \in Calls, Invalidate(t)
      PROVE  DropsBad
  <2>1. InvalidateOutcome(t)
    BY <1>10, InvalidateCases
  <2>2. CASE UNCHANGED current
    BY <2>2 DEF DropsBad
  <2>3. CASE IsCurrent(held[t]) /\ Dropped(KeyOf(held[t]))
    BY <2>1, <2>3 DEF InvalidateOutcome, Dropped, Without, DropsBad, IInv, FailedIsBad,
                      IsBad, IsCurrent
  <2> QED BY <2>1, <2>2, <2>3 DEF InvalidateOutcome, CachesSet
<1>11. ASSUME NEW t \in Calls, Select(t)
      PROVE  DropsBad
  <2>1. PICK k \in DOMAIN current : SelectOutcome(t, k)
    BY <1>11, SelectCases
  <2> QED BY <2>1 DEF SelectOutcome, HeldSet, Calm, DropsBad
<1>12. ASSUME NEW t \in Calls,
             RanOut(t) \/ CachesAreGone(t) \/ Depleted(t) \/ RequestSucceeds(t)
      PROVE  DropsBad
  <2>1. GiveBackOutcome(t)
    BY <1>12, GiveBackCases
  <2> QED BY <2>1 DEF GiveBackOutcome, HeldSet, Calm, DropsBad
<1>13. ASSUME NEW t \in Calls, MakeCaches(t) \/ MakeContext(t)
      PROVE  DropsBad
  <2>1. OpenOutcome(t)
    BY <1>13, OpenCases
  <2> QED BY <2>1 DEF OpenOutcome, CachesSet, Calm, DropsBad
<1>14. ASSUME NEW i \in DOMAIN items, CloseEnds(i)
      PROVE  DropsBad
  <2>1. CloseOutcome(i)
    BY <1>14, CloseCases
  <2> QED BY <2>1 DEF CloseOutcome, CachesSet, Calm, DropsBad
<1>15. ASSUME Populate
      PROVE  DropsBad
  BY <1>15, Populating DEF IsEmpty, DropsBad
<1> QED
  BY <1>1, <1>2, <1>3, <1>4, <1>5, <1>6, <1>7, <1>8, <1>9, <1>10,
     <1>11, <1>12, <1>13, <1>14, <1>15
     DEF Next, LoopSteps, CallSteps, RequestEnds

(* The invariant holds in a vault that is empty or populated from outside. *)
LEMMA InitIInv == Init => IInv
<1> SUFFICES ASSUME Init PROVE IInv
  OBVIOUS
<1>1. PICK ks \in SUBSET Keys :
        /\ current = [k \in ks |-> <<k, 1>>]
        /\ \E infos \in [ks -> Infos] :
             items = [i \in {<<k, 1>> : k \in ks} |-> Item(infos[KeyOf(i)])]
        /\ ready = (ks # {})
  BY DEF Init
<1>2. PICK infos \in [ks -> Infos] :
        items = [i \in {<<k, 1>> : k \in ks} |-> Item(infos[KeyOf(i)])]
  BY <1>1
<1>3. \A k \in Keys : <<k, 1>> \in Ids(k) /\ KeyOf(<<k, 1>>) = k
  BY FS_CardinalityType DEF Ids, KeyOf
<1>4. \A i \in DOMAIN items : /\ items[i] \in [info : Infos, caches : Caches]
                              /\ items[i].caches = "none"
  BY <1>2, <1>3 DEF Item, Caches
<1>5. held \in [Calls -> AllIds \cup {NoItem}] /\ \A t \in Calls : held[t] = NoItem
  BY DEF Init
<1>6. ItemsOK(current, held, items)
  <2>1. DOMAIN current = ks /\ \A k \in ks : current[k] = <<k, 1>>
    BY <1>1
  <2>2. DOMAIN items = {<<k, 1>> : k \in ks}
    BY <1>2
  <2>3. DOMAIN items \subseteq AllIds
    BY <1>3, <2>2, Names
  <2>4. DOMAIN current \subseteq Keys
    BY <2>1
  <2>5. \A k \in DOMAIN current : current[k] \in Ids(k) /\ current[k] \in DOMAIN items
    BY <1>3, <2>1, <2>2, <2>4
  <2>6. \A i \in DOMAIN items : items[i] \in [info : Infos, caches : Caches]
    BY <1>4
  <2>7. \A t \in Calls : held[t] = NoItem \/ held[t] \in DOMAIN items
    BY <1>5
  <2>8. \A i \in DOMAIN items : \E k \in DOMAIN current : current[k] = i
    BY <2>1, <2>2
  <2>9. held \in [Calls -> AllIds \cup {NoItem}]
    BY <1>5
  <2> QED BY <2>3, <2>4, <2>5, <2>6, <2>7, <2>8, <2>9 DEF ItemsOK
<1>7. Types
  <2>1. waiting \in Seq(Tasks) /\ invalid \in [Keys -> Seq(Infos)]
    BY DEF Init
  <2>2. \A k \in Keys : Len(invalid[k]) <= 3
    BY DEF Init
  <2>3. pc \in [Tasks -> Labels] /\ expiring \in [Calls -> SUBSET Keys]
    BY DEF Init
  <2>4. ready \in BOOLEAN
    BY <1>1
  <2>5. DOMAIN login \subseteq Keys /\ \A k \in DOMAIN login : login[k] \in Infos
    BY DEF Init, NoLogin
  <2> QED BY <1>6, <2>1, <2>2, <2>3, <2>4, <2>5 DEF Types
<1>8. UnreadyIsEmpty /\ LoginsAreAwaited
  BY <1>1 DEF Init, UnreadyIsEmpty, LoginsAreAwaited, IsEmpty
<1>9. NobodyWaitsInVain
  BY DEF Init, NobodyWaitsInVain, ToSet
<1>10. ClosingIsBad
  BY <1>4, <1>6 DEF ClosingIsBad, ItemsOK
<1>11. ExpiringIsExpired /\ RequestIsOpen /\ FailedIsBad
  BY DEF Init, ExpiringIsExpired, RequestIsOpen, FailedIsBad
<1> QED BY <1>7, <1>8, <1>9, <1>10, <1>11 DEF IInv

-----------------------------------------------------------------------------
(* The theorems.                                                           *)

(* All together.                                                           *)
LEMMA NextIInv == IInv /\ [Next]_vars => IInv'
BY TypesNext, ReadyNext, WaitNext, ExpiringNext, ClosingNext, RequestNext, FailedNext
   DEF IInv

(* The inductive invariant holds in all the reachable states.              *)
THEOREM InvariantHolds == Spec => []IInv
<1>1. Init => IInv
  BY InitIInv
<1>2. IInv /\ [Next]_vars => IInv'
  BY NextIInv
<1> QED BY <1>1, <1>2, PTL DEF Spec

(* The vault keeps its types: among others, every item in it or in the     *)
(* hands of a call is still known, and the history of a key is bounded.    *)
THEOREM TypeCorrect == Spec => []TypeOK
<1>1. IInv => TypeOK
  BY DEF IInv, Types, ItemsOK, TypeOK, Caches
<1> QED BY <1>1, InvariantHolds, PTL

(* The login handlers of authenticate() run only while the vault is empty  *)
(* and everybody waits for them.                                           *)
THEOREM LoginsOnlyWhenDepleted == Spec => []LoginOnlyWhenDepleted
<1>1. IInv => LoginOnlyWhenDepleted
  BY DEF IInv, UnreadyIsEmpty, LoginsAreAwaited, LoginOnlyWhenDepleted
<1> QED BY <1>1, InvariantHolds, PTL

(* Nobody waits in the condition of the vault for what has already come:   *)
(* the calls wait only while it is not ready, the authenticator while it is. *)
THEOREM NobodyMissesNotifications == Spec => []NobodyWaitsInVain
<1>1. IInv => NobodyWaitsInVain
  BY DEF IInv
<1> QED BY <1>1, InvariantHolds, PTL

(* An item leaves the vault only when it has expired or is rejected by the *)
(* server itself, never because of an older item of the same handler.      *)
THEOREM DropsWithReason == Spec => DroppedWithReason
<1>1. IInv /\ [Next]_vars => [DropsBad]_vars
  BY DropNext
<1> QED BY <1>1, InvariantHolds, PTL DEF Spec, DroppedWithReason, DropsBad

-----------------------------------------------------------------------------
(* Nobody is stuck.  A second invariant tells where everybody is: a task   *)
(* in the vault is ready, or in the queue for the lock, or in the          *)
(* condition, or it has the lock, and nowhere twice.                       *)

Busy == Sections \cup {"expire", "pick"}
Ready == ToSet(loop)
Queued == ToSet(queue)
Awaiting == ToSet(waiting)
NoTwice(s) == \A i, j \in DOMAIN s : s[i] = s[j] => i = j

QueuesOK ==
  /\ loop \in Seq(Tasks) /\ queue \in Seq(Tasks) /\ waiting \in Seq(Tasks)
  /\ NoTwice(loop) /\ NoTwice(queue) /\ NoTwice(waiting)
  /\ holder \in Tasks \cup {Nobody}

(* The first one in the queue is awakened when the lock gets free, and it  *)
(* remains in the queue until it runs.                                     *)
PlacesOK ==
  /\ Awaiting \cap (Ready \cup Queued) = {}
  /\ \A t \in Ready \cup Queued \cup Awaiting : pc[t] \in Busy
  /\ \A t \in Tasks : pc[t] \in Busy => t \in Ready \cup Queued \cup Awaiting \cup {holder}
  /\ holder = Nobody /\ queue # <<>> => Head(queue) \in Ready
  /\ \A t \in Queued \cap Ready : holder = Nobody /\ t = Head(queue)
  /\ holder # Nobody => pc[holder] \in Busy /\ holder \notin Queued \cup Awaiting

(* One session is closed at a time, that of a current item, while the task *)
(* that closes it has the lock and is not ready.                           *)
ClosingOK ==
  /\ \A i, j \in DOMAIN items : IsClosing(i) /\ IsClosing(j) => i = j
  /\ \A i \in DOMAIN items : IsClosing(i) => /\ IsCurrent(i)
                                             /\ holder # Nobody /\ holder \notin Ready
  /\ holder # Nobody /\ holder \notin Ready => \E i \in DOMAIN items : IsClosing(i)

LabelsOK ==
  /\ \A t \in Tasks : pc[t] \in {"expire", "pick"} => holder = t
  /\ \A t \in Calls : pc[t] \notin {"emptiness", "populate", "login", "failed"}
  /\ pc[Authenticator] \in {"emptiness", "populate", "login", "failed"}

GInv == QueuesOK /\ PlacesOK /\ ClosingOK /\ LabelsOK /\ FailedIsGone

(* What is at an end of a queue is in it once.                             *)
LEMMA AddedIs ==
  ASSUME NEW S, NEW s \in Seq(S), NEW e \in S
  PROVE  /\ Append(s, e) \in Seq(S) /\ Append(s, e) # <<>>
         /\ ToSet(Append(s, e)) = ToSet(s) \cup {e}
         /\ NoTwice(s) /\ e \notin ToSet(s) => NoTwice(Append(s, e))
         /\ Head(Append(s, e)) = IF s = <<>> THEN e ELSE Head(s)
<1>1. /\ DOMAIN s = 1..Len(s) /\ Len(s) \in Nat
      /\ DOMAIN Append(s, e) = 1..Len(s) + 1 /\ Len(Append(s, e)) = Len(s) + 1
      /\ Append(s, e) \in Seq(S) /\ Append(s, e)[Len(s) + 1] = e
      /\ \A i \in 1..Len(s) : Append(s, e)[i] = s[i]
  OBVIOUS
<1>2. Append(s, e) # <<>>
  BY <1>1
<1>3. ToSet(Append(s, e)) = ToSet(s) \cup {e}
  BY AppendedIs
<1>4. NoTwice(s) /\ e \notin ToSet(s) => NoTwice(Append(s, e))
  BY <1>1 DEF NoTwice, ToSet
<1>5. Head(Append(s, e)) = IF s = <<>> THEN e ELSE Head(s)
  OBVIOUS
<1> QED BY <1>1, <1>2, <1>3, <1>4, <1>5

LEMMA FirstIs ==
  ASSUME NEW S, NEW s \in Seq(S), s # <<>>, NoTwice(s)
  PROVE  /\ Tail(s) \in Seq(S) /\ NoTwice(Tail(s))
         /\ Head(s) \in ToSet(s) /\ Head(s) \in S
         /\ ToSet(Tail(s)) = ToSet(s) \ {Head(s)}
<1>1. /\ DOMAIN s = 1..Len(s) /\ Len(s) \in Nat \ {0} /\ Head(s) = s[1]
      /\ Tail(s) \in Seq(S) /\ Head(s) \in S
      /\ DOMAIN Tail(s) = 1..Len(s) - 1
      /\ \A i \in 1..Len(s) - 1 : Tail(s)[i] = s[i + 1]
  OBVIOUS
<1>2. NoTwice(Tail(s))
  BY <1>1 DEF NoTwice
<1>3. Head(s) \in ToSet(s)
  BY <1>1 DEF ToSet
<1>4. ASSUME NEW e \in ToSet(Tail(s))
      PROVE  e \in ToSet(s) \ {Head(s)}
  <2>1. PICK i \in 1..Len(s) - 1 : e = Tail(s)[i]
    BY <1>1 DEF ToSet
  <2>2. i + 1 \in DOMAIN s /\ 1 \in DOMAIN s /\ e = s[i + 1] /\ i + 1 # 1
    BY <1>1, <2>1
  <2> QED BY <1>1, <2>2 DEF NoTwice, ToSet
<1>5. ASSUME NEW e \in ToSet(s) \ {Head(s)}
      PROVE  e \in ToSet(Tail(s))
  <2>1. PICK i \in DOMAIN s : e = s[i]
    BY DEF ToSet
  <2>2. i # 1 /\ i - 1 \in DOMAIN Tail(s) /\ Tail(s)[i - 1] = e
    BY <1>1, <1>5, <2>1
  <2> QED BY <2>2 DEF ToSet
<1> QED BY <1>1, <1>2, <1>3, <1>4, <1>5

LEMMA JoinedIs ==
  ASSUME NEW S, NEW s \in Seq(S), NEW r \in Seq(S)
  PROVE  /\ s \o r \in Seq(S)
         /\ ToSet(s \o r) = ToSet(s) \cup ToSet(r)
         /\ NoTwice(s) /\ NoTwice(r) /\ ToSet(s) \cap ToSet(r) = {} => NoTwice(s \o r)
<1>1. /\ DOMAIN s = 1..Len(s) /\ DOMAIN r = 1..Len(r) /\ Len(s) \in Nat /\ Len(r) \in Nat
      /\ s \o r \in Seq(S) /\ DOMAIN (s \o r) = 1..Len(s) + Len(r)
      /\ \A i \in 1..Len(s) + Len(r) :
           (s \o r)[i] = IF i <= Len(s) THEN s[i] ELSE r[i - Len(s)]
  OBVIOUS
<1>2. ASSUME NEW e \in ToSet(s \o r)
      PROVE  e \in ToSet(s) \cup ToSet(r)
  <2>1. PICK i \in 1..Len(s) + Len(r) : e = (s \o r)[i]
    BY <1>1 DEF ToSet
  <2>2. CASE i <= Len(s)
    BY <1>1, <2>1, <2>2 DEF ToSet
  <2>3. CASE ~(i <= Len(s))
    <3>1. i - Len(s) \in DOMAIN r /\ e = r[i - Len(s)]
      BY <1>1, <2>1, <2>3
    <3> QED BY <3>1 DEF ToSet
  <2> QED BY <2>2, <2>3
<1>3. ASSUME NEW e \in ToSet(s)
      PROVE  e \in ToSet(s \o r)
  <2>1. PICK i \in 1..Len(s) : e = s[i]
    BY <1>1 DEF ToSet
  <2>2. i \in DOMAIN (s \o r) /\ e = (s \o r)[i]
    BY <1>1, <2>1
  <2> QED BY <2>2 DEF ToSet
<1>4. ASSUME NEW e \in ToSet(r)
      PROVE  e \in ToSet(s \o r)
  <2>1. PICK i \in 1..Len(r) : e = r[i]
    BY <1>1 DEF ToSet
  <2>2. i + Len(s) \in DOMAIN (s \o r) /\ e = (s \o r)[i + Len(s)]
    BY <1>1, <2>1
  <2> QED BY <2>2 DEF ToSet
<1>5. ASSUME NoTwice(s), NoTwice(r), ToSet(s) \cap ToSet(r) = {},
             NEW i \in DOMAIN (s \o r), NEW j \in DOMAIN (s \o r), (s \o r)[i] = (s \o r)[j]
      PROVE  i = j
  <2>1. \A m \in 1..Len(s), n \in 1..Len(r) : s[m] # r[n]
    BY <1>1, <1>5 DEF ToSet
  <2>2. CASE i <= Len(s) /\ j <= Len(s)
    BY <1>1, <1>5, <2>2 DEF NoTwice
  <2>3. CASE i > Len(s) /\ j > Len(s)
    <3>1. i - Len(s) \in DOMAIN r /\ j - Len(s) \in DOMAIN r /\ r[i - Len(s)] = r[j - Len(s)]
      BY <1>1, <1>5, <2>3
    <3>2. i - Len(s) = j - Len(s)
      BY <1>5, <3>1 DEF NoTwice
    <3> QED BY <1>1, <1>5, <3>2
  <2>4. CASE i <= Len(s) /\ j > Len(s)
    <3>1. i \in 1..Len(s) /\ j - Len(s) \in 1..Len(r) /\ s[i] = r[j - Len(s)]
      BY <1>1, <1>5, <2>4
    <3> QED BY <2>1, <3>1
  <2>5. CASE i > Len(s) /\ j <= Len(s)
    <3>1. j \in 1..Len(s) /\ i - Len(s) \in 1..Len(r) /\ s[j] = r[i - Len(s)]
      BY <1>1, <1>5, <2>5
    <3> QED BY <2>1, <3>1
  <2> QED BY <1>1, <1>5, <2>2, <2>3, <2>4, <2>5
<1>6. NoTwice(s) /\ NoTwice(r) /\ ToSet(s) \cap ToSet(r) = {} => NoTwice(s \o r)
  BY <1>5 DEF NoTwice
<1> QED BY <1>1, <1>2, <1>3, <1>4, <1>6

LEMMA OneIs ==
  ASSUME NEW S
  PROVE  /\ <<>> \in Seq(S) /\ NoTwice(<<>>) /\ ToSet(<<>>) = {}
         /\ \A e \in S : <<e>> \in Seq(S) /\ NoTwice(<<e>>) /\ ToSet(<<e>>) = {e}
         /\ \A s \in Seq(S) : s \o <<>> = s
BY DEF NoTwice, ToSet

(* The one awakened by the release of the lock is not ready yet.           *)
LEMMA AwakenedIs ==
  ASSUME QueuesOK, PlacesOK, holder # Nobody
  PROVE  /\ Awakened \in Seq(Tasks) /\ NoTwice(Awakened)
         /\ ToSet(Awakened) = IF queue = <<>> THEN {} ELSE {Head(queue)}
         /\ ToSet(Awakened) \subseteq Queued /\ Queued \cap Ready = {}
<1>1. queue # <<>> => Head(queue) \in Queued /\ Head(queue) \in Tasks
  BY FirstIs DEF QueuesOK, Queued
<1>2. Queued \cap Ready = {} /\ ToSet(<<>>) = {}
  BY OneIs DEF PlacesOK
<1>3. CASE queue = <<>>
  BY <1>2, <1>3, OneIs DEF Awakened
<1>4. CASE queue # <<>>
  <2>1. Awakened = <<Head(queue)>>
    BY <1>4 DEF Awakened
  <2> QED BY <1>1, <1>2, <1>4, <2>1, OneIs
<1> QED BY <1>3, <1>4

-----------------------------------------------------------------------------
(* The moves of the tasks between the places.                              *)

(* A task that has the lock releases it, and it either goes on, or leaves,  *)
(* or starts to wait in the condition, where it may awaken the others.      *)
LEMMA Releasing ==
  ASSUME Types, QueuesOK, PlacesOK, NEW t \in Tasks, Runs(t), holder = t,
         NEW label \in Labels, NEW base, NEW woken, NEW Waits \in SUBSET {t},
         holder' = Nobody, queue' = queue, pc' = [pc EXCEPT ![t] = label],
         (base = loop /\ Waits = {}) \/ base = Tail(loop),
         woken = waiting \/ woken = <<>>,
         loop' = base \o woken \o Awakened,
         waiting' \in Seq(Tasks), NoTwice(waiting'),
         ToSet(waiting') = (ToSet(waiting) \ ToSet(woken)) \cup Waits,
         label \in Busy <=> (base = loop \/ Waits = {t})
  PROVE  QueuesOK' /\ PlacesOK'
<1>1. /\ loop \in Seq(Tasks) /\ loop # <<>> /\ NoTwice(loop) /\ t = Head(loop) /\ t # Nobody
      /\ t \in Ready /\ Tail(loop) \in Seq(Tasks) /\ NoTwice(Tail(loop))
      /\ ToSet(Tail(loop)) = Ready \ {t}
  BY FirstIs DEF QueuesOK, Runs, Ready
<1>2. /\ base \in Seq(Tasks) /\ NoTwice(base)
      /\ ToSet(base) = IF t \in ToSet(base) THEN Ready ELSE Ready \ {t}
      /\ base = loop <=> t \in ToSet(base)
      /\ t \in ToSet(base) => Waits = {}
  <2>1. Tail(loop) # loop
    BY <1>1 DEF Ready
  <2> QED BY <1>1, <2>1 DEF Ready
<1>3. /\ woken \in Seq(Tasks) /\ NoTwice(woken) /\ ToSet(woken) \subseteq Awaiting
  BY OneIs DEF QueuesOK, Awaiting
<1>4. /\ Awakened \in Seq(Tasks) /\ NoTwice(Awakened)
      /\ ToSet(Awakened) = IF queue = <<>> THEN {} ELSE {Head(queue)}
      /\ ToSet(Awakened) \subseteq Queued /\ Queued \cap Ready = {}
  BY <1>1, AwakenedIs
<1>5. /\ base \o woken \in Seq(Tasks) /\ ToSet(base \o woken) = ToSet(base) \cup ToSet(woken)
      /\ NoTwice(base \o woken)
  <2>1. ToSet(base) \cap ToSet(woken) = {}
    BY <1>2, <1>3 DEF PlacesOK
  <2> QED BY <1>2, <1>3, <2>1, JoinedIs
<1>6. /\ loop' \in Seq(Tasks) /\ NoTwice(loop')
      /\ ToSet(loop') = ToSet(base) \cup ToSet(woken) \cup ToSet(Awakened)
  <2>1. ToSet(base \o woken) \cap ToSet(Awakened) = {}
    BY <1>2, <1>3, <1>4, <1>5 DEF PlacesOK
  <2>2. PICK s, r : s = base \o woken /\ r = Awakened
    OBVIOUS
  <2>3. /\ s \in Seq(Tasks) /\ r \in Seq(Tasks) /\ NoTwice(s) /\ NoTwice(r)
        /\ ToSet(s) \cap ToSet(r) = {} /\ ToSet(s) = ToSet(base) \cup ToSet(woken)
    BY <1>4, <1>5, <2>1, <2>2
  <2>4. s \o r \in Seq(Tasks) /\ ToSet(s \o r) = ToSet(s) \cup ToSet(r) /\ NoTwice(s \o r)
    BY <2>3, JoinedIs
  <2> QED BY <2>2, <2>3, <2>4
<1>7. QueuesOK'
  BY <1>6 DEF QueuesOK
<1>8. /\ Queued' = Queued /\ Ready' = ToSet(base) \cup ToSet(woken) \cup ToSet(Awakened)
      /\ Awaiting' = (Awaiting \ ToSet(woken)) \cup Waits
  BY <1>6 DEF Queued, Ready, Awaiting
<1>9. \A u \in Tasks : pc'[u] = IF u = t THEN label ELSE pc[u]
  BY DEF Types
<1>10. Ready \cup Queued \cup Awaiting \subseteq Tasks
  BY DEF QueuesOK, Ready, Queued, Awaiting, ToSet
<1>11. t \notin Queued \cup Awaiting
  BY <1>1 DEF PlacesOK
<1> HIDE DEF Ready, Queued, Awaiting, Busy
<1>12. Awaiting' \cap (Ready' \cup Queued') = {}
  BY <1>2, <1>3, <1>4, <1>8, <1>11 DEF PlacesOK
<1>13. \A u \in Ready' \cup Queued' \cup Awaiting' : pc'[u] \in Busy
  BY <1>2, <1>3, <1>4, <1>8, <1>9, <1>10, <1>11 DEF PlacesOK
<1>14. \A u \in Tasks : pc'[u] \in Busy => u \in Ready' \cup Queued' \cup Awaiting'
  BY <1>1, <1>2, <1>3, <1>8, <1>9, <1>10 DEF PlacesOK
<1>15. queue # <<>> => Head(queue) \in Ready'
  BY <1>4, <1>8
<1>16. \A u \in Queued' \cap Ready' : u = Head(queue)
  BY <1>2, <1>3, <1>4, <1>8 DEF PlacesOK
<1> QED BY <1>7, <1>12, <1>13, <1>14, <1>15, <1>16 DEF PlacesOK, Busy

(* A task becomes ready from the outside.                                  *)
LEMMA Arriving ==
  ASSUME Types, QueuesOK, PlacesOK, NEW t \in Tasks, pc[t] \notin Busy, NEW label \in Busy,
         loop' = Append(loop, t), pc' = [pc EXCEPT ![t] = label],
         UNCHANGED <<holder, queue, waiting>>
  PROVE  /\ QueuesOK' /\ PlacesOK'
         /\ Ready' = Ready \cup {t} /\ holder # t
<1>1. t \notin Ready \cup Queued \cup Awaiting /\ t # holder
  BY DEF PlacesOK, Nobody
<1>2. /\ loop' \in Seq(Tasks) /\ NoTwice(loop') /\ Ready' = Ready \cup {t}
      /\ Queued' = Queued /\ Awaiting' = Awaiting
  BY <1>1, AddedIs DEF QueuesOK, Ready, Queued, Awaiting
<1>3. QueuesOK'
  BY <1>2 DEF QueuesOK
<1>4. \A u \in Tasks : pc'[u] = IF u = t THEN label ELSE pc[u]
  BY DEF Types
<1>5. Ready \cup Queued \cup Awaiting \subseteq Tasks /\ holder \in Tasks \cup {Nobody}
  BY DEF QueuesOK, Ready, Queued, Awaiting, ToSet
<1> HIDE DEF Ready, Queued, Awaiting, Busy
<1>6. Awaiting' \cap (Ready' \cup Queued') = {}
  BY <1>1, <1>2 DEF PlacesOK
<1>7. \A u \in Ready' \cup Queued' \cup Awaiting' : pc'[u] \in Busy
  BY <1>1, <1>2, <1>4, <1>5 DEF PlacesOK
<1>8. \A u \in Tasks : pc'[u] \in Busy => u \in Ready' \cup Queued' \cup Awaiting' \cup {holder'}
  BY <1>2, <1>4, <1>5 DEF PlacesOK
<1>9. holder' = Nobody /\ queue' # <<>> => Head(queue') \in Ready'
  BY <1>2 DEF PlacesOK
<1>10. \A u \in Queued' \cap Ready' : holder' = Nobody /\ u = Head(queue')
  BY <1>1, <1>2 DEF PlacesOK
<1>11. holder' # Nobody => pc'[holder'] \in Busy /\ holder' \notin Queued' \cup Awaiting'
  BY <1>1, <1>2, <1>4, <1>5 DEF PlacesOK
<1> QED BY <1>1, <1>2, <1>3, <1>6, <1>7, <1>8, <1>9, <1>10, <1>11 DEF PlacesOK

(* Nobody moves.                                                           *)
LEMMA Staying ==
  ASSUME Types, QueuesOK, PlacesOK, NEW t \in Tasks, NEW label, UNCHANGED lockVars,
         pc' = [pc EXCEPT ![t] = label], pc[t] \in Busy <=> label \in Busy
  PROVE  QueuesOK' /\ PlacesOK' /\ Ready' = Ready
<1>1. Ready' = Ready /\ Queued' = Queued /\ Awaiting' = Awaiting
  BY DEF Ready, Queued, Awaiting
<1>2. \A u \in Tasks : pc'[u] \in Busy <=> pc[u] \in Busy
  BY DEF Types
<1>3. Ready \cup Queued \cup Awaiting \subseteq Tasks /\ holder \in Tasks \cup {Nobody}
  BY DEF QueuesOK, Ready, Queued, Awaiting, ToSet
<1> HIDE DEF Ready, Queued, Awaiting, Busy
<1> QED BY <1>1, <1>2, <1>3 DEF QueuesOK, PlacesOK

(* The one that closes a session keeps the lock, and sleeps till the end.  *)
LEMMA Sleeping ==
  ASSUME Types, QueuesOK, PlacesOK, NEW t \in Tasks, Runs(t), holder = t,
         loop' = Tail(loop), UNCHANGED <<holder, queue, waiting, pc>>
  PROVE  QueuesOK' /\ PlacesOK' /\ Ready' = Ready \ {t}
<1>1. loop' \in Seq(Tasks) /\ NoTwice(loop') /\ Ready' = Ready \ {t}
  BY FirstIs DEF QueuesOK, Runs, Ready
<1>2. Queued' = Queued /\ Awaiting' = Awaiting
  BY DEF Queued, Awaiting
<1>3. Ready \cup Queued \cup Awaiting \subseteq Tasks /\ t # Nobody
  BY DEF QueuesOK, Ready, Queued, Awaiting, ToSet
<1> HIDE DEF Ready, Queued, Awaiting, Busy
<1>4. QueuesOK'
  BY <1>1 DEF QueuesOK
<1> QED BY <1>1, <1>2, <1>3, <1>4 DEF PlacesOK

(* And it is ready again, at the end of the closing.                       *)
LEMMA Awaking ==
  ASSUME Types, QueuesOK, PlacesOK, holder # Nobody, holder \notin Ready,
         loop' = Append(loop, holder), UNCHANGED <<holder, queue, waiting, pc>>
  PROVE  QueuesOK' /\ PlacesOK' /\ Ready' = Ready \cup {holder}
<1>1. loop' \in Seq(Tasks) /\ NoTwice(loop') /\ Ready' = Ready \cup {holder}
  BY AddedIs DEF QueuesOK, Ready
<1>2. Queued' = Queued /\ Awaiting' = Awaiting
  BY DEF Queued, Awaiting
<1> HIDE DEF Ready, Queued, Awaiting, Busy
<1>3. QueuesOK'
  BY <1>1 DEF QueuesOK
<1> QED BY <1>1, <1>2, <1>3 DEF PlacesOK

(* A task takes the lock, or it goes to the end of the queue.              *)
LEMMA Locking ==
  ASSUME Types, QueuesOK, PlacesOK, NEW t \in Tasks, Lock(t)
  PROVE  /\ QueuesOK' /\ PlacesOK'
         /\ \/ holder = Nobody /\ holder' = t /\ t \in Ready /\ Ready' = Ready
            \/ holder' = holder /\ holder # t /\ Ready' = Ready \ {t}
<1>1. /\ loop \in Seq(Tasks) /\ NoTwice(loop) /\ t \in Ready /\ t # Nobody
      /\ Tail(loop) \in Seq(Tasks) /\ NoTwice(Tail(loop))
      /\ ToSet(Tail(loop)) = Ready \ {t} /\ pc[t] \in Busy /\ pc' = pc /\ waiting' = waiting
      /\ queue \in Seq(Tasks) /\ NoTwice(queue) /\ holder # t
  BY FirstIs DEF QueuesOK, Lock, Runs, Ready, Busy
<1>2. Ready \cup Queued \cup Awaiting \subseteq Tasks
  BY DEF QueuesOK, Ready, Queued, Awaiting, ToSet
<1>3. Awaiting' = Awaiting
  BY <1>1 DEF Awaiting
<1>4. CASE /\ holder = Nobody /\ queue = <<>> /\ holder' = t
           /\ queue' = queue /\ loop' = loop
  <2>1. Ready' = Ready /\ Queued' = Queued /\ QueuesOK' /\ Queued = {}
    BY <1>1, <1>4, OneIs DEF Ready, Queued, QueuesOK
  <2> HIDE DEF Ready, Queued, Awaiting, Busy
  <2>2. PlacesOK'
    BY <1>1, <1>2, <1>3, <1>4, <2>1 DEF PlacesOK
  <2> QED BY <1>1, <1>4, <2>1, <2>2
<1>5. CASE /\ holder = Nobody /\ queue # <<>> /\ Head(queue) = t /\ holder' = t
           /\ queue' = Tail(queue) /\ loop' = loop
  <2>1. /\ queue' \in Seq(Tasks) /\ NoTwice(queue') /\ Queued' = Queued \ {t}
        /\ Ready' = Ready /\ t \in Queued
    BY <1>1, <1>5, FirstIs DEF Ready, Queued
  <2>2. QueuesOK'
    BY <1>1, <1>5, <2>1 DEF QueuesOK
  <2> HIDE DEF Ready, Queued, Awaiting, Busy
  <2>3. PlacesOK'
    BY <1>1, <1>2, <1>3, <1>5, <2>1 DEF PlacesOK
  <2> QED BY <1>1, <1>5, <2>1, <2>2, <2>3
<1>6. CASE /\ ~(holder = Nobody /\ (queue = <<>> \/ Head(queue) = t))
           /\ queue' = Append(queue, t) /\ loop' = Tail(loop) /\ holder' = holder
  <2>1. t \notin Queued
    BY <1>1, <1>6 DEF PlacesOK, Queued
  <2>2. /\ queue' \in Seq(Tasks) /\ NoTwice(queue') /\ Queued' = Queued \cup {t}
        /\ Ready' = Ready \ {t} /\ queue' # <<>>
        /\ Head(queue') = IF queue = <<>> THEN t ELSE Head(queue)
    BY <1>1, <1>6, <2>1, AddedIs DEF Ready, Queued
  <2>3. QueuesOK'
    BY <1>1, <1>6, <2>2 DEF QueuesOK
  <2> HIDE DEF Ready, Queued, Awaiting, Busy
  <2>4. PlacesOK'
    BY <1>1, <1>2, <1>3, <1>6, <2>1, <2>2 DEF PlacesOK
  <2> QED BY <1>1, <1>6, <2>2, <2>3, <2>4
<1> QED BY <1>4, <1>5, <1>6 DEF Lock

-----------------------------------------------------------------------------
(* The same for the operations on the lock.                                *)

Freed == QueuesOK' /\ PlacesOK' /\ holder' = Nobody

(* A release of the lock, in five places of the code.                      *)
LEMMA RunsOn ==
  ASSUME Types, QueuesOK, PlacesOK, NEW t \in Tasks, Holds(t),
         NEW label \in Sections, ReleaseAndRun(t, label)
  PROVE  Freed
<1>1. loop \o <<>> = loop
  BY OneIs DEF QueuesOK
<1>2. /\ loop' = loop \o <<>> \o Awakened /\ ToSet(<<>>) = {}
      /\ waiting' \in Seq(Tasks) /\ NoTwice(waiting')
      /\ ToSet(waiting') = (ToSet(waiting) \ ToSet(<<>>)) \cup {}
  BY <1>1, OneIs DEF QueuesOK
<1>3. label \in Busy /\ label \in Labels
  BY DEF Busy
<1> QED BY <1>2, <1>3, Releasing DEF Freed

LEMMA Leaves ==
  ASSUME Types, QueuesOK, PlacesOK, NEW t \in Tasks, Holds(t),
         NEW label \in {"rest", "request", "login"}, ReleaseAndSuspend(t, label)
  PROVE  Freed
<1>1. Tail(loop) \o <<>> = Tail(loop)
  BY OneIs, FirstIs DEF QueuesOK, Runs
<1>2. /\ loop' = Tail(loop) \o <<>> \o Awakened /\ ToSet(<<>>) = {}
      /\ waiting' \in Seq(Tasks) /\ NoTwice(waiting')
      /\ ToSet(waiting') = (ToSet(waiting) \ ToSet(<<>>)) \cup {}
  BY <1>1, OneIs DEF QueuesOK
<1>3. label \notin Busy /\ label \in Labels /\ Tail(loop) # loop
  <2>1. ToSet(Tail(loop)) # ToSet(loop)
    BY FirstIs DEF QueuesOK, Runs
  <2> QED BY <2>1 DEF Busy
<1> QED BY <1>2, <1>3, Releasing DEF Freed

LEMMA WaitStarts ==
  ASSUME Types, QueuesOK, PlacesOK, NEW t \in Tasks, Wait(t)
  PROVE  Freed
<1>1. Tail(loop) \o <<>> = Tail(loop) /\ Holds(t)
  BY OneIs, FirstIs DEF QueuesOK, Wait, Runs
<1>2. t \notin ToSet(waiting)
  BY <1>1 DEF PlacesOK, Awaiting, Nobody
<1>3. /\ loop' = Tail(loop) \o <<>> \o Awakened /\ ToSet(<<>>) = {}
      /\ waiting' \in Seq(Tasks) /\ NoTwice(waiting')
      /\ ToSet(waiting') = (ToSet(waiting) \ ToSet(<<>>)) \cup {t}
  <2>1. waiting \in Seq(Tasks) /\ NoTwice(waiting) /\ waiting' = Append(waiting, t)
    BY DEF QueuesOK, Wait
  <2>2. /\ waiting' \in Seq(Tasks) /\ NoTwice(waiting')
        /\ ToSet(waiting') = ToSet(waiting) \cup {t}
    BY <1>2, <2>1, AddedIs
  <2>3. loop' = Tail(loop) \o Awakened /\ ToSet(<<>>) = {}
    BY OneIs DEF Wait
  <2> QED BY <1>1, <2>2, <2>3
<1>4. pc[t] \in Busy /\ pc[t] \in Labels /\ pc' = [pc EXCEPT ![t] = pc[t]]
  BY DEF Wait, Types, Busy
<1>5. holder' = Nobody /\ queue' = queue
  BY DEF Wait
<1> QED BY <1>1, <1>3, <1>4, <1>5, Releasing DEF Freed

LEMMA Depletes ==
  ASSUME Types, QueuesOK, PlacesOK, NEW t \in Tasks, Holds(t),
         NEW label \in Sections, Deplete(t, label)
  PROVE  Freed
<1>1. /\ waiting' \in Seq(Tasks) /\ NoTwice(waiting')
      /\ ToSet(waiting') = (ToSet(waiting) \ ToSet(waiting)) \cup {t}
      /\ loop' = Tail(loop) \o waiting \o Awakened
  BY OneIs DEF Deplete
<1>2. label \in Busy /\ label \in Labels
  BY DEF Busy
<1>3. holder' = Nobody /\ queue' = queue /\ pc' = [pc EXCEPT ![t] = label]
  BY DEF Deplete
<1> QED BY <1>1, <1>2, <1>3, Releasing DEF Freed

LEMMA Notifies ==
  ASSUME Types, QueuesOK, PlacesOK, Populate
  PROVE  Freed
<1>1. PICK t \in Tasks, label \in Labels : t = Authenticator /\ label = "emptiness"
  OBVIOUS
<1>2. /\ holder' = Nobody /\ queue' = queue /\ pc' = [pc EXCEPT ![t] = label]
      /\ Runs(t) /\ holder = t /\ label \in Busy
  BY <1>1 DEF Populate, Busy
<1>3. /\ waiting' \in Seq(Tasks) /\ NoTwice(waiting')
      /\ ToSet(waiting') = (ToSet(waiting) \ ToSet(waiting)) \cup {}
      /\ loop' = loop \o waiting \o Awakened
  BY OneIs DEF Populate, NotifyAll
<1>4. {} \in SUBSET {t}
  OBVIOUS
<1> HIDE DEF Labels, Sections, Busy
<1> QED BY <1>2, <1>3, <1>4, Releasing DEF Freed

(* The tasks remain in their places, each in one.                          *)
LEMMA PlacesNext ==
  ASSUME Types, QueuesOK, PlacesOK, LabelsOK, ClosingOK, [Next]_vars
  PROVE  QueuesOK' /\ PlacesOK'
<1>1. ASSUME NEW t \in Tasks, Lock(t)
      PROVE  QueuesOK' /\ PlacesOK'
  BY <1>1, Locking
<1>2. ASSUME NEW t \in Tasks, Wait(t)
      PROVE  QueuesOK' /\ PlacesOK'
  BY <1>2, WaitStarts DEF Freed
<1>3. ASSUME NEW t \in Calls, CheckExpiration(t)
      PROVE  QueuesOK' /\ PlacesOK'
  <2>1. \E label \in {"pick", "expire"} : pc' = [pc EXCEPT ![t] = label]
    BY <1>3 DEF CheckExpiration
  <2> QED BY <1>3, <2>1, Staying DEF CheckExpiration, Busy
<1>4. ASSUME NEW t \in Calls, Reauthenticated(t)
      PROVE  QueuesOK' /\ PlacesOK'
  BY <1>4, Staying DEF Reauthenticated, Busy
<1>5. ASSUME NEW t \in Calls, CheckAfterYield(t)
      PROVE  QueuesOK' /\ PlacesOK'
  BY <1>5, RunsOn DEF CheckAfterYield, Freed
<1>6. ASSUME NEW t \in Calls, Begin(t) \/ RequestFails(t)
      PROVE  QueuesOK' /\ PlacesOK'
  BY <1>6, Arriving DEF Begin, RequestFails, Busy
<1>7. ASSUME LoginEnds
      PROVE  QueuesOK' /\ PlacesOK'
  BY <1>7, Arriving DEF LoginEnds, Busy
<1>8. ASSUME BeginLogin
      PROVE  QueuesOK' /\ PlacesOK'
  BY <1>8, Leaves DEF BeginLogin, Freed
<1>9. ASSUME LoginFails
      PROVE  QueuesOK' /\ PlacesOK'
  BY <1>9, Staying DEF LoginFails, Busy
<1>10. ASSUME NEW info \in Infos, Expires(info) \/ Revoke(info)
      PROVE  QueuesOK' /\ PlacesOK'
  BY <1>10 DEF Expires, Revoke, QueuesOK, PlacesOK, Ready, Queued, Awaiting
<1>11. ASSUME UNCHANGED vars
      PROVE  QueuesOK' /\ PlacesOK'
  BY <1>11 DEF vars, QueuesOK, PlacesOK, Ready, Queued, Awaiting
<1>12. ASSUME NEW t \in Calls, Expire(t)
      PROVE  QueuesOK' /\ PlacesOK'
  <2>1. Holds(t) /\ pc[t] = "expire"
    BY <1>12 DEF Expire
  <2>2. \/ SuspendHolding(t)
        \/ Deplete(t, "expired")
        \/ \E label \in {"pick", "expire"} : Continue(t, label)
    BY <1>12 DEF Expire, Flush
  <2>3. CASE SuspendHolding(t)
    BY <2>1, <2>3, Sleeping
  <2>4. CASE Deplete(t, "expired")
    BY <2>1, <2>4, Depletes DEF Freed
  <2>5. CASE \E label \in {"pick", "expire"} : Continue(t, label)
    BY <2>1, <2>5, Staying DEF Busy
  <2> QED BY <2>2, <2>3, <2>4, <2>5
<1>13. ASSUME NEW t \in Calls, Invalidate(t)
      PROVE  QueuesOK' /\ PlacesOK'
  <2>1. Holds(t)
    BY <1>13 DEF Invalidate
  <2>2. SuspendHolding(t) \/ Deplete(t, "depleted") \/ ReleaseAndRun(t, "check")
    BY <1>13 DEF Invalidate, Flush, AfterInvalidation
  <2>3. CASE SuspendHolding(t)
    BY <2>1, <2>3, Sleeping
  <2>4. CASE Deplete(t, "depleted")
    BY <2>1, <2>4, Depletes DEF Freed
  <2>5. CASE ReleaseAndRun(t, "check")
    BY <2>1, <2>5, RunsOn DEF Freed
  <2> QED BY <2>2, <2>3, <2>4, <2>5
<1>14. ASSUME NEW t \in Calls,
             Select(t) \/ RanOut(t) \/ MakeCaches(t) \/ MakeContext(t)
               \/ CachesAreGone(t) \/ Depleted(t)
      PROVE  QueuesOK' /\ PlacesOK'
  <2>1. Holds(t)
    BY <1>14 DEF Select, RanOut, MakeCaches, MakeContext, CachesAreGone, Depleted
  <2>2. \/ \E label \in {"cache", "context", "check"} : ReleaseAndRun(t, label)
        \/ \E label \in {"request", "rest"} : ReleaseAndSuspend(t, label)
    <3>1. CASE Select(t)
      <4>1. PICK k \in Prioritised :
              CASE items[current[k]].caches = "none"  -> ReleaseAndRun(t, "cache")
                [] items[current[k]].caches = "empty" -> ReleaseAndRun(t, "context")
                [] OTHER -> ReleaseAndSuspend(t, "request")
        BY <3>1 DEF Select
      <4> HIDE DEF ReleaseAndRun, ReleaseAndSuspend
      <4> QED BY <4>1
    <3>2. CASE RanOut(t) \/ CachesAreGone(t)
      BY <3>2 DEF RanOut, CachesAreGone, Fail
    <3>3. CASE MakeCaches(t) \/ MakeContext(t)
      BY <3>3 DEF MakeCaches, MakeContext
    <3>4. CASE Depleted(t)
      BY <3>4 DEF Depleted, Fail
    <3> QED BY <1>14, <3>1, <3>2, <3>3, <3>4
  <2> HIDE DEF ReleaseAndRun, ReleaseAndSuspend, Holds
  <2>3. CASE \E label \in {"cache", "context", "check"} : ReleaseAndRun(t, label)
    BY <2>1, <2>3, RunsOn DEF Freed
  <2>4. CASE \E label \in {"request", "rest"} : ReleaseAndSuspend(t, label)
    BY <2>1, <2>4, Leaves DEF Freed
  <2> QED BY <2>2, <2>3, <2>4
<1>15. ASSUME NEW t \in Calls, RequestSucceeds(t)
      PROVE  QueuesOK' /\ PlacesOK'
  BY <1>15, Staying DEF RequestSucceeds, Busy
<1>16. ASSUME NEW i \in DOMAIN items, CloseEnds(i)
      PROVE  QueuesOK' /\ PlacesOK'
  <2>1. holder # Nobody /\ holder \notin Ready
    BY <1>16 DEF CloseEnds, ClosingOK, IsClosing
  <2> QED BY <1>16, <2>1, Awaking DEF CloseEnds
<1>17. ASSUME Populate
      PROVE  QueuesOK' /\ PlacesOK'
  BY <1>17, Notifies DEF Freed
<1> QED
  BY <1>1, <1>2, <1>3, <1>4, <1>5, <1>6, <1>7, <1>8, <1>9, <1>10,
     <1>11, <1>12, <1>13, <1>14, <1>15, <1>16, <1>17
     DEF Next, LoopSteps, CallSteps, RequestEnds

-----------------------------------------------------------------------------
(* The sessions that are being closed.                                     *)

LEMMA RunningIsReady ==
  ASSUME QueuesOK, NEW t \in Tasks, Runs(t)
  PROVE  t \in Ready /\ t # Nobody
BY FirstIs DEF QueuesOK, Runs, Ready

LEMMA RunningClosesNothing ==
  ASSUME QueuesOK, ClosingOK, NEW t \in Tasks, Runs(t), holder = t
  PROVE  \A i \in DOMAIN items : ~IsClosing(i)
BY RunningIsReady DEF ClosingOK

(* The lock is free, and no item has got a session to be closed.           *)
LEMMA NoneIsClosing ==
  ASSUME holder' = Nobody, \A i \in DOMAIN items' : items'[i].caches # "closing"
  PROVE  ClosingOK'
BY DEF ClosingOK, IsClosing

(* The task that had the lock begins to close the session of an item.      *)
LEMMA OneIsClosing ==
  ASSUME Types, QueuesOK, PlacesOK, ClosingOK, NEW t \in Tasks, Holds(t),
         SuspendHolding(t), NEW i \in DOMAIN items, IsCurrent(i), CachesSet(i, "closing")
  PROVE  ClosingOK'
<1>1. Ready' = Ready \ {t} /\ holder' = t /\ t # Nobody
  BY Sleeping, RunningIsReady
<1>2. \A j \in DOMAIN items' : IsClosing(j)' <=> j = i
  BY RunningClosesNothing DEF CachesSet, IsClosing
<1>3. i \in DOMAIN items' /\ IsCurrent(i)'
  BY DEF CachesSet, IsCurrent
<1> QED BY <1>1, <1>2, <1>3 DEF ClosingOK

(* The items are the same, and so are the places as far as the holder of   *)
(* the lock is concerned.                                                  *)
LEMMA ClosingStays ==
  ASSUME ClosingOK, UNCHANGED <<current, items>>,
         \/ holder' = holder /\ (holder \in Ready <=> holder' \in Ready')
         \/ holder = Nobody /\ holder' \in Ready'
         \/ holder' = Nobody /\ \A i \in DOMAIN items : ~IsClosing(i)
  PROVE  ClosingOK'
<1> HIDE DEF Ready
<1>1. \A i : (IsClosing(i)' <=> IsClosing(i)) /\ (IsCurrent(i)' <=> IsCurrent(i))
  BY DEF IsClosing, IsCurrent
<1> QED BY <1>1 DEF ClosingOK

LEMMA OneClosingNext ==
  ASSUME IInv, QueuesOK, PlacesOK, ClosingOK, [Next]_vars
  PROVE  ClosingOK'
<1> Types /\ ItemsOK(current, held, items)
  BY DEF IInv, Types
<1>1. ASSUME NEW t \in Tasks, Lock(t)
      PROVE  ClosingOK'
  <2>1. \/ holder = Nobody /\ holder' = t /\ t \in Ready /\ Ready' = Ready
        \/ holder' = holder /\ holder # t /\ Ready' = Ready \ {t}
    BY <1>1, Locking
  <2> QED BY <1>1, <2>1, ClosingStays DEF Lock
<1>2. ASSUME NEW t \in Tasks, Wait(t)
      PROVE  ClosingOK'
  BY <1>2, RunningClosesNothing, ClosingStays DEF Wait
<1>3. ASSUME NEW t \in Calls, CheckExpiration(t) \/ Reauthenticated(t)
      PROVE  ClosingOK'
  BY <1>3, ClosingStays DEF CheckExpiration, Reauthenticated, Ready
<1>4. ASSUME NEW t \in Calls, CheckAfterYield(t)
      PROVE  ClosingOK'
  BY <1>4, RunningClosesNothing, ClosingStays DEF CheckAfterYield
<1>5. ASSUME NEW t \in Calls, Begin(t) \/ RequestFails(t)
      PROVE  ClosingOK'
  <2>1. Ready' = Ready \cup {t} /\ holder # t
    BY <1>5, Arriving DEF Begin, RequestFails, Busy
  <2> QED BY <1>5, <2>1, ClosingStays DEF Begin, RequestFails
<1>6. ASSUME LoginEnds
      PROVE  ClosingOK'
  <2>1. Ready' = Ready \cup {Authenticator} /\ holder # Authenticator
    BY <1>6, Arriving DEF LoginEnds, Busy
  <2> QED BY <1>6, <2>1, ClosingStays DEF LoginEnds
<1>7. ASSUME BeginLogin
      PROVE  ClosingOK'
  BY <1>7, RunningClosesNothing, ClosingStays DEF BeginLogin
<1>8. ASSUME \/ LoginFails \/ UNCHANGED vars
             \/ \E info \in Infos : Expires(info) \/ Revoke(info)
      PROVE  ClosingOK'
  BY <1>8, ClosingStays DEF LoginFails, vars, Expires, Revoke, Ready
<1>9. ASSUME NEW t \in Calls, Expire(t)
      PROVE  ClosingOK'
  <2>1. PICK k \in expiring[t] : ExpireOutcome(t, k)
    BY <1>9, ExpireCases
  <2>2. \A i \in DOMAIN items : items[i].caches # "closing"
    BY <1>9, RunningClosesNothing DEF Expire, IsClosing
  <2>3. CASE CachesSet(current[k], "closing") /\ SuspendHolding(t)
    <3>1. k \in DOMAIN current /\ current[k] \in DOMAIN items /\ IsCurrent(current[k])
      BY <2>1, Names DEF ExpireOutcome, ItemsOK, IsCurrent
    <3> QED BY <1>9, <2>3, <3>1, OneIsClosing DEF Expire
  <2>4. CASE Dropped(k) /\ (holder' = Nobody \/ UNCHANGED lockVars)
    <3>1. \A i \in DOMAIN items' : items'[i].caches # "closing"
      BY <2>2, <2>4 DEF Dropped
    <3>2. holder' = Nobody \/ holder' \in Ready'
      BY <1>9, <2>4, RunningIsReady DEF Expire, Ready
    <3> QED BY <3>1, <3>2 DEF ClosingOK, IsClosing
  <2> QED BY <2>1, <2>3, <2>4 DEF ExpireOutcome
<1>10. ASSUME NEW t \in Calls, Invalidate(t)
      PROVE  ClosingOK'
  <2>1. \A i \in DOMAIN items : items[i].caches # "closing"
    BY <1>10, RunningClosesNothing DEF Invalidate, IsClosing
  <2>2. CASE /\ IsCurrent(held[t]) /\ Flush(t, current[KeyOf(held[t])])
             /\ UNCHANGED <<ready, current, invalid, held>>
    <3>1. held[t] = current[KeyOf(held[t])] /\ held[t] \in DOMAIN items
      BY <2>2 DEF IsCurrent, ItemsOK
    <3>2. CachesSet(held[t], "closing")
      BY <2>2, <3>1, Caching DEF Flush, Caches
    <3> QED BY <1>10, <2>2, <3>1, <3>2, OneIsClosing DEF Flush, Invalidate
  <2>3. CASE AfterInvalidation(t, current) /\ UNCHANGED <<current, items, invalid, held>>
    BY <2>1, <2>3, NoneIsClosing DEF AfterInvalidation, Deplete
  <2>4. CASE /\ IsCurrent(held[t])
             /\ Refer(Without(KeyOf(held[t])), held,
                      Cached(current[KeyOf(held[t])], "none"))
             /\ AfterInvalidation(t, Without(KeyOf(held[t])))
    <3>1. \A i \in DOMAIN items' : items'[i].caches # "closing"
      BY <2>1, <2>4 DEF Refer, Cached, ItemsOK
    <3> QED BY <2>4, <3>1, NoneIsClosing DEF AfterInvalidation, Deplete
  <2> QED BY <1>10, <2>2, <2>3, <2>4 DEF Invalidate
<1>11. ASSUME NEW t \in Calls, Select(t)
      PROVE  ClosingOK'
  <2>1. PICK k \in DOMAIN current : SelectOutcome(t, k)
    BY <1>11, SelectCases
  <2>2. \A i \in DOMAIN items : items[i].caches # "closing"
    BY <1>11, RunningClosesNothing DEF Select, IsClosing
  <2> QED BY <2>1, <2>2, NoneIsClosing DEF SelectOutcome, HeldSet
<1>12. ASSUME NEW t \in Calls, RanOut(t) \/ CachesAreGone(t) \/ Depleted(t)
      PROVE  ClosingOK'
  <2>1. GiveBackOutcome(t) /\ holder' = Nobody
    BY <1>12, GiveBackCases DEF RanOut, CachesAreGone, Depleted, Fail
  <2>2. \A i \in DOMAIN items : items[i].caches # "closing"
    BY <1>12, RunningClosesNothing DEF RanOut, CachesAreGone, Depleted, IsClosing
  <2> QED BY <2>1, <2>2, NoneIsClosing DEF GiveBackOutcome, HeldSet
<1>13. ASSUME NEW t \in Calls, RequestSucceeds(t)
      PROVE  ClosingOK'
  <2>1. HeldSet(t, NoItem) /\ Ready' = Ready /\ holder' = holder
    BY <1>13, Holding DEF RequestSucceeds, Ready
  <2>2. \A i \in DOMAIN items' : /\ i \in DOMAIN items
                                 /\ IsClosing(i)' <=> IsClosing(i)
                                 /\ IsCurrent(i)' <=> IsCurrent(i)
    BY <2>1 DEF HeldSet, IsClosing, IsCurrent
  <2>3. \A i \in DOMAIN items : IsCurrent(i) => i \in DOMAIN items'
    BY <2>1 DEF HeldSet, IsCurrent, ItemsOK
  <2> HIDE DEF Ready
  <2> QED BY <2>1, <2>2, <2>3 DEF ClosingOK
<1>14. ASSUME NEW t \in Calls, MakeCaches(t) \/ MakeContext(t)
      PROVE  ClosingOK'
  <2>1. OpenOutcome(t)
    BY <1>14, OpenCases
  <2>2. \A i \in DOMAIN items : items[i].caches # "closing"
    BY <1>14, RunningClosesNothing DEF MakeCaches, MakeContext, IsClosing
  <2> QED BY <2>1, <2>2, NoneIsClosing DEF OpenOutcome, CachesSet
<1>15. ASSUME NEW i \in DOMAIN items, CloseEnds(i)
      PROVE  ClosingOK'
  <2>1. CachesSet(i, "none") /\ IsClosing(i) /\ holder' = holder
    BY <1>15, CloseCases DEF CloseOutcome, CloseEnds, IsClosing
  <2>2. \A j \in DOMAIN items' : ~IsClosing(j)'
    BY <2>1 DEF CachesSet, IsClosing, ClosingOK
  <2>3. holder \in Ready'
    BY <1>15, <2>1, Awaking DEF CloseEnds, ClosingOK
  <2> HIDE DEF Ready
  <2> QED BY <2>1, <2>2, <2>3 DEF ClosingOK
<1>16. ASSUME Populate
      PROVE  ClosingOK'
  <2>1. \A i \in DOMAIN items : items[i].caches # "closing"
    BY <1>16, RunningClosesNothing DEF Populate, IsClosing
  <2>2. \A i \in DOMAIN items' : items'[i].caches # "closing"
    <3>1. /\ ItemsOK(current', held', items') /\ held' = held
          /\ \A k \in DOMAIN current' : items'[current'[k]].caches = "none"
          /\ \A i \in DOMAIN items' \cap DOMAIN items : items'[i] = items[i]
      BY <1>16, Populating
    <3>2. ASSUME NEW i \in DOMAIN items', \A k \in DOMAIN current' : current'[k] # i
          PROVE  i \in DOMAIN items
      <4>1. PICK t \in Calls : held[t] = i
        BY <3>1, <3>2 DEF ItemsOK
      <4>2. i # NoItem
        BY <3>1, Names DEF ItemsOK
      <4> QED BY <4>1, <4>2 DEF ItemsOK
    <3> QED BY <2>1, <3>1, <3>2
  <2> QED BY <1>16, <2>2, NoneIsClosing DEF Populate
<1> QED
  BY <1>1, <1>2, <1>3, <1>4, <1>5, <1>6, <1>7, <1>8, <1>9, <1>10,
     <1>11, <1>12, <1>13, <1>14, <1>15, <1>16
     DEF Next, LoopSteps, CallSteps, RequestEnds

(* The labels of the tasks.                                                *)
LEMMA LabelsNext ==
  ASSUME IInv, LabelsOK, [Next]_vars
  PROVE  LabelsOK'
<1> /\ pc \in [Tasks -> Labels] /\ Nobody \notin Tasks /\ Types
  BY DEF IInv, Types
<1>1. ASSUME NEW t \in Tasks, Lock(t)
      PROVE  LabelsOK'
  BY <1>1 DEF Lock, LabelsOK
<1>2. ASSUME NEW t \in Tasks, Wait(t)
      PROVE  LabelsOK'
  BY <1>2 DEF Wait, LabelsOK
<1>3. ASSUME NEW t \in Calls, CheckExpiration(t)
      PROVE  LabelsOK'
  BY <1>3 DEF CheckExpiration, LabelsOK
<1>4. ASSUME NEW t \in Calls, Reauthenticated(t) \/ CheckAfterYield(t)
      PROVE  LabelsOK'
  BY <1>4 DEF Reauthenticated, CheckAfterYield, LabelsOK
<1>5. ASSUME NEW t \in Calls, Begin(t) \/ RequestFails(t)
      PROVE  LabelsOK'
  BY <1>5 DEF Begin, RequestFails, LabelsOK
<1>6. ASSUME BeginLogin \/ LoginEnds \/ LoginFails \/ Populate
      PROVE  LabelsOK'
  BY <1>6 DEF BeginLogin, LoginEnds, LoginFails, Populate, LabelsOK
<1>7. ASSUME \/ UNCHANGED vars
             \/ \E info \in Infos : Expires(info) \/ Revoke(info)
      PROVE  LabelsOK'
  BY <1>7 DEF vars, Expires, Revoke, LabelsOK
<1>8. ASSUME NEW t \in Calls, Expire(t)
      PROVE  LabelsOK'
  <2>1. PICK k \in expiring[t] : ExpireOutcome(t, k)
    BY <1>8, ExpireCases
  <2> QED BY <2>1 DEF ExpireOutcome, LabelsOK
<1>9. ASSUME NEW t \in Calls, Invalidate(t)
      PROVE  LabelsOK'
  <2>1. InvalidateOutcome(t)
    BY <1>9, InvalidateCases
  <2> QED BY <2>1 DEF InvalidateOutcome, LabelsOK
<1>10. ASSUME NEW t \in Calls, Select(t)
      PROVE  LabelsOK'
  <2>1. PICK k \in DOMAIN current : SelectOutcome(t, k)
    BY <1>10, SelectCases
  <2> QED BY <2>1 DEF SelectOutcome, LabelsOK
<1>11. ASSUME NEW t \in Calls,
             RanOut(t) \/ CachesAreGone(t) \/ Depleted(t) \/ RequestSucceeds(t)
      PROVE  LabelsOK'
  <2>1. GiveBackOutcome(t)
    BY <1>11, GiveBackCases
  <2> QED BY <2>1 DEF GiveBackOutcome, LabelsOK
<1>12. ASSUME NEW t \in Calls, MakeCaches(t) \/ MakeContext(t)
      PROVE  LabelsOK'
  <2>1. OpenOutcome(t)
    BY <1>12, OpenCases
  <2> QED BY <2>1 DEF OpenOutcome, LabelsOK
<1>13. ASSUME NEW i \in DOMAIN items, CloseEnds(i)
      PROVE  LabelsOK'
  <2>1. CloseOutcome(i)
    BY <1>13, CloseCases
  <2> QED BY <2>1 DEF CloseOutcome, LabelsOK
<1> QED
  BY <1>1, <1>2, <1>3, <1>4, <1>5, <1>6, <1>7, <1>8, <1>9, <1>10,
     <1>11, <1>12, <1>13
     DEF Next, LoopSteps, CallSteps, RequestEnds

(* The failed item is in the vault no more, and it never comes back, as     *)
(* there are other items after a login.                                    *)
LEMMA GoneNext ==
  ASSUME IInv, FailedIsGone, [Next]_vars
  PROVE  FailedIsGone'
<1> pc \in [Tasks -> Labels] /\ ItemsOK(current, held, items)
  BY DEF IInv, Types
<1>1. ASSUME NEW t \in Tasks, Lock(t) \/ Wait(t)
      PROVE  FailedIsGone'
  BY <1>1 DEF Lock, Wait, FailedIsGone, IsCurrent
<1>2. ASSUME NEW t \in Calls, CheckExpiration(t)
      PROVE  FailedIsGone'
  BY <1>2 DEF CheckExpiration, FailedIsGone, IsCurrent
<1>3. ASSUME NEW t \in Calls, Reauthenticated(t) \/ CheckAfterYield(t)
      PROVE  FailedIsGone'
  BY <1>3 DEF Reauthenticated, CheckAfterYield, FailedIsGone, IsCurrent
<1>4. ASSUME NEW t \in Calls, Begin(t) \/ RequestFails(t)
      PROVE  FailedIsGone'
  BY <1>4 DEF Begin, RequestFails, FailedIsGone, IsCurrent
<1>5. ASSUME BeginLogin \/ LoginEnds \/ LoginFails
      PROVE  FailedIsGone'
  BY <1>5 DEF BeginLogin, LoginEnds, LoginFails, FailedIsGone, IsCurrent
<1>6. ASSUME \/ UNCHANGED vars
             \/ \E info \in Infos : Expires(info) \/ Revoke(info)
      PROVE  FailedIsGone'
  BY <1>6 DEF vars, Expires, Revoke, FailedIsGone, IsCurrent
<1>7. ASSUME NEW t \in Calls, Expire(t)
      PROVE  FailedIsGone'
  <2>1. PICK k \in expiring[t] : ExpireOutcome(t, k)
    BY <1>7, ExpireCases
  <2>2. held' = held /\ \A i : IsCurrent(i)' => IsCurrent(i)
    BY <2>1 DEF ExpireOutcome, CachesSet, Dropped, Without, IsCurrent
  <2> QED BY <2>1, <2>2 DEF ExpireOutcome, FailedIsGone
<1>8. ASSUME NEW t \in Calls, Invalidate(t)
      PROVE  FailedIsGone'
  <2>1. InvalidateOutcome(t)
    BY <1>8, InvalidateCases
  <2>2. held' = held /\ \A i : IsCurrent(i)' => IsCurrent(i)
    BY <2>1 DEF InvalidateOutcome, CachesSet, Dropped, Without, IsCurrent
  <2>3. pc' = pc \/ ~IsCurrent(held[t])'
    <3>1. CASE CachesSet(held[t], "closing") /\ pc' = pc
      BY <3>1
    <3>2. CASE Dropped(KeyOf(held[t]))
      BY <3>2 DEF Dropped, Without, IsCurrent
    <3>3. CASE /\ ~IsCurrent(held[t]) /\ UNCHANGED <<current, held>>
      BY <3>3 DEF IsCurrent
    <3>4. \/ IsCurrent(held[t]) /\ Flush(t, current[KeyOf(held[t])])
          \/ /\ IsCurrent(held[t])
             /\ Refer(Without(KeyOf(held[t])), held,
                      Cached(current[KeyOf(held[t])], "none"))
          \/ ~IsCurrent(held[t]) /\ UNCHANGED <<current, held>>
      BY <1>8 DEF Invalidate
    <3>5. CASE IsCurrent(held[t]) /\ Flush(t, current[KeyOf(held[t])])
      BY <3>5 DEF Flush
    <3>6. CASE /\ IsCurrent(held[t])
               /\ Refer(Without(KeyOf(held[t])), held,
                        Cached(current[KeyOf(held[t])], "none"))
      BY <3>6 DEF Refer, Without, IsCurrent
    <3> QED BY <3>3, <3>4, <3>5, <3>6
  <2> QED BY <2>1, <2>2, <2>3 DEF InvalidateOutcome, FailedIsGone
<1>9. ASSUME NEW t \in Calls, Select(t)
      PROVE  FailedIsGone'
  <2>1. PICK k \in DOMAIN current : SelectOutcome(t, k)
    BY <1>9, SelectCases
  <2> QED BY <2>1 DEF SelectOutcome, HeldSet, FailedIsGone, IsCurrent, ItemsOK
<1>10. ASSUME NEW t \in Calls,
              RanOut(t) \/ CachesAreGone(t) \/ RequestSucceeds(t)
      PROVE  FailedIsGone'
  <2>1. HeldSet(t, NoItem) /\ pc' = [pc EXCEPT ![t] = "rest"]
    BY <1>10, Holding DEF RanOut, CachesAreGone, RequestSucceeds, Fail
  <2> QED BY <2>1 DEF HeldSet, FailedIsGone, IsCurrent, ItemsOK
<1>11. ASSUME NEW t \in Calls, Depleted(t)
      PROVE  FailedIsGone'
  <2>1. GiveBackOutcome(t) /\ pc[t] = "depleted"
    BY <1>11, GiveBackCases DEF Depleted
  <2> QED BY <2>1 DEF GiveBackOutcome, HeldSet, FailedIsGone, IsCurrent, ItemsOK
<1>12. ASSUME NEW t \in Calls, MakeCaches(t) \/ MakeContext(t)
      PROVE  FailedIsGone'
  <2>1. OpenOutcome(t)
    BY <1>12, OpenCases
  <2> QED BY <2>1 DEF OpenOutcome, CachesSet, FailedIsGone, IsCurrent
<1>13. ASSUME NEW i \in DOMAIN items, CloseEnds(i)
      PROVE  FailedIsGone'
  <2>1. CloseOutcome(i)
    BY <1>13, CloseCases
  <2> QED BY <2>1 DEF CloseOutcome, CachesSet, FailedIsGone, IsCurrent
<1>14. ASSUME Populate
      PROVE  FailedIsGone'
  BY <1>14, NobodyHasNew DEF FailedIsGone
<1> QED
  BY <1>1, <1>2, <1>3, <1>4, <1>5, <1>6, <1>7, <1>8, <1>9, <1>10,
     <1>11, <1>12, <1>13, <1>14
     DEF Next, LoopSteps, CallSteps, RequestEnds

-----------------------------------------------------------------------------
(* All together.                                                           *)

LEMMA InitGInv == Init => GInv
<1> SUFFICES ASSUME Init PROVE GInv
  OBVIOUS
<1>1. QueuesOK
  BY OneIs DEF Init, QueuesOK
<1>2. Ready = {Authenticator} /\ Queued = {} /\ Awaiting = {}
  BY OneIs DEF Init, Ready, Queued, Awaiting
<1>3. PlacesOK
  BY <1>2 DEF Init, PlacesOK, Busy
<1>4. ClosingOK
  <2>1. PICK ks \in SUBSET Keys :
          \E infos \in [ks -> Infos] :
            items = [i \in {<<k, 1>> : k \in ks} |-> Item(infos[KeyOf(i)])]
    BY DEF Init
  <2>2. \A i \in DOMAIN items : items[i].caches = "none"
    BY <2>1 DEF Item
  <2> QED BY <2>2 DEF Init, ClosingOK, IsClosing
<1>5. LabelsOK /\ FailedIsGone
  BY DEF Init, LabelsOK, FailedIsGone
<1> QED BY <1>1, <1>3, <1>4, <1>5 DEF GInv

LEMMA NextGInv == IInv /\ GInv /\ [Next]_vars => GInv'
BY PlacesNext, OneClosingNext, LabelsNext, GoneNext DEF GInv, IInv

LEMMA GInvHolds == Spec => []GInv
<1>1. IInv /\ GInv /\ [Next]_vars => GInv'
  BY NextGInv
<1>2. Init => GInv
  BY InitGInv
<1> QED BY <1>1, <1>2, InvariantHolds, PTL DEF Spec

(* authenticated() never gets to "an impossible state: the end of the      *)
(* authentication cycle", as the item for which a call has failed is never *)
(* found in the vault again.                                               *)
THEOREM FailedIsNeverThere == Spec => []FailedIsGone
<1>1. GInv => FailedIsGone
  BY DEF GInv
<1> QED BY <1>1, GInvHolds, PTL

(* In a vault that is not empty, some item has the highest priority.       *)
LEMMA SomeIsPrioritised ==
  ASSUME IInv, ~IsEmpty(current)
  PROVE  Prioritised # {}
<1> DEFINE D == DOMAIN current
           P == [k \in D |-> Priority[items[current[k]].info]]
           Above(k) == {j \in D : P[k] < P[j]}
           N == {Cardinality(Above(k)) : k \in D}
<1>1. IsFiniteSet(D) /\ D # {} /\ P \in [D -> Nat]
  <2>1. D \subseteq Keys
    BY DEF IInv, Types, ItemsOK
  <2>2. IsFiniteSet(D)
    BY <2>1, FS_Subset
  <2>3. \A k \in D : items[current[k]].info \in Infos
    BY DEF IInv, Types, ItemsOK
  <2> QED BY <2>2, <2>3 DEF IsEmpty
<1>2. \A k \in D : P[k] = Priority[items[current[k]].info]
  OBVIOUS
<1> HIDE DEF D, P
<1>3. \A k \in D : IsFiniteSet(Above(k)) /\ Cardinality(Above(k)) \in Nat
  <2>1. \A k \in D : Above(k) \in SUBSET D
    OBVIOUS
  <2> HIDE DEF Above
  <2> QED BY <1>1, <2>1, FS_Subset, FS_CardinalityType
<1>4. N \subseteq Nat /\ N # {}
  <2> HIDE DEF Above
  <2> QED BY <1>1, <1>3
<1>5. PICK n \in N : \A m \in N : ~(<<m, n>> \in OpToRel(<, Nat))
  <2> HIDE DEF N
  <2> QED BY <1>4, WFMin, NatLessThanWellFounded, Zenon
<1>6. PICK k \in D : n = Cardinality(Above(k))
  OBVIOUS
<1>7. \A j \in D : ~(Cardinality(Above(j)) < Cardinality(Above(k)))
  <2>1. \A m \in N : ~(m < n)
    <3> HIDE DEF N
    <3> QED BY <1>4, <1>5, Zenon DEF OpToRel
  <2>2. \A j \in D : Cardinality(Above(j)) \in N
    OBVIOUS
  <2> HIDE DEF N, Above
  <2> QED BY <1>6, <2>1, <2>2
<1>8. ASSUME NEW j \in D, ~(P[j] <= P[k])
      PROVE  FALSE
  <2>1. P[j] \in Nat /\ P[k] \in Nat /\ P[k] < P[j]
    BY <1>1, <1>8
  <2>2. Above(j) \subseteq Above(k) /\ j \in Above(k) /\ j \notin Above(j)
    BY <1>1, <2>1
  <2> HIDE DEF Above
  <2>3. Cardinality(Above(j)) <= Cardinality(Above(k))
        /\ Cardinality(Above(j)) # Cardinality(Above(k))
    BY <1>3, <2>2, FS_Subset
  <2> QED BY <1>3, <1>7, <2>3
<1>9. k \in Prioritised
  <2>1. k \in DOMAIN current
    BY DEF D
  <2>2. \A j \in DOMAIN current : P[j] <= P[k]
    BY <1>8 DEF D
  <2>3. \A j \in DOMAIN current : P[j] = Priority[items[current[j]].info]
    BY <1>2 DEF D
  <2> QED BY <2>1, <2>2, <2>3 DEF Prioritised
<1> QED BY <1>9

(* The task that runs has something to do; and if nobody is ready to run,  *)
(* nobody but the network is waited for.                                   *)
LEMMA NobodyStuckNow ==
  ASSUME IInv, GInv
  PROVE  NobodyIsStuck
<1> pc \in [Tasks -> Labels]
  BY DEF IInv, Types
<1>1. CASE loop # <<>>
  <2>1. PICK t : t = Head(loop)
    OBVIOUS
  <2>2. t \in Tasks /\ t \in Ready /\ pc[t] \in Busy
    BY <1>1, <2>1, FirstIs DEF GInv, QueuesOK, PlacesOK, Ready
  <2> SUFFICES CanGoOn(t)
    BY <1>1, <2>1 DEF NobodyIsStuck
  <2>3. CASE holder # t
    BY <2>2, <2>3 DEF CanGoOn, GInv, LabelsOK, Busy
  <2>4. CASE holder = t /\ t = Authenticator
    BY <2>2, <2>4 DEF CanGoOn, GInv, LabelsOK, Busy
  <2>5. CASE holder = t /\ t \in Calls
    <3>1. pc[t] \in (Sections \ {"emptiness", "populate"}) \cup {"expire", "pick"}
      BY <2>2, <2>5 DEF GInv, LabelsOK, Busy
    <3>2. pc[t] = "expire" => expiring[t] # {} /\ expiring[t] \subseteq DOMAIN current
      BY <2>5 DEF IInv, ExpiringIsExpired, FoundExpired
    <3>3. pc[t] = "pick" => IsEmpty(current) \/ Prioritised # {}
      BY SomeIsPrioritised
    <3>4. pc[t] = "check" => ~IsCurrent(held[t])
      BY <2>5 DEF GInv, FailedIsGone
    <3> QED BY <2>5, <3>1, <3>2, <3>3, <3>4 DEF CanGoOn
  <2> QED BY <2>2, <2>3, <2>4, <2>5
<1>2. CASE loop = <<>>
  <2>1. SUFFICES ASSUME \A i \in DOMAIN items : ~IsClosing(i),
                        pc[Authenticator] \notin {"login", "failed"}
                 PROVE  \A t \in Calls : pc[t] \in {"rest", "request"}
    BY <1>2 DEF NobodyIsStuck
  <2>2. Ready = {}
    BY <1>2, OneIs DEF Ready
  <2>3. holder = Nobody
    BY <2>1, <2>2 DEF GInv, ClosingOK
  <2>4. queue = <<>> /\ Queued = {}
    BY <2>2, <2>3, OneIs DEF GInv, PlacesOK, Queued
  <2>5. \A t \in Tasks : pc[t] \in Busy => t \in Awaiting
    BY <2>2, <2>3, <2>4 DEF GInv, PlacesOK
  <2>6. ready
    BY <2>1, <2>5 DEF GInv, LabelsOK, Busy, IInv, NobodyWaitsInVain, Awaiting
  <2>7. \A t \in Calls : pc[t] \notin Busy
    BY <2>5, <2>6 DEF IInv, NobodyWaitsInVain, Awaiting
  <2> QED BY <2>7 DEF Busy, GInv, LabelsOK
<1> QED BY <1>1, <1>2

(* The tasks never wait for each other in a circle: for the lock, for the  *)
(* notifications of the condition, or for an item.                         *)
THEOREM NobodyGetsStuck == Spec => []NobodyIsStuck
<1>1. IInv /\ GInv => NobodyIsStuck
  BY NobodyStuckNow
<1> QED BY <1>1, InvariantHolds, GInvHolds, PTL
=============================================================================
