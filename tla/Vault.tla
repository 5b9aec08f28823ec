------------------------------- MODULE Vault -------------------------------
(***************************************************************************)
(* The credentials of an operator: Vault of structs/credentials.py, the    *)
(* API calls that take credentials from it and report those that fail      *)
(* (authenticated() of clients/auth.py), and the background task that logs *)
(* in again when the vault is depleted (engines/activities.py).            *)
(*                                                                         *)
(* The tasks share a lock and a condition of asyncio, both fair, and the   *)
(* event loop runs what is ready in the order in which it got ready.  All  *)
(* three queues are here, as it depends on them who sees what: "loop" with *)
(* the running task at its head, "queue" for the lock, "waiting" for the   *)
(* condition.  A step is at most what a task does between two operations   *)
(* on the lock; only the head of the loop makes steps, and the network     *)
(* adds tasks to its end.                                                  *)
(***************************************************************************)
EXTENDS Naturals, Sequences, FiniteSets, SequencesExt

CONSTANTS
  Calls,      \* the tasks that make API calls, one call at a time each
  Keys,       \* the ids of the login handlers
  Infos,      \* the credentials (KubeContext), equal or not
  Ageing,     \* those with an expiration time
  Priority    \* the priority of the credentials

Authenticator == "authenticator"
Nobody == "nobody"
Tasks == Calls \cup {Authenticator}

ASSUME VaultAssumption ==
  /\ IsFiniteSet(Calls) /\ IsFiniteSet(Keys) /\ Authenticator \notin Calls
  /\ Nobody \notin Tasks /\ Nobody \notin Keys
  /\ Ageing \subseteq Infos
  /\ Priority \in [Infos -> Nat]

VARIABLES
  loop,      \* the ready tasks of the event loop, the running one first
  holder,    \* who has the lock
  queue,     \* the tasks waiting for the lock
  waiting,   \* the tasks waiting for the condition
  pc,        \* what each task does next
  ready,     \* Vault._ready
  current,   \* Vault._current: from keys to items
  items,     \* the items that somebody refers to, with their info and caches
  invalid,   \* Vault._invalid: the last invalid infos of each key
  held,      \* the item taken by a call
  expiring,  \* the keys that a call has found expired
  login,     \* the results of the login handlers
  expired, revoked  \* the infos past their time; those the server rejects

lockVars  == <<loop, holder, queue, waiting>>
vaultVars == <<ready, current, items, invalid>>
worldVars == <<expired, revoked>>
vars == <<loop, holder, queue, waiting, pc, ready, current, items, invalid, held,
          expiring, login, expired, revoked>>

\* An item is named by its key and a number, which is free if nobody refers to it.
NoItem == <<Nobody, 0>>
Ids(k) == {k} \X (1..Cardinality(Calls) + 1)
KeyOf(i) == i[1]
NoLogin == [k \in {} |-> Nobody]
NewItem(k) == CHOOSE i \in Ids(k) : i \notin DOMAIN items
Item(info) == [info |-> info, caches |-> "none"]

\* The vault of an embedded operator may have been populated from the outside.
Init ==
  /\ loop = <<Authenticator>> /\ holder = Nobody /\ queue = <<>> /\ waiting = <<>>
  /\ pc = [t \in Tasks |-> IF t = Authenticator THEN "emptiness" ELSE "rest"]
  /\ \E ks \in SUBSET Keys :
       /\ current = [k \in ks |-> <<k, 1>>]
       /\ \E infos \in [ks -> Infos] :
            items = [i \in {<<k, 1>> : k \in ks} |-> Item(infos[KeyOf(i)])]
       /\ ready = (ks # {})
  /\ invalid = [k \in Keys |-> <<>>]
  /\ held = [t \in Calls |-> NoItem] /\ expiring = [t \in Calls |-> {}]
  /\ login = NoLogin
  /\ expired = {} /\ revoked = {}

-----------------------------------------------------------------------------
(* The event loop, asyncio.Lock and asyncio.Condition.                     *)

Runs(t) == loop # <<>> /\ Head(loop) = t
Holds(t) == Runs(t) /\ holder = t

Goes(t, label) == pc' = [pc EXCEPT ![t] = label]

\* A released lock is given to nobody: it awakens the first one in the queue,
\* and those who come before that one runs are put to the end of the queue.
Awakened == IF queue = <<>> THEN <<>> ELSE <<Head(queue)>>

ReleaseAndRun(t, label) ==
  /\ holder' = Nobody
  /\ loop' = loop \o Awakened
  /\ Goes(t, label)
  /\ UNCHANGED <<queue, waiting>>

ReleaseAndSuspend(t, label) ==
  /\ holder' = Nobody
  /\ loop' = Tail(loop) \o Awakened
  /\ Goes(t, label)
  /\ UNCHANGED <<queue, waiting>>

SuspendHolding(t) == loop' = Tail(loop) /\ UNCHANGED <<holder, queue, waiting, pc>>

Continue(t, label) == Goes(t, label) /\ UNCHANGED lockVars

Sections == {"select", "expired", "cache", "context", "invalidate", "depleted",
             "check", "emptiness", "populate"}

Lock(t) ==
  /\ Runs(t) /\ holder # t /\ pc[t] \in Sections
  /\ IF holder = Nobody /\ (queue = <<>> \/ Head(queue) = t)
       THEN /\ holder' = t
            /\ queue' = IF queue = <<>> THEN queue ELSE Tail(queue)
            /\ UNCHANGED loop
       ELSE /\ queue' = Append(queue, t)
            /\ loop' = Tail(loop)
            /\ UNCHANGED holder
  /\ UNCHANGED <<waiting, pc, vaultVars, held, expiring, login, worldVars>>

\* wait_for() of the condition: the predicate is tried again after each awakening.
Wait(t) ==
  /\ Holds(t)
  /\ IF t = Authenticator THEN pc[t] = "emptiness" /\ ready
                          ELSE pc[t] \in {"select", "expired", "depleted"} /\ ~ready
  /\ waiting' = Append(waiting, t)
  /\ holder' = Nobody
  /\ loop' = Tail(loop) \o Awakened
  /\ UNCHANGED <<queue, pc, vaultVars, held, expiring, login, worldVars>>

-----------------------------------------------------------------------------
(* The items: those that nobody refers to are garbage.                     *)

Refer(cur, hold, its) ==
  LET referred == {cur[k] : k \in DOMAIN cur} \cup {hold[t] : t \in Calls}
  IN /\ current' = cur
     /\ held' = hold
     /\ items' = [i \in DOMAIN its \cap referred |-> its[i]]

IsEmpty(cur) == DOMAIN cur = {}
Cached(i, caches) == [items EXCEPT ![i].caches = caches]
Without(k) == [j \in DOMAIN current \ {k} |-> current[j]]
IsSameKey(i) == KeyOf(i) \in DOMAIN current                      \* a mutant

\* By identity: an equal item, or a newer one of the same key, is another item.
IsCurrent(i) == KeyOf(i) \in DOMAIN current /\ current[KeyOf(i)] = i

\* _flush_caches(): the lock is held while the session is being closed.
Flush(t, i) ==
  /\ items[i].caches = "open"
  /\ items' = Cached(i, "closing")
  /\ SuspendHolding(t)

CloseEnds(i) ==
  /\ items[i].caches = "closing"
  /\ items' = Cached(i, "none")
  /\ loop' = Append(loop, holder)
  /\ UNCHANGED <<holder, queue, waiting, pc, ready, current, invalid, held, expiring,
                 login, worldVars>>

\* Nothing is left: the authenticator is told so, and the caller waits for it.
Deplete(t, label) ==
  /\ ready' = FALSE
  /\ waiting' = <<t>>
  /\ holder' = Nobody
  /\ loop' = Tail(loop) \o waiting \o Awakened
  /\ Goes(t, label)
  /\ UNCHANGED queue

-----------------------------------------------------------------------------
(* A call takes an item: _items() and extended().                          *)

Begin(t) ==
  /\ pc[t] = "rest"
  /\ loop' = Append(loop, t)
  /\ Goes(t, "select")
  /\ UNCHANGED <<holder, queue, waiting, vaultVars, held, expiring, login, worldVars>>

IsExpired(k) == items[current[k]].info \in expired

CheckExpiration(t) ==
  /\ Holds(t) /\ pc[t] = "select" /\ ready
  /\ LET found == {k \in DOMAIN current : IsExpired(k)}
     IN /\ expiring' = [expiring EXCEPT ![t] = found]
        /\ Continue(t, IF found = {} THEN "pick" ELSE "expire")
  /\ UNCHANGED <<vaultVars, held, login, worldVars>>

Expire(t) ==
  /\ Holds(t) /\ pc[t] = "expire"
  /\ LET k == CHOOSE k \in expiring[t] : TRUE
         i == current[k]
         left == expiring[t] \ {k}
     IN \/ Flush(t, i) /\ UNCHANGED <<ready, current, held, expiring>>
        \/ /\ items[i].caches # "open"
           /\ Refer(Without(k), held, Cached(i, "none"))
           /\ expiring' = [expiring EXCEPT ![t] = left]
           /\ IF left = {} /\ IsEmpty(Without(k))
                THEN Deplete(t, "expired")
                ELSE Continue(t, IF left = {} THEN "pick" ELSE "expire") /\ UNCHANGED ready
  /\ UNCHANGED <<invalid, login, worldVars>>

Reauthenticated(t) ==
  /\ Holds(t) /\ pc[t] = "expired" /\ ready
  /\ Continue(t, "pick")
  /\ UNCHANGED <<vaultVars, held, expiring, login, worldVars>>

\* The highest priority; among equals, any.
Prioritised ==
  LET priority(k) == Priority[items[current[k]].info]
  IN {k \in DOMAIN current : \A j \in DOMAIN current : priority(j) <= priority(k)}

Select(t) ==
  /\ Holds(t) /\ pc[t] = "pick"
  /\ \E k \in Prioritised :
       LET i == current[k]
       IN /\ Refer(current, [held EXCEPT ![t] = i], items)
          /\ CASE items[i].caches = "none"  -> ReleaseAndRun(t, "cache")
               [] items[i].caches = "empty" -> ReleaseAndRun(t, "context")
               [] OTHER -> ReleaseAndSuspend(t, "request")
  /\ UNCHANGED <<ready, invalid, expiring, login, worldVars>>

\* An error for the caller.
Fail(t) ==
  /\ Refer(current, [held EXCEPT ![t] = NoItem], items)
  /\ ReleaseAndSuspend(t, "rest")

\* LoginError of select().
RanOut(t) ==
  /\ Holds(t) /\ pc[t] = "pick" /\ IsEmpty(current)
  /\ Fail(t)
  /\ UNCHANGED <<ready, invalid, expiring, login, worldVars>>

\* The quick checks of the caches need no lock, as nobody else runs meanwhile.
MakeCaches(t) ==
  /\ Holds(t) /\ pc[t] = "cache"
  /\ LET i == held[t]
     IN IF items[i].caches = "none"
          THEN items' = Cached(i, "empty") /\ ReleaseAndRun(t, "context")
          ELSE /\ UNCHANGED items
               /\ IF items[i].caches = "empty" THEN ReleaseAndRun(t, "context")
                                               ELSE ReleaseAndSuspend(t, "request")
  /\ UNCHANGED <<ready, current, invalid, held, expiring, login, worldVars>>

MakeContext(t) ==
  /\ Holds(t) /\ pc[t] = "context"
  /\ items[held[t]].caches # "none"
  /\ items' = Cached(held[t], "open")
  /\ ReleaseAndSuspend(t, "request")
  /\ UNCHANGED <<ready, current, invalid, held, expiring, login, worldVars>>

\* TypeError: the caches were dropped while the task was waiting for the lock.
CachesAreGone(t) ==
  /\ Holds(t) /\ pc[t] = "context"
  /\ items[held[t]].caches = "none"
  /\ Fail(t)
  /\ UNCHANGED <<ready, invalid, expiring, login, worldVars>>

-----------------------------------------------------------------------------
(* The request itself, and the report of the credentials that failed.      *)

RequestSucceeds(t) ==
  /\ pc[t] = "request" /\ items[held[t]].info \notin revoked
  /\ Goes(t, "rest")
  /\ Refer(current, [held EXCEPT ![t] = NoItem], items)
  /\ UNCHANGED <<lockVars, ready, invalid, expiring, login, worldVars>>

\* 401, or the session was closed by somebody else.
RequestFails(t) ==
  /\ pc[t] = "request"
  /\ \/ items[held[t]].info \in revoked \cup expired
     \/ items[held[t]].caches # "open"
  /\ Goes(t, "invalidate")
  /\ loop' = Append(loop, t)
  /\ UNCHANGED <<holder, queue, waiting, vaultVars, held, expiring, login, worldVars>>

ForgetfulHistory(past, info) == <<info>>                        \* a mutant

\* The last three: [-2:] and the new one.
History(past, info) ==
  IF Len(past) < 3 THEN Append(past, info) ELSE Append(Tail(past), info)

AlwaysDepletes(t, cur) == Deplete(t, "depleted")                \* a mutant

\* Only if nothing is left a re-authentication is asked for and waited for.
AfterInvalidation(t, cur) ==
  IF IsEmpty(cur) THEN Deplete(t, "depleted")
                ELSE ReleaseAndRun(t, "check") /\ UNCHANGED ready

Invalidate(t) ==
  /\ Holds(t) /\ pc[t] = "invalidate"
  /\ LET k == KeyOf(held[t])
         i == current[k]
     IN \/ /\ IsCurrent(held[t])
           /\ Flush(t, i)
           /\ UNCHANGED <<ready, current, invalid, held>>
        \/ /\ IsCurrent(held[t]) /\ items[i].caches # "open"
           /\ Refer(Without(k), held, Cached(i, "none"))
           /\ invalid' = [invalid EXCEPT ![k] = History(@, items[i].info)]
           /\ AfterInvalidation(t, Without(k))
        \/ /\ ~IsCurrent(held[t])
           /\ AfterInvalidation(t, current)
           /\ UNCHANGED <<current, items, invalid, held>>
  /\ UNCHANGED <<expiring, login, worldVars>>

\* LoginError of invalidate(), from the original one, if there is still nothing.
Depleted(t) ==
  /\ Holds(t) /\ pc[t] = "depleted" /\ ready
  /\ IF IsEmpty(current)
       THEN Fail(t)
       ELSE ReleaseAndRun(t, "check") /\ UNCHANGED <<current, items, held>>
  /\ UNCHANGED <<ready, invalid, expiring, login, worldVars>>

\* An item that is still there would break the cycle with a RuntimeError.
CheckAfterYield(t) ==
  /\ Holds(t) /\ pc[t] = "check"
  /\ ~IsCurrent(held[t])
  /\ ReleaseAndRun(t, "select")
  /\ UNCHANGED <<vaultVars, held, expiring, login, worldVars>>

-----------------------------------------------------------------------------
(* The authenticator: authenticate() in an endless loop.                   *)

BeginLogin ==
  /\ Holds(Authenticator) /\ pc[Authenticator] = "emptiness" /\ ~ready
  /\ ReleaseAndSuspend(Authenticator, "login")
  /\ UNCHANGED <<vaultVars, held, expiring, login, worldVars>>

\* Some of the handlers, or none, return credentials.  They are not expired yet:
\* else they could be dropped, and asked for again, forever.
LoginEnds ==
  /\ pc[Authenticator] = "login"
  /\ \E ks \in SUBSET Keys : login' \in [ks -> Infos \ expired]
  /\ loop' = Append(loop, Authenticator)
  /\ Goes(Authenticator, "populate")
  /\ UNCHANGED <<holder, queue, waiting, vaultVars, held, expiring, worldVars>>

\* A handler fails for good, and the activity with it: the operator is to stop.
LoginFails ==
  /\ pc[Authenticator] = "login"
  /\ Goes(Authenticator, "failed")
  /\ UNCHANGED <<lockVars, vaultVars, held, expiring, login, worldVars>>

Accepted == {k \in DOMAIN login : login[k] \notin ToSet(invalid[k])}

NotifyAll == waiting' = <<>> /\ loop' = loop \o waiting \o Awakened

Populate ==
  /\ Holds(Authenticator) /\ pc[Authenticator] = "populate"
  /\ LET cur == [k \in DOMAIN current \cup Accepted |->
                   IF k \in Accepted THEN NewItem(k) ELSE current[k]]
         new == [i \in {NewItem(k) : k \in Accepted} |-> Item(login[KeyOf(i)])]
     IN Refer(cur, held, [i \in DOMAIN items \cup DOMAIN new |->
                            IF i \in DOMAIN new THEN new[i] ELSE items[i]])
  /\ ready' = TRUE
  /\ NotifyAll
  /\ holder' = Nobody
  /\ Goes(Authenticator, "emptiness")
  /\ login' = NoLogin
  /\ UNCHANGED <<queue, invalid, expiring, worldVars>>

-----------------------------------------------------------------------------
Expires(info) ==
  /\ info \in Ageing \ expired
  /\ expired' = expired \cup {info}
  /\ UNCHANGED <<lockVars, pc, vaultVars, held, expiring, login, revoked>>

Revoke(info) ==
  /\ info \in Infos \ revoked
  /\ revoked' = revoked \cup {info}
  /\ UNCHANGED <<lockVars, pc, vaultVars, held, expiring, login, expired>>

CallSteps(t) ==
  \/ CheckExpiration(t) \/ Expire(t) \/ Reauthenticated(t) \/ Select(t) \/ RanOut(t)
  \/ MakeCaches(t) \/ MakeContext(t) \/ CachesAreGone(t)
  \/ Invalidate(t) \/ Depleted(t) \/ CheckAfterYield(t)

LoopSteps ==
  \/ \E t \in Tasks : Lock(t) \/ Wait(t)
  \/ \E t \in Calls : CallSteps(t)
  \/ BeginLogin \/ Populate

RequestEnds(t) == RequestSucceeds(t) \/ RequestFails(t)

Next ==
  \/ LoopSteps
  \/ \E t \in Calls : Begin(t) \/ RequestEnds(t)
  \/ \E i \in DOMAIN items : CloseEnds(i)
  \/ LoginEnds \/ LoginFails
  \/ \E info \in Infos : Expires(info) \/ Revoke(info)

Spec == Init /\ [][Next]_vars

\* The event loop goes on; requests, closings and logins come to their ends.
Fairness == /\ WF_vars(LoopSteps)
            /\ \A t \in Calls : WF_vars(RequestEnds(t))
            /\ WF_vars(\E i \in DOMAIN items : CloseEnds(i))
            /\ WF_vars(LoginEnds \/ LoginFails)
FairSpec == Spec /\ Fairness

-----------------------------------------------------------------------------
TypeOK ==
  /\ ready \in BOOLEAN
  /\ DOMAIN current \subseteq Keys /\ \A k \in DOMAIN current : current[k] \in Ids(k)
  /\ \A k \in DOMAIN current : current[k] \in DOMAIN items
  /\ \A t \in Calls : held[t] = NoItem \/ held[t] \in DOMAIN items
  /\ \A i \in DOMAIN items : /\ items[i].info \in Infos
                             /\ items[i].caches \in {"none", "empty", "open", "closing"}
  /\ \A k \in Keys : Len(invalid[k]) <= 3

(***************************************************************************)
(* The login handlers are run only while there is nothing in the vault and *)
(* everybody waits for them, however many calls have failed at once and    *)
(* however late: so they are run once for all, and populate() replaces no  *)
(* item with an open session.                                              *)
(***************************************************************************)
LoginOnlyWhenDepleted ==
  pc[Authenticator] \in {"login", "populate"} => IsEmpty(current) /\ ~ready

\* Nobody misses a notification: a call waits in the condition only while the vault
\* is not ready, and the authenticator only while it is.
NobodyWaitsInVain ==
  \A t \in ToSet(waiting) : IF t = Authenticator THEN ready ELSE ~ready

\* Only the credentials which are expired or rejected themselves are dropped:
\* a late failure with older ones of the same handler does no harm to them.
DroppedWithReason ==
  [][\A k \in DOMAIN current \ DOMAIN current' :
       items[current[k]].info \in expired \cup revoked]_vars

\* Every call ends, be it with an error: it neither waits for a notification nor
\* goes round with credentials that are rejected again and again. The exception is a
\* call that needs new credentials after the login handlers have failed for good: it
\* waits for ever, since nobody is to notify it (README, section 4). The calls which
\* find their credentials in the vault end also then.
IsForsaken(t) == pc[Authenticator] = "failed" /\ t \in ToSet(waiting) /\ ~ready
EveryCallEnds ==
  \A t \in Calls : pc[t] # "rest" ~> (pc[t] = "rest" \/ IsForsaken(t))

\* authenticated() ends its cycle with "Reached an impossible state" if the item
\* that has failed is still in the vault. The state is impossible: an item in
\* hands has been dropped by then, or replaced by another item of its key.
FailedIsGone ==
  \A t \in Calls : pc[t] \in {"check", "depleted"} => ~IsCurrent(held[t])

\* The safety side of EveryCallEnds. The task at the head of the event loop can go on:
\* it tries the lock, or has it and is where its code does something with what there is.
CanGoOn(t) ==
  \/ holder # t /\ pc[t] \in Sections
  \/ holder = t /\ t = Authenticator /\ pc[t] \in {"emptiness", "populate"}
  \/ /\ holder = t /\ t \in Calls
     /\ pc[t] \in (Sections \ {"emptiness", "populate"}) \cup {"expire", "pick"}
     /\ pc[t] = "expire" => expiring[t] # {} /\ expiring[t] \subseteq DOMAIN current
     /\ pc[t] = "pick" => IsEmpty(current) \/ Prioritised # {}
     /\ pc[t] = "check" => ~IsCurrent(held[t])

\* And when nobody is ready, nobody waits for anybody: the lock is free, or its holder
\* is closing a session; and the calls in the condition are those that wait for a login.
IsClosing(i) == i \in DOMAIN items /\ items[i].caches = "closing"
NobodyIsStuck ==
  IF loop # <<>>
    THEN CanGoOn(Head(loop))
    ELSE \/ \A t \in Calls : pc[t] \in {"rest", "request"}
         \/ \E i \in DOMAIN items : IsClosing(i)
         \/ pc[Authenticator] \in {"login", "failed"}
=============================================================================
