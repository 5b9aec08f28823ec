---------------------------- MODULE ProcessingProofs ----------------------------
(***************************************************************************)
(* For any handlers, any number of edits, retries and troubles: the types, *)
(* the protection of an object by its finalizer until its deletion         *)
(* handlers have finished, and that what is done is not done again: that   *)
(* the object, as the operator sees it when it acts, has the records of    *)
(* all the handlers which have finished for what there is to handle.       *)
(*                                                                         *)
(* TInv is for the types, SInv for the protection, KInv for the rest.      *)
(***************************************************************************)
EXTENDS Processing, TLAPS, SequenceTheorems

-----------------------------------------------------------------------------
(* The inductive invariant: the types.                                     *)

Statuses == {"none", "pending", "retry", "success", "failure"}
Records == [status : Statuses, purpose : HandlerReasons \cup {"none"}, retries : Nat]
IsPart(progress) == DOMAIN progress \subseteq Handlers /\ progress \in [DOMAIN progress -> Records]

Bodies(essences) ==
  [version : Nat, gen : Nat \ {0}, essence : essences, deleting : BOOLEAN,
   finalizer : BOOLEAN, diffbase : Essences \cup {0}, diffgen : Nat,
   progress : [Handlers -> Records], spied : BOOLEAN, dummy : BOOLEAN]
Objects == Bodies(Essences)
Seen == Bodies(Essences \cup {0})
Events == [type : {"listed", "changed", "DELETED"}, body : Objects]
Functions == {"keep", "block", "allow"}
IsPatch(p) ==
  /\ p \in [progress : {p.progress}, diffbase : Essences \cup {0}, diffgen : Nat,
            spied : BOOLEAN, undummy : BOOLEAN, fin : Functions]
  /\ IsPart(p.progress)

ClusterOK == object \in Objects /\ alive \in BOOLEAN /\ wire \in Seq(Events)
StreamOK ==
  /\ backlog \in Seq(Events)
  /\ expected \in Nat \cup {Never}
  /\ deadline \in {"none", "ahead", "over"}
  /\ (expected = 0) = (deadline = "none")
MemoryOK ==
  memory \in [known : BOOLEAN, listed : BOOLEAN, handled : BOOLEAN, remaining : Functions]
EventOK ==
  /\ phase \in {"idle", "throttled", "detecting", "inconsistent", "handling",
                "patching", "finalizing", "sleeping", "touching", "backoff"}
  /\ event \in [type : {"none", "listed", "changed", "DELETED"}, body : Seen]
  /\ phase # "idle" => event \in Events
CycleOK ==
  /\ IsPatch(patch) /\ IsPart(state) /\ plan \subseteq DOMAIN state
  /\ fresh \in Seen /\ result \in Nat

(* No event and no patch is ahead of the object.                           *)
Elements(s) == {s[i] : i \in 1 .. Len(s)}
InFlight == Elements(wire) \cup Elements(backlog)

NothingAhead ==
  /\ event.body.gen <= object.gen
  /\ \A e \in InFlight : e.body.gen <= object.gen
  /\ expected <= object.version /\ result <= object.version
  /\ ended \subseteq Handlers \X HandlerReasons \X (1 .. object.gen)

(* The handlers to be run are those of the cause.                          *)
PlanIsActive == phase = "handling" => plan \subseteq Active /\ Active \subseteq DOMAIN state

Types == ClusterOK /\ StreamOK /\ MemoryOK /\ EventOK /\ CycleOK
TInv == Types /\ NothingAhead /\ PlanIsActive

-----------------------------------------------------------------------------
(* The inductive invariant: the protection of an object which always       *)
(* matches the filters, by handlers which are for nothing but deletion.    *)

AlwaysProtected ==
  /\ AlwaysMatches
  /\ Deleting \cap UNION {Creating, Updating, Resuming} = {}

HasEnded(h) == \E r \in ended : r[1] = h /\ r[2] = "delete"

(* A record of success or failure is not invented, wherever it is.         *)
Noted(progress) == \A h \in Deleting \cap DOMAIN progress : Finished(progress[h]) => HasEnded(h)

(* What was ever seen of the object: it was deleted only while blocked, it *)
(* still is what it was.                                                   *)
Older(b) ==
  /\ b.deleting => b.finalizer /\ object.deleting
  /\ b.finalizer => object.finalizer
  /\ Noted(b.progress)

AllOlder ==
  /\ Older(object) /\ Older(event.body)
  /\ \A e \in InFlight : Older(e.body)
  /\ Noted(state) /\ Noted(patch.progress)

(* Nothing is released but after all the deletion handlers, neither now    *)
(* nor with a function left over from a conflict.                          *)
AllowedLast ==
  (patch.fin = "allow" \/ memory.remaining = "allow") => object.deleting /\ DeletionHandlersEnded

(* No handler is run, but for an object that has the finalizer.            *)
ProtectedFirst ==
  /\ phase \in {"inconsistent", "handling"} => event.body.finalizer
  /\ ended # {} => object.finalizer

SInv == AllOlder /\ AllowedLast /\ ProtectedFirst

-----------------------------------------------------------------------------
(* The inductive invariant: what the operator knows of the object.  It is  *)
(* about the records of the handlers which have finished: that they are in *)
(* the object, or on their way to it, until they are not needed any more.  *)
(*                                                                         *)
(* First, the order in which the object is seen.                           *)

Follows(a, b) ==
  /\ a.version <= b.version /\ a.gen <= b.gen
  /\ a.version = b.version => a = b
  /\ a.gen = b.gen => a.essence = b.essence /\ a.deleting = b.deleting
  /\ a.diffbase # 0 => b.diffbase # 0
  /\ a.deleting => b.deleting

Sorted(s) == \A i, j \in 1 .. Len(s) : i < j => Follows(s[i].body, s[j].body)

Ordered ==
  /\ Sorted(backlog) /\ Sorted(wire)
  /\ \A a \in Elements(backlog), b \in Elements(wire) : Follows(a.body, b.body)
  /\ \A e \in InFlight : Follows(e.body, object)
  /\ phase # "idle" => /\ Follows(event.body, object)
                       /\ \A e \in InFlight : Follows(event.body, e.body)

(* What came last is the object as it is.                                  *)
Early == {"throttled", "detecting", "inconsistent"}

Latest ==
  alive => /\ wire # <<>> => wire[Len(wire)].body = object
           /\ wire = <<>> /\ backlog # <<>> => backlog[Len(backlog)].body = object
           /\ wire = <<>> /\ backlog = <<>> /\ phase \in Early => event.body = object

Goodbye ==
  alive => /\ \A e \in InFlight : e.type # "DELETED"
           /\ phase # "idle" => event.type # "DELETED"

(* What is seen after a handler has finished: later generations, with an   *)
(* essence stored if it was for a change, still deleted if for a deletion. *)
Later(r, b) ==
  /\ r[3] <= b.gen
  /\ r[2] \in {"update", "resume"} => b.diffbase # 0
  /\ r[2] = "delete" => b.deleting /\ r[1] \in Deleting

AfterEnded ==
  \A r \in ended : /\ Later(r, object)
                   /\ \A e \in InFlight : Later(r, e.body)
                   /\ phase # "idle" => Later(r, event.body)

(* The shape of the cycle: its result, what is remembered of the object,   *)
(* its handling and its patch.                                             *)
Resting == {"idle"} \cup Early

ResultShape ==
  /\ phase \in Resting => state = NoProgress
  /\ result # 0 => phase \in {"finalizing", "backoff"}
  /\ phase = "finalizing" /\ ~HasMerge(patch) => result = 0
  /\ result = 0 \/ expected <= result

MemoryShape ==
  alive => /\ memory.known \/ memory = Forgotten
           /\ phase # "idle" => memory.known
           /\ \A h \in resumed \cap OnlyResuming :
                memory.known /\ memory.listed
                /\ \E r \in ended : r[1] = h /\ r[2] \in {"update", "resume"}

Extras == Reason \in HandlerReasons /\ \E g \in Stored \ Active : event.body.progress[g].purpose # Reason
Purged == [h \in Stored |-> NoRecord]

HandlingShape ==
  /\ phase = "inconsistent" => HasCause /\ IsEmpty(PatchOnEntry)
  /\ phase \in {"inconsistent", "handling"} => memory.remaining = "keep"
  /\ phase = "handling" =>
       /\ patch.fin = "keep" /\ patch.diffbase = 0
       /\ patch.progress = IF Extras THEN Purged ELSE NoProgress
       /\ DOMAIN state = IF Reason \in HandlerReasons THEN Stored \cup Active ELSE {}
       /\ \A h \in DOMAIN state :
            /\ h \in Active => state[h].purpose = Reason
            /\ h \notin Active => state[h] = event.body.progress[h]
            /\ Finished(event.body.progress[h]) => Finished(state[h])
       /\ \A h \in plan : ~Finished(state[h])

FinalizerOnly(p) == p.progress = NoProgress /\ p.diffbase = 0

PatchShape ==
  /\ phase = "patching" /\ (patch.fin = "block" \/ (patch.fin # "keep" /\ ~event.body.deleting))
       => state = NoProgress /\ FinalizerOnly(patch)
  /\ phase \in {"patching", "finalizing"} /\ memory.remaining = "allow" /\ event.body.deleting
       => patch.fin = "allow"

(* What holds of the object as it was at any time: the finalizer is there  *)
(* while it is being deleted, its records are of one purpose, and whoever  *)
(* is recorded as finished has finished since the last essence was stored. *)
Blocked(b) == b.deleting => b.finalizer
OneOf(p) == \A g, h \in Handlers : p[g].status # "none" /\ p[h].status # "none"
                                     => p[g].purpose = p[h].purpose
EndedSince(h, gen) == \E r \in ended : r[1] = h /\ gen < r[3]
Sound(b) ==
  /\ Blocked(b)
  /\ OneOf(b.progress)
  /\ b.diffgen <= b.gen /\ (b.diffgen = b.gen => b.diffbase = b.essence)
  /\ ~b.deleting => \A h \in AlwaysChanging : Finished(b.progress[h]) => EndedSince(h, b.diffgen)

AllSound ==
  /\ Sound(object) /\ \A e \in InFlight : Sound(e.body)
  /\ phase # "idle" => Sound(event.body)
  /\ phase = "finalizing" => Blocked(fresh) /\ (event.body.deleting => fresh.deleting)

Base ==
  /\ TInv /\ Ordered /\ Latest /\ Goodbye /\ AfterEnded /\ AllSound
  /\ MemoryShape /\ ResultShape /\ HandlingShape /\ PatchShape

(* What is known of the records: they are those of the object, or all that *)
(* differs is of the deletion.                                             *)
SameRecords(a, b) == a.progress = b.progress /\ a.diffbase = b.diffbase /\ a.diffgen = b.diffgen
AllDelete(p) == \A h \in Handlers : p[h].status # "none" => p[h].purpose = "delete"
Known(b) == SameRecords(b, object) \/ (b.deleting /\ AllDelete(object.progress))

(* Whoever has finished for what is the reason of an object, is not to be  *)
(* run for it again: its record is kept there.                             *)
ReasonOf(b) ==
  IF b.deleting /\ ~b.finalizer THEN "free"
  ELSE IF b.deleting                 THEN "delete"
  ELSE IF b.diffbase = 0             THEN "create"
  ELSE IF b.diffbase # b.essence     THEN "update"
  ELSE "other"
Applies(r, b) == ReasonOf(b) = r[2] /\ (r[2] = "update" => b.gen = r[3])
IsKept(r, p) == r[1] \in DOMAIN p /\ Finished(p[r[1]]) /\ p[r[1]].purpose = r[2]
Safe(r, b) == Applies(r, b) => IsKept(r, b.progress)

(* Except those whose records are only in the memory: to be stored, or not *)
(* needed any more since the object is to be released.                     *)
Exempt == IF phase \in {"handling", "patching"} THEN Unsaved ELSE {}
Allows == memory.remaining = "allow" \/ (phase \in {"patching", "finalizing"} /\ patch.fin = "allow")
Counts(r) == r[1] \notin excused /\ (r[2] = "delete" => ~Allows)
Resumes == (resumed \cap OnlyResuming) \ excused

Fit(b) ==
  /\ Known(b)
  /\ \A r \in ended : Counts(r) /\ r[1] \notin Exempt => Safe(r, b)
  /\ ~memory.handled /\ ~b.deleting => \A h \in Resumes \ Exempt : Finished(b.progress[h])

(* What is seen of the object before the version that is awaited is not to *)
(* be used; what is seen since then is fit.                                *)
Limit == IF phase = "finalizing" /\ result # 0 /\ patch.fin = "keep" THEN result
         ELSE IF deadline = "ahead" THEN expected ELSE 0
Relevant(b) == b.version >= Limit

Knowledge ==
  alive => /\ Fit(object)
           /\ \A e \in InFlight : Relevant(e.body) => Fit(e.body)
           /\ phase \in Early /\ Relevant(event.body) => Fit(event.body)

(* So is the state of the handling, and the object after the patch.        *)
InHandling ==
  phase = "handling" /\ alive =>
    /\ Known(event.body)
    /\ \A r \in ended : Counts(r) /\ Applies(r, event.body) => IsKept(r, state)
    /\ ~memory.handled /\ ~event.body.deleting =>
         \A h \in Resumes : h \in DOMAIN state /\ Finished(state[h])
    /\ ~event.body.deleting =>
         \A h \in AlwaysChanging \cap DOMAIN state : Finished(state[h]) => EndedSince(h, event.body.diffgen)

SeenBy(p, gen) == \A h \in AlwaysChanging : \E r \in ended : r[1] = h /\ gen < r[3] /\ r[3] <= p.diffgen

Fits(m) ==
  /\ Sound(m)
  /\ event.body.deleting /\ ~FinalizerOnly(patch) => AllDelete(m.progress)
  /\ \A r \in ended : Counts(r) => Safe(r, m)
  /\ ~memory.handled /\ ~m.deleting => \A h \in Resumes : Finished(m.progress[h])

InPatching ==
  phase = "patching" /\ alive =>
    /\ Fits(Merged(object, patch))
    /\ ~HasMerge(patch) =>
         /\ \A r \in ended : r[1] \in Unsaved /\ Counts(r) =>
              /\ ~Applies(r, object)
              /\ \A e \in InFlight : Relevant(e.body) => ~Applies(r, e.body)
         /\ ~memory.handled => Resumes \cap Unsaved = {}
    /\ patch.diffbase # 0 /\ ~event.body.deleting =>
         patch.diffgen <= object.gen /\ SeenBy(patch, object.diffgen)

KInv == Base /\ Knowledge /\ InHandling /\ InPatching

(* No consistency timeout strikes while events are on their way: if one    *)
(* does, the operator acts on what it knows to be outdated, and what it    *)
(* has done may be done again (docs/configuration.rst:370-381).            *)
NoHaste == "haste" \notin Troubles

-----------------------------------------------------------------------------
(* The operators.                                                          *)

LEMMA Constants ==
  /\ Creating \subseteq Handlers /\ Updating \subseteq Handlers
  /\ Deleting \subseteq Handlers /\ Resuming \subseteq Handlers
  /\ Essences \subseteq Nat \ {0} /\ 0 \notin Essences /\ Spying \in BOOLEAN
BY ProcessingAssumption

LEMMA NewTypes ==
  /\ NoRecord \in Records /\ IsPart(NoProgress) /\ IsPatch(NoPatch)
  /\ \A e \in Essences, d \in Essences \cup {0}, f \in BOOLEAN : NewObject(e, d, f) \in Objects
  /\ NoEvent \in [type : {"none", "listed", "changed", "DELETED"}, body : Seen]
BY Constants DEF NoRecord, Records, Statuses, IsPart, NoProgress, IsPatch, NoPatch, Functions,
   NewObject, Objects, Seen, Bodies, NoEvent, Event

LEMMA SelectedType ==
  /\ Reason \in Reasons
  /\ Active = Selected /\ Active \subseteq Handlers
BY Constants DEF Reason, Reasons, HandlerReasons, Active, Selected

LEMMA StartStateType ==
  ASSUME event \in Events
  PROVE  IsPart(StartState) /\ Active \subseteq DOMAIN StartState
<1>1. event.body.progress \in [Handlers -> Records]
  BY DEF Events, Objects, Bodies
<1>2. Stored \subseteq Handlers
  BY DEF Stored
<1>3. DOMAIN StartState = IF Reason \in HandlerReasons THEN Stored \cup Selected ELSE {}
  BY DEF StartState
<1>4. ASSUME NEW h \in DOMAIN StartState PROVE StartState[h] \in Records
  <2>1. Reason \in HandlerReasons /\ h \in Handlers
    BY <1>2, <1>3, <1>4, SelectedType
  <2>2. event.body.progress[h] \in Records
    BY <1>1, <2>1
  <2>3. [event.body.progress[h] EXCEPT !.purpose = Reason] \in Records
    BY <2>1, <2>2 DEF Records
  <2>4. Record("pending", Reason, 0) \in Records
    BY <2>1 DEF Record, Records, Statuses
  <2> QED BY <1>3, <1>4, <2>2, <2>3, <2>4 DEF StartState
<1>5. StartState \in [DOMAIN StartState -> Records]
  BY <1>4 DEF StartState
<1> QED BY <1>2, <1>3, <1>5, SelectedType DEF IsPart, Active

LEMMA PurgeType ==
  ASSUME NEW p, IsPatch(p)
  PROVE  /\ IsPatch(Purge(p)) /\ Purge(p).fin = p.fin
         /\ Purge(p).progress = [h \in Stored |-> NoRecord]
<1>1. IsPart([h \in Stored |-> NoRecord])
  BY NewTypes DEF IsPart, Stored
<1> QED BY <1>1 DEF IsPatch, Purge

LEMMA EntryType ==
  ASSUME MemoryOK
  PROVE  /\ IsPatch(PatchOnEntry) /\ PatchOnEntry.progress = NoProgress
         /\ PatchOnEntry.fin = IF Blocks THEN "block" ELSE IF Frees THEN "allow"
                               ELSE memory.remaining
BY Constants, NewTypes DEF MemoryOK, PatchOnEntry, IsPatch, NoPatch, Functions

LEMMA StoreProgressType ==
  ASSUME NEW p, IsPatch(p), IsPart(state)
  PROVE  /\ IsPatch(StoreProgress(p)) /\ StoreProgress(p).fin = p.fin
         /\ \A h \in DOMAIN StoreProgress(p).progress :
              \/ h \in DOMAIN p.progress /\ StoreProgress(p).progress[h] = p.progress[h]
              \/ h \in DOMAIN state /\ StoreProgress(p).progress[h] = state[h]
              \/ StoreProgress(p).progress[h] = NoRecord
<1> DEFINE changed == {h \in DOMAIN state : state[h] # event.body.progress[h]}
           both == [h \in changed \cup DOMAIN p.progress |->
                      IF h \in changed THEN state[h] ELSE p.progress[h]]
<1>1. CASE Active = {}
  BY <1>1 DEF StoreProgress
<1>2. CASE Active # {} /\ IsDone
  <2>1. StoreProgress(p) = Purge(p)
    BY <1>2 DEF StoreProgress
  <2> QED BY <2>1, PurgeType
<1>3. CASE Active # {} /\ ~IsDone
  <2>1. StoreProgress(p) = [p EXCEPT !.progress = both]
    BY <1>3 DEF StoreProgress
  <2>2. IsPart(both)
    BY DEF IsPatch, IsPart
  <2> HIDE DEF both
  <2>3. IsPatch(StoreProgress(p)) /\ StoreProgress(p).fin = p.fin
        /\ StoreProgress(p).progress = both
    BY <2>1, <2>2 DEF IsPatch
  <2> QED BY <2>3 DEF both
<1> QED BY <1>1, <1>2, <1>3

LEMMA StoreEssenceType ==
  ASSUME NEW p, IsPatch(p), event \in Events
  PROVE  /\ IsPatch(StoreEssence(p)) /\ StoreEssence(p).fin = p.fin
         /\ StoreEssence(p).progress = p.progress
BY DEF StoreEssence, IsPatch, Events, Objects, Bodies

LEMMA ReleaseType ==
  ASSUME NEW p, IsPatch(p)
  PROVE  /\ IsPatch(Release(p)) /\ Release(p).progress = p.progress
         /\ \/ Release(p).fin = p.fin
            \/ event.type # "DELETED" /\ event.body.deleting /\ event.body.finalizer
               /\ Unfinished = {}
BY DEF Release, IsPatch, Functions

LEMMA UndummyType ==
  ASSUME NEW p, IsPatch(p), NEW b \in BOOLEAN
  PROVE  /\ IsPatch([p EXCEPT !.undummy = b]) /\ [p EXCEPT !.undummy = b].fin = p.fin
         /\ [p EXCEPT !.undummy = b].progress = p.progress
BY DEF IsPatch

LEMMA MergedType ==
  ASSUME NEW o \in Objects, NEW p, IsPatch(p)
  PROVE  /\ Merged(o, p) \in Objects
         /\ Merged(o, p).gen = o.gen /\ Merged(o, p).version = o.version
         /\ Merged(o, p).deleting = o.deleting /\ Merged(o, p).finalizer = o.finalizer
         /\ Merged(o, p).progress = [h \in Handlers |-> IF h \in DOMAIN p.progress
                                       THEN p.progress[h] ELSE o.progress[h]]
<1> DEFINE merged == [h \in Handlers |-> IF h \in DOMAIN p.progress
                                           THEN p.progress[h] ELSE o.progress[h]]
<1>1. merged \in [Handlers -> Records]
  BY DEF IsPatch, IsPart, Objects, Bodies
<1>2. Merged(o, p) = [o EXCEPT !.progress = merged,
            !.diffbase = IF p.diffbase # 0 THEN p.diffbase ELSE o.diffbase,
            !.diffgen  = IF p.diffbase # 0 THEN p.diffgen ELSE o.diffgen,
            !.spied    = o.spied \/ p.spied,
            !.dummy    = o.dummy /\ ~p.undummy]
  BY DEF Merged, Objects, Bodies
<1>3. (o.spied \/ p.spied) \in BOOLEAN /\ (o.dummy /\ ~p.undummy) \in BOOLEAN
  OBVIOUS
<1> HIDE DEF merged
<1>4. /\ Merged(o, p) \in Objects
      /\ Merged(o, p).gen = o.gen /\ Merged(o, p).version = o.version
      /\ Merged(o, p).deleting = o.deleting /\ Merged(o, p).finalizer = o.finalizer
      /\ Merged(o, p).progress = merged
  BY <1>1, <1>2, <1>3 DEF Objects, Bodies, IsPatch
<1> QED BY <1>4 DEF merged

-----------------------------------------------------------------------------
(* What the steps do to each of the variables.                             *)

LEMMA AppendElements ==
  ASSUME NEW S, NEW s \in Seq(S), NEW e \in S
  PROVE  Append(s, e) \in Seq(S) /\ Elements(Append(s, e)) = Elements(s) \cup {e}
<1>1. Append(s, e) \in Seq(S) /\ Len(Append(s, e)) = Len(s) + 1
  OBVIOUS
<1>2. \A i \in 1 .. Len(s) : Append(s, e)[i] = s[i]
  OBVIOUS
<1>3. Append(s, e)[Len(s) + 1] = e
  OBVIOUS
<1>4. Len(s) \in Nat
  OBVIOUS
<1> QED BY <1>1, <1>2, <1>3, <1>4 DEF Elements

LEMMA TailElements ==
  ASSUME NEW S, NEW s \in Seq(S), s # <<>>
  PROVE  /\ Tail(s) \in Seq(S) /\ Head(s) \in S
         /\ Elements(Tail(s)) \subseteq Elements(s) /\ Head(s) \in Elements(s)
<1>1. Tail(s) \in Seq(S) /\ Head(s) \in S /\ Head(s) = s[1] /\ Len(s) \in Nat \ {0}
  OBVIOUS
<1>2. Len(Tail(s)) = Len(s) - 1 /\ \A i \in 1 .. Len(s) - 1 : Tail(s)[i] = s[i + 1]
  OBVIOUS
<1> QED BY <1>1, <1>2 DEF Elements

LEMMA ShortElements ==
  /\ Elements(<<>>) = {}
  /\ \A e : Elements(<<e>>) = {e}
BY DEF Elements

(* How the object may become another one by a change of its own.           *)
SameLife(o) == o.deleting = object.deleting /\ o.finalizer = object.finalizer
Becoming(o) ==
  /\ o \in Objects /\ o.version = object.version /\ o.gen \in {object.gen, object.gen + 1}
  /\ \/ SameLife(o) /\ o.progress = object.progress
     \/ object.finalizer /\ o.finalizer /\ o.deleting /\ o.progress = object.progress
     \/ o = Merged(object, patch) /\ SameLife(o)
     \/ o.finalizer /\ o.deleting = object.deleting /\ o.progress = object.progress
     \/ patch.fin = "allow" /\ ~object.deleting /\ o.progress = object.progress

LEMMA Committed ==
  ASSUME ClusterOK, NEW o \in Objects, o.version = object.version, Commit(o)
  PROVE  /\ ClusterOK'
         /\ object'.version = object.version + 1 /\ object'.gen = o.gen
         /\ object'.deleting = o.deleting /\ object'.finalizer = o.finalizer
         /\ object'.progress = o.progress
         /\ Elements(wire)' = Elements(wire) \cup {Event("changed", object')}
<1>1. /\ object' = [o EXCEPT !.version = @ + 1]
      /\ wire' = Append(wire, Event("changed", object'))
      /\ alive' = alive
  BY DEF Commit
<1>2. /\ object' \in Objects
      /\ object'.version = object.version + 1 /\ object'.gen = o.gen
      /\ object'.deleting = o.deleting /\ object'.finalizer = o.finalizer
      /\ object'.progress = o.progress
  <2>1. o.version + 1 \in Nat
    BY DEF Objects, Bodies
  <2> QED BY <1>1, <2>1 DEF Objects, Bodies
<1>3. Event("changed", object') \in Events
  BY <1>2 DEF Event, Events
<1> QED BY <1>1, <1>2, <1>3, AppendElements DEF ClusterOK

LEMMA Removed ==
  ASSUME ClusterOK, Remove
  PROVE  /\ ClusterOK' /\ object' = object
         /\ Elements(wire)' = Elements(wire) \cup {Event("DELETED", object')}
<1>1. Event("DELETED", object) \in Events
  BY DEF Event, Events, ClusterOK
<1>2. object' = object /\ alive' = FALSE /\ wire' = Append(wire, Event("DELETED", object))
  BY DEF Remove
<1>3. /\ wire' \in Seq(Events)
      /\ Elements(wire)' = Elements(wire) \cup {Event("DELETED", object)}
  BY <1>1, <1>2, AppendElements DEF ClusterOK
<1> QED BY <1>2, <1>3 DEF ClusterOK

ClusterKept ==
  \/ WorkerExits \/ SkipThrottled \/ ThrottlingIsOver \/ BackoffIsOver
  \/ WaitForConsistency \/ SkipHandlers \/ AwakenedByEvents \/ StartHandling
  \/ \E h \in Handlers, status \in {"success", "failure", "retry"} : RunHandler(h, status)
  \/ FinishHandling \/ NoPatchMerge \/ NoPatchJSON \/ PatchConflict
  \/ PatchNotFound \/ AwakenedInSleep \/ SleepIsOver \/ RequestFails
  \/ ConsistencyTimeout \/ \E h \in Handlers : DelayIsOver(h)

LEMMA Kept == ClusterKept => UNCHANGED <<object, alive, wire, backlog>>
BY DEF ClusterKept, clusterVars, streamVars, WorkerExits, SkipThrottled, ThrottlingIsOver,
   BackoffIsOver, WaitForConsistency, SkipHandlers, AwakenedByEvents, StartHandling, RunHandler,
   FinishHandling, NoPatchMerge, NoPatchJSON, PatchConflict, PatchNotFound, AwakenedInSleep,
   SleepIsOver, RequestFails, ConsistencyTimeout, DelayIsOver

LEMMA NextKept ==
  ASSUME Next
  PROVE  \/ ClusterKept \/ TakeEvent \/ Arrive \/ Relist \/ Crash
         \/ Edit \/ RequestDeletion \/ PatchMerge \/ PatchJSON \/ PatchRepeated \/ Touch
BY DEF Next, Operator, Time, Trouble, ClusterKept

(* The finalizer is added to an object which is not being deleted, and is  *)
(* removed from one which is, or else by a patch that was to allow it.     *)
LEMMA FinalizerMoves ==
  ASSUME ClusterOK, CycleOK, HasOps, IsAccepted, ApplyFinalizer
  PROVE  \/ Remove
         \/ \E o : Becoming(o) /\ Commit(o)
<1>1. object \in Objects
  BY DEF ClusterOK
<1>2. CASE patch.fin = "block"
  <2> DEFINE o == [object EXCEPT !.finalizer = TRUE]
  <2>1. Becoming(o)
    BY <1>1 DEF Becoming, Objects, Bodies
  <2> QED BY <1>2, <2>1 DEF ApplyFinalizer
<1>3. CASE patch.fin = "allow" /\ ~object.deleting
  <2> DEFINE o == [object EXCEPT !.finalizer = FALSE]
  <2>1. Becoming(o)
    BY <1>1, <1>3 DEF Becoming, Objects, Bodies
  <2> QED BY <1>3, <2>1 DEF ApplyFinalizer
<1> QED BY <1>2, <1>3 DEF HasOps, ApplyFinalizer

LEMMA GenGrows == \A o \in Objects : o.gen + 1 \in Nat \ {0}
BY DEF Objects, Bodies

LEMMA ObjectMoves ==
  ASSUME ClusterOK, CycleOK, Next
  PROVE  \/ UNCHANGED <<object, alive, wire>>
         \/ UNCHANGED <<object, alive>> /\ wire # <<>> /\ wire' = Tail(wire)
         \/ UNCHANGED <<object, alive>> /\ wire' = Listing
         \/ Remove
         \/ \E o : Becoming(o) /\ Commit(o)
<1>0. object \in Objects
  BY DEF ClusterOK
<1>1. CASE ClusterKept BY <1>1, Kept
<1>2. CASE TakeEvent BY <1>2 DEF TakeEvent, clusterVars
<1>3. CASE Arrive BY <1>3 DEF Arrive
<1>4. CASE Relist BY <1>4 DEF Relist
<1>5. CASE Crash BY <1>5 DEF Crash
<1>6. CASE Edit
  <2>1. PICK e \in Essences : Commit([object EXCEPT !.essence = e, !.gen = @ + 1])
    BY <1>6 DEF Edit
  <2>2. Becoming([object EXCEPT !.essence = e, !.gen = @ + 1])
    BY <1>0, GenGrows DEF Becoming, SameLife, Objects, Bodies
  <2> QED BY <2>1, <2>2
<1>7. CASE RequestDeletion
  <2> DEFINE o == [object EXCEPT !.deleting = TRUE, !.gen = @ + 1]
  <2>1. object.finalizer => Becoming(o)
    BY <1>0, GenGrows DEF Becoming, Objects, Bodies
  <2>2. IF object.finalizer THEN Commit(o) ELSE Remove
    BY <1>7 DEF RequestDeletion
  <2> QED BY <2>1, <2>2
<1>8. CASE PatchMerge
  <2>1. Becoming(Merged(object, patch))
    <3>1. IsPatch(patch)
      BY DEF CycleOK
    <3> QED BY <1>0, <3>1, MergedType DEF Becoming, SameLife
  <2> QED BY <1>8, <2>1 DEF PatchMerge, clusterVars
<1>9. CASE PatchJSON BY <1>9, FinalizerMoves DEF PatchJSON
<1>10. CASE PatchRepeated BY <1>10, FinalizerMoves DEF PatchRepeated
<1>11. CASE Touch
  <2>1. Becoming([object EXCEPT !.dummy = TRUE])
    BY <1>0 DEF Becoming, SameLife, Objects, Bodies
  <2> QED BY <1>11, <2>1 DEF Touch, clusterVars
<1> QED BY <1>1, <1>2, <1>3, <1>4, <1>5, <1>6, <1>7, <1>8, <1>9, <1>10, <1>11, NextKept

(* What is on its way was on its way before, or is the object as it is.    *)
LEMMA WireMoves ==
  ASSUME ClusterOK, CycleOK, Next
  PROVE  /\ ClusterOK'
         /\ \A e \in Elements(wire)' : e \in Elements(wire) \/ e.body = object'
         /\ object'.version >= object.version /\ object'.gen >= object.gen
<1>0. object \in Objects /\ object.version \in Nat /\ object.gen \in Nat
  BY DEF ClusterOK, Objects, Bodies
<1>1. CASE UNCHANGED <<object, alive, wire>>
  BY <1>0, <1>1 DEF ClusterOK, Elements
<1>2. CASE UNCHANGED <<object, alive>> /\ wire # <<>> /\ wire' = Tail(wire)
  BY <1>0, <1>2, TailElements DEF ClusterOK
<1>3. CASE UNCHANGED <<object, alive>> /\ wire' = Listing
  <2>1. Event("listed", object) \in Events /\ Event("listed", object).body = object
    BY <1>0 DEF Event, Events
  <2>2. wire' = <<>> \/ wire' = <<Event("listed", object)>>
    BY <1>3 DEF Listing
  <2>3. wire' \in Seq(Events)
    <3>1. <<>> \in Seq(Events) /\ \A e \in Events : <<e>> \in Seq(Events)
      OBVIOUS
    <3> QED BY <2>1, <2>2, <3>1
  <2>4. Elements(wire)' \subseteq {Event("listed", object)}
    BY <2>2, ShortElements
  <2>5. ClusterOK'
    BY <1>3, <2>3 DEF ClusterOK
  <2> QED BY <1>0, <1>3, <2>1, <2>4, <2>5
<1>4. CASE Remove
  <2>1. /\ ClusterOK' /\ object' = object
        /\ Elements(wire)' = Elements(wire) \cup {Event("DELETED", object')}
    BY <1>4, Removed
  <2> QED BY <1>0, <2>1 DEF Event
<1>5. ASSUME NEW o, Becoming(o), Commit(o)
      PROVE  /\ ClusterOK'
             /\ \A e \in Elements(wire)' : e \in Elements(wire) \/ e.body = object'
             /\ object'.version >= object.version /\ object'.gen >= object.gen
  <2>1. o \in Objects /\ o.version = object.version /\ o.gen \in {object.gen, object.gen + 1}
    BY <1>5 DEF Becoming
  <2> QED BY <1>0, <1>5, <2>1, Committed DEF Event
<1> QED BY <1>1, <1>2, <1>3, <1>4, <1>5, ObjectMoves

LEMMA InFlightMoves ==
  ASSUME ClusterOK, CycleOK, StreamOK, Next
  PROVE  /\ backlog' \in Seq(Events)
         /\ \A e \in InFlight' : e \in InFlight \/ e.body = object'
<1>0. wire \in Seq(Events) /\ backlog \in Seq(Events)
  BY DEF ClusterOK, StreamOK
<1>1. /\ backlog' \in Seq(Events)
      /\ Elements(backlog)' \subseteq InFlight
  <2>1. CASE UNCHANGED backlog
    BY <1>0, <2>1 DEF InFlight, Elements
  <2>2. CASE Arrive
    <3>1. wire # <<>> /\ backlog' = Append(backlog, Head(wire))
      BY <2>2 DEF Arrive
    <3> QED BY <1>0, <3>1, TailElements, AppendElements DEF InFlight
  <2>3. CASE TakeEvent
    <3>1. backlog # <<>> /\ backlog' = Tail(backlog)
      BY <2>3 DEF TakeEvent
    <3> QED BY <1>0, <3>1, TailElements DEF InFlight
  <2>4. CASE Crash
    BY <2>4, ShortElements DEF Crash
  <2>5. Relist \/ Edit \/ RequestDeletion \/ PatchMerge \/ PatchJSON \/ PatchRepeated \/ Touch
          => UNCHANGED backlog
    BY DEF Relist, Edit, RequestDeletion, PatchMerge, PatchJSON, PatchRepeated, Touch, streamVars
  <2> QED BY <2>1, <2>2, <2>3, <2>4, <2>5, Kept, NextKept
<1> QED BY <1>1, WireMoves DEF InFlight

-----------------------------------------------------------------------------
(* What the steps do to the locals of the cycle.                           *)

Resets ==
  /\ event' = NoEvent /\ patch' = NoPatch /\ plan' = {} /\ state' = NoProgress
  /\ fresh' = NoEvent.body /\ result' = 0 /\ phase' = "idle"
Ends(v) ==
  /\ Resets
  /\ expected' = IF v # 0 THEN v ELSE expected
  /\ deadline' = IF v # 0 THEN "ahead" ELSE deadline

LEMMA ResetTypes == Resets => EventOK' /\ CycleOK' /\ PlanIsActive'
<1> SUFFICES ASSUME Resets PROVE EventOK' /\ CycleOK' /\ PlanIsActive'
  OBVIOUS
<1>1. EventOK'
  BY NewTypes DEF Resets, EventOK
<1>2. CycleOK'
  <2>1. NoEvent.body \in Seen
    BY NewTypes
  <2>2. {} \subseteq DOMAIN NoProgress
    OBVIOUS
  <2> QED BY <2>1, <2>2, NewTypes DEF Resets, CycleOK
<1>3. PlanIsActive'
  BY DEF Resets, PlanIsActive
<1> QED BY <1>1, <1>2, <1>3

LEMMA EndCycleEnds == \A v : EndCycle(v) => Ends(v)
BY DEF EndCycle, ResetCycle, Resets, Ends

(* The steps by what they leave of the cycle.                              *)
Outside ==
  \/ Arrive \/ Relist \/ Edit \/ RequestDeletion \/ \E h \in Handlers : DelayIsOver(h)
  \/ ConsistencyTimeout \/ WorkerExits
Ending ==
  \/ SkipThrottled \/ BackoffIsOver \/ AwakenedByEvents
  \/ (SkipHandlers \/ FinishHandling) /\ event.type = "DELETED"
  \/ NoPatchJSON /\ ~(IsEmpty(patch) /\ delay # "none")
  \/ PatchJSON \/ PatchConflict \/ PatchRepeated
  \/ PatchNotFound \/ AwakenedInSleep \/ Touch
Proceeding ==
  \/ ThrottlingIsOver \/ WaitForConsistency \/ SleepIsOver \/ RequestFails
  \/ NoPatchJSON /\ IsEmpty(patch) /\ delay # "none"
Deciding == (SkipHandlers \/ FinishHandling) /\ event.type # "DELETED"
Running == \E h \in Handlers, status \in {"success", "failure", "retry"} : RunHandler(h, status)
Merging == PatchMerge \/ NoPatchMerge

LEMMA NextByCycle ==
  Next => \/ Outside \/ Ending \/ Proceeding \/ Deciding \/ Running \/ Merging
          \/ StartHandling \/ TakeEvent \/ Crash
BY DEF Next, Operator, Time, Trouble, Outside, Ending, Proceeding, Deciding, Running, Merging

LEMMA OutsideKeeps == Outside => UNCHANGED <<phase, event, patch, plan, state, fresh, result, memory, ended>>
BY DEF Outside, Arrive, Relist, Edit, RequestDeletion, DelayIsOver, ConsistencyTimeout, WorkerExits,
   cycleVars, historyVars

LEMMA ProceedingKeeps ==
  Proceeding =>
    /\ UNCHANGED <<event, patch, plan, state, fresh, result, expected, deadline, ended>>
    /\ phase # "idle"
    /\ phase' \in {"detecting", "inconsistent", "sleeping", "touching", "backoff"}
    /\ phase' = "inconsistent" => HasCause
    /\ memory' \in {memory, [memory EXCEPT !.remaining = "keep"]}
BY DEF Proceeding, ThrottlingIsOver, WaitForConsistency, SleepIsOver, RequestFails, NoPatchJSON,
   SleepOrEnd, cycleVars, streamVars, historyVars

(* The version that is expected next is one that the object has.           *)
LEMMA EndingEnds ==
  ASSUME ClusterOK, CycleOK, result <= object.version, Ending, Next
  PROVE  /\ \E v \in Nat \cup {Never} : Ends(v) /\ v <= object'.version
         /\ UNCHANGED ended
<1>0. result \in Nat /\ object.version \in Nat /\ object'.version \in Nat
      /\ object'.version >= object.version
  <2>1. ClusterOK' /\ object'.version >= object.version
    BY WireMoves
  <2> QED BY <2>1 DEF ClusterOK, CycleOK, Objects, Bodies
<1>1. \E v \in {0, Never, result, object'.version} : EndCycle(v)
  BY DEF Ending, SkipThrottled, BackoffIsOver, AwakenedByEvents, SkipHandlers, FinishHandling,
         Apply, NoPatchJSON, SleepOrEnd, PatchJSON, PatchConflict, PatchRepeated, PatchNotFound,
         AwakenedInSleep, Touch
<1>2. UNCHANGED ended
  BY DEF Ending, SkipThrottled, BackoffIsOver, AwakenedByEvents, SkipHandlers, FinishHandling,
         NoPatchJSON, PatchJSON, PatchConflict, PatchRepeated, PatchNotFound,
         AwakenedInSleep, Touch, historyVars
<1>3. \A v \in {0, Never, result, object'.version} :
        v \in Nat \cup {Never} /\ v <= object'.version
  BY <1>0 DEF Never
<1> QED BY <1>1, <1>2, <1>3, EndCycleEnds

LEMMA MemoryMoves ==
  ASSUME MemoryOK, CycleOK, Next
  PROVE  MemoryOK' /\ memory'.remaining \in {memory.remaining, "keep", patch.fin}
<1>0. patch.fin \in Functions
  BY DEF CycleOK, IsPatch
<1>1. CASE Outside
  BY <1>1, OutsideKeeps DEF MemoryOK
<1>2. CASE UNCHANGED memory
  BY <1>2 DEF MemoryOK
<1>3. \A f \in Functions : [memory EXCEPT !.remaining = f].remaining = f
                           /\ [memory EXCEPT !.remaining = f] \in
                                [known : BOOLEAN, listed : BOOLEAN, handled : BOOLEAN,
                                 remaining : Functions]
  BY DEF MemoryOK
<1>4. CASE \E f \in {"keep", patch.fin} : memory' = [memory EXCEPT !.remaining = f]
  BY <1>0, <1>3, <1>4 DEF MemoryOK, Functions
<1>5. CASE TakeEvent
  <2>1. \/ memory' = Forgotten \/ memory' = memory
        \/ memory' = [Forgotten EXCEPT !.known = TRUE, !.listed = Head(backlog).type = "listed"]
    BY <1>5 DEF TakeEvent, Recalled
  <2>2. (Head(backlog).type = "listed") \in BOOLEAN
    OBVIOUS
  <2>3. \A b \in BOOLEAN : /\ [Forgotten EXCEPT !.known = TRUE, !.listed = b].remaining = "keep"
                          /\ [Forgotten EXCEPT !.known = TRUE, !.listed = b] \in
                                [known : BOOLEAN, listed : BOOLEAN, handled : BOOLEAN,
                                 remaining : Functions]
    BY DEF Forgotten, Functions
  <2>4. Forgotten.remaining = "keep"
        /\ Forgotten \in [known : BOOLEAN, listed : BOOLEAN, handled : BOOLEAN,
                          remaining : Functions]
    BY DEF Forgotten, Functions
  <2> QED BY <2>1, <2>2, <2>3, <2>4 DEF MemoryOK
<1>6. CASE Crash
  BY <1>6 DEF Crash, Forgotten, MemoryOK, Functions
<1>7. CASE FinishHandling
  <2>1. memory' = [memory EXCEPT !.handled = memory.handled \/ IsDone]
    BY <1>7 DEF FinishHandling, MemoryOK
  <2>2. (memory.handled \/ IsDone) \in BOOLEAN
    OBVIOUS
  <2>3. \A b \in BOOLEAN : /\ [memory EXCEPT !.handled = b].remaining = memory.remaining
                          /\ [memory EXCEPT !.handled = b] \in
                                [known : BOOLEAN, listed : BOOLEAN, handled : BOOLEAN,
                                 remaining : Functions]
    BY DEF MemoryOK
  <2> QED BY <2>1, <2>2, <2>3 DEF MemoryOK
<1>8. Ending /\ ~FinishHandling =>
        UNCHANGED memory \/ \E f \in {"keep", patch.fin} : memory' = [memory EXCEPT !.remaining = f]
  BY DEF Ending, SkipThrottled, BackoffIsOver, AwakenedByEvents, SkipHandlers,
         NoPatchJSON, PatchJSON, PatchConflict, PatchRepeated, PatchNotFound,
         AwakenedInSleep, Touch
<1>9. Deciding /\ ~FinishHandling => UNCHANGED memory
  BY DEF Deciding, SkipHandlers
<1>10. Running \/ Merging \/ StartHandling => UNCHANGED memory
  BY DEF Running, RunHandler, Merging, PatchMerge, NoPatchMerge, StartHandling
<1>11. CASE Proceeding
  BY <1>2, <1>4, <1>11, ProceedingKeeps
<1> QED BY <1>1, <1>2, <1>4, <1>5, <1>6, <1>7, <1>8, <1>9, <1>10, <1>11, NextByCycle

(* What a cycle decides to do.                                             *)
LEMMA Applied ==
  ASSUME NEW p, IsPatch(p), NEW d, event \in Events, event.type # "DELETED", Apply(p, d)
  PROVE  /\ UNCHANGED <<event, plan, state, fresh, result, expected, deadline>>
         /\ phase' = "patching"
         /\ IsPatch(patch)' /\ patch'.progress = p.progress /\ patch'.fin = p.fin
<1>1. /\ UNCHANGED <<event, plan, state, fresh, result, expected, deadline>>
      /\ phase' = "patching"
      /\ patch' = [p EXCEPT !.undummy = ~IsEmpty(p) /\ event.body.dummy]
  BY DEF Apply
<1>2. (~IsEmpty(p) /\ event.body.dummy) \in BOOLEAN
  OBVIOUS
<1> QED BY <1>1, <1>2, UndummyType

LEMMA SkippingDecides ==
  ASSUME MemoryOK, event \in Events, event.type # "DELETED", SkipHandlers
  PROVE  /\ UNCHANGED <<event, plan, state, fresh, result, expected, deadline, ended>>
         /\ phase' = "patching" /\ IsPatch(patch)'
         /\ patch'.progress = NoProgress /\ patch'.fin = PatchOnEntry.fin
<1>1. Apply(PatchOnEntry, "none") /\ UNCHANGED ended
  BY DEF SkipHandlers, historyVars
<1> QED BY <1>1, EntryType, Applied

LEMMA FinishingDecides ==
  ASSUME CycleOK, event \in Events, event.type # "DELETED", FinishHandling
  PROVE  /\ UNCHANGED <<event, plan, state, fresh, result, expected, deadline, ended>>
         /\ phase = "handling" /\ phase' = "patching" /\ IsPatch(patch)'
         /\ \/ patch'.fin = patch.fin
            \/ event.body.deleting /\ event.body.finalizer /\ Unfinished = {}
         /\ \A h \in DOMAIN patch'.progress :
              \/ h \in DOMAIN patch.progress /\ patch'.progress[h] = patch.progress[h]
              \/ h \in DOMAIN state /\ patch'.progress[h] = state[h]
              \/ patch'.progress[h] = NoRecord
<1> DEFINE p == StoreProgress(patch)
           q == StoreEssence(p)
<1>1. Apply(Release(q), Delay) /\ phase = "handling" /\ UNCHANGED ended
  BY DEF FinishHandling, historyVars
<1>2. /\ IsPatch(p) /\ p.fin = patch.fin
      /\ \A h \in DOMAIN p.progress :
           \/ h \in DOMAIN patch.progress /\ p.progress[h] = patch.progress[h]
           \/ h \in DOMAIN state /\ p.progress[h] = state[h]
           \/ p.progress[h] = NoRecord
  BY StoreProgressType DEF CycleOK
<1> HIDE DEF p
<1>3. IsPatch(q) /\ q.fin = p.fin /\ q.progress = p.progress
  BY <1>2, StoreEssenceType
<1> HIDE DEF q
<1>4. /\ IsPatch(Release(q)) /\ Release(q).progress = p.progress
      /\ \/ Release(q).fin = patch.fin
         \/ event.body.deleting /\ event.body.finalizer /\ Unfinished = {}
  BY <1>2, <1>3, ReleaseType
<1>5. /\ UNCHANGED <<event, plan, state, fresh, result, expected, deadline>>
      /\ phase' = "patching" /\ IsPatch(patch)'
      /\ patch'.progress = Release(q).progress /\ patch'.fin = Release(q).fin
  BY <1>1, <1>4, Applied
<1> QED BY <1>1, <1>2, <1>4, <1>5

LEMMA StartingStarts ==
  ASSUME MemoryOK, event \in Events, StartHandling
  PROVE  /\ UNCHANGED <<event, fresh, result, expected, deadline, memory, ended>>
         /\ phase \in {"detecting", "inconsistent"} /\ phase' = "handling"
         /\ phase = "detecting" => HasCause
         /\ state' = StartState /\ plan' \subseteq Active
         /\ IsPatch(patch)' /\ patch'.fin = PatchOnEntry.fin
         /\ \A h \in DOMAIN patch'.progress : patch'.progress[h] = NoRecord
<1>1. /\ UNCHANGED <<event, fresh, result, expected, deadline, memory, ended>>
      /\ phase \in {"detecting", "inconsistent"} /\ phase' = "handling"
      /\ phase = "detecting" => HasCause
      /\ state' = StartState
      /\ plan' \in Plans({h \in Active : Awakened(h, StartState)})
      /\ patch' = IF HasExtras THEN Purge(PatchOnEntry) ELSE PatchOnEntry
  BY DEF StartHandling, streamVars, historyVars
<1>2. plan' \subseteq Active
  BY <1>1 DEF Plans
<1>3. IsPatch(PatchOnEntry) /\ PatchOnEntry.progress = NoProgress
  BY EntryType
<1>4. /\ IsPatch(patch)' /\ patch'.fin = PatchOnEntry.fin
      /\ \A h \in DOMAIN patch'.progress : patch'.progress[h] = NoRecord
  <2>1. CASE HasExtras
    BY <1>1, <1>3, <2>1, PurgeType
  <2>2. CASE ~HasExtras
    BY <1>1, <1>3, <2>2 DEF NoProgress
  <2> QED BY <2>1, <2>2
<1> QED BY <1>1, <1>2, <1>4

LEMMA RunningRuns ==
  ASSUME CycleOK, event \in Events, PlanIsActive, NEW h \in Handlers,
         NEW status \in {"success", "failure", "retry"}, RunHandler(h, status)
  PROVE  /\ UNCHANGED <<event, patch, fresh, result, expected, deadline, memory, phase>>
         /\ phase = "handling" /\ h \in Active /\ plan' \subseteq plan
         /\ DOMAIN state' = DOMAIN state /\ IsPart(state)'
         /\ state'[h].status = status
         /\ \A g \in DOMAIN state : g # h => state'[g] = state[g]
         /\ IF status = "retry" THEN ended' = ended
            ELSE ended' = ended \cup {<<h, Reason, event.body.gen>>}
<1>1. /\ UNCHANGED <<event, patch, fresh, result, expected, deadline, memory, phase>>
      /\ phase = "handling" /\ h \in plan /\ plan' = plan \ {h}
      /\ state' = [state EXCEPT ![h] = Record(status, @.purpose, @.retries + 1)]
      /\ IF status = "retry" THEN ended' = ended
         ELSE ended' = ended \cup {<<h, Reason, event.body.gen>>}
  BY DEF RunHandler, streamVars, historyVars
<1>2. /\ h \in DOMAIN state /\ h \in Active /\ state[h] \in Records
      /\ state \in [DOMAIN state -> Records]
  BY <1>1 DEF CycleOK, PlanIsActive, IsPart
<1>3. Record(status, state[h].purpose, state[h].retries + 1) \in Records
  BY <1>2 DEF Record, Records, Statuses
<1>4. /\ DOMAIN state' = DOMAIN state /\ state' \in [DOMAIN state -> Records]
      /\ state'[h] = Record(status, state[h].purpose, state[h].retries + 1)
      /\ \A g \in DOMAIN state : g # h => state'[g] = state[g]
  BY <1>1, <1>2, <1>3
<1>5. IsPart(state)'
  BY <1>4 DEF IsPart, CycleOK
<1> QED BY <1>1, <1>2, <1>4, <1>5 DEF Record

LEMMA MergingMerges ==
  ASSUME ClusterOK, EventOK, CycleOK, Merging, Next
  PROVE  /\ UNCHANGED <<event, patch, plan, state, expected, deadline, memory, ended>>
         /\ phase # "idle" /\ phase' = "finalizing" /\ fresh' \in Seen
         /\ result' \in Nat /\ (result' <= object'.version \/ result' = result)
<1>1. CASE PatchMerge
  <2>1. ClusterOK'
    BY WireMoves
  <2> QED BY <1>1, <2>1 DEF PatchMerge, streamVars, historyVars, ClusterOK, Objects, Seen, Bodies
<1>2. CASE NoPatchMerge
  BY <1>2 DEF NoPatchMerge, streamVars, historyVars, EventOK, CycleOK, Events, Objects, Seen, Bodies
<1> QED BY <1>1, <1>2 DEF Merging

LEMMA TakingTakes ==
  ASSUME StreamOK, TakeEvent
  PROVE  /\ UNCHANGED <<patch, plan, state, fresh, result, ended>>
         /\ event' \in InFlight /\ event' \in Events
         /\ phase' \in {"throttled", "detecting"}
         /\ \/ UNCHANGED <<expected, deadline>>
            \/ expected' = 0 /\ deadline' = "none"
<1>1. /\ UNCHANGED <<patch, plan, state, fresh, result, ended>>
      /\ backlog # <<>> /\ event' = Head(backlog)
      /\ phase' \in {"throttled", "detecting"}
      /\ \/ UNCHANGED <<expected, deadline>>
         \/ expected' = 0 /\ deadline' = "none"
  BY DEF TakeEvent, historyVars
<1>2. Head(backlog) \in InFlight /\ Head(backlog) \in Events
  BY <1>1, TailElements DEF StreamOK, InFlight
<1> QED BY <1>1, <1>2

LEMMA CrashingForgets ==
  Crash => /\ Resets /\ UNCHANGED <<object, ended>>
           /\ expected' = 0 /\ deadline' = "none" /\ memory' = Forgotten
BY DEF Crash, Resets, ResetCycle

-----------------------------------------------------------------------------
(* The types.                                                              *)

LEMMA InitTypes == Init => TInv
<1> SUFFICES ASSUME Init PROVE TInv
  OBVIOUS
<1>1. ClusterOK /\ Elements(wire) \subseteq {Event(t, object) : t \in {"listed", "changed"}}
  <2>1. \E t \in {"listed", "changed"} : object \in Objects /\ wire = <<Event(t, object)>>
    BY NewTypes DEF Init
  <2>2. PICK t \in {"listed", "changed"} : object \in Objects /\ wire = <<Event(t, object)>>
    BY <2>1
  <2>3. Event(t, object) \in Events
    BY <2>2 DEF Event, Events
  <2>4. wire \in Seq(Events)
    <3>1. \A e \in Events : <<e>> \in Seq(Events)
      OBVIOUS
    <3> QED BY <2>2, <2>3, <3>1
  <2>5. Elements(wire) = {Event(t, object)}
    BY <2>2, ShortElements
  <2>6. alive \in BOOLEAN
    BY DEF Init
  <2> QED BY <2>2, <2>4, <2>5, <2>6 DEF ClusterOK
<1>2. StreamOK /\ Elements(backlog) = {}
  <2>1. backlog = <<>> /\ expected = 0 /\ deadline = "none"
    BY DEF Init
  <2> QED BY <2>1, ShortElements DEF StreamOK
<1>3. MemoryOK
  BY DEF Init, MemoryOK, Forgotten, Functions
<1>4. EventOK /\ event.body.gen = 1
  BY NewTypes DEF Init, EventOK, NoEvent, Event, NewObject
<1>5. CycleOK
  <2>1. NoEvent.body \in Seen
    BY NewTypes
  <2>2. {} \subseteq DOMAIN NoProgress
    OBVIOUS
  <2> QED BY <2>1, <2>2, NewTypes DEF Init, CycleOK
<1>6. NothingAhead
  <2>1. \A e \in InFlight : e.body = object
    BY <1>1, <1>2 DEF InFlight, Event
  <2>2. object.gen \in Nat \ {0} /\ object.version \in Nat
    BY <1>1 DEF ClusterOK, Objects, Bodies
  <2>3. expected = 0 /\ result = 0 /\ ended = {}
    BY DEF Init
  <2> QED BY <1>4, <2>1, <2>2, <2>3 DEF NothingAhead
<1>7. PlanIsActive
  BY DEF Init, PlanIsActive
<1> QED BY <1>1, <1>2, <1>3, <1>4, <1>5, <1>6, <1>7 DEF TInv, Types

LEMMA NextEventAndCycle ==
  ASSUME TInv, Next
  PROVE  EventOK' /\ CycleOK' /\ PlanIsActive' /\ event'.body.gen <= object'.gen
         /\ result' <= object'.version
<1> DEFINE Goal == EventOK' /\ CycleOK' /\ PlanIsActive' /\ event'.body.gen <= object'.gen
                   /\ result' <= object'.version
<1>1. /\ ClusterOK /\ StreamOK /\ MemoryOK /\ EventOK /\ CycleOK /\ NothingAhead /\ PlanIsActive
      /\ ClusterOK' /\ object'.version >= object.version /\ object'.gen >= object.gen
      /\ object.version \in Nat /\ object'.version \in Nat
      /\ object.gen \in Nat \ {0} /\ object'.gen \in Nat \ {0}
  <2>1. ClusterOK /\ StreamOK /\ MemoryOK /\ EventOK /\ CycleOK /\ NothingAhead /\ PlanIsActive
    BY DEF TInv, Types
  <2>2. ClusterOK' /\ object'.version >= object.version /\ object'.gen >= object.gen
    BY <2>1, WireMoves
  <2> QED BY <2>1, <2>2 DEF ClusterOK, Objects, Bodies
<1>2. event.body.gen \in Nat \ {0} /\ event.body.gen <= object'.gen
      /\ result \in Nat /\ result <= object'.version
  BY <1>1 DEF EventOK, CycleOK, NothingAhead, Seen, Bodies
<1>4. ASSUME Resets PROVE Goal
  <2>1. event'.body.gen = 1 /\ result' = 0
    BY <1>4 DEF Resets, NoEvent, Event, NewObject
  <2> QED BY <1>1, <1>4, <2>1, ResetTypes
<1>5. CASE Outside
  <2>1. UNCHANGED <<phase, event, patch, plan, state, fresh, result, memory>>
    BY <1>5, OutsideKeeps
  <2>2. EventOK' /\ CycleOK'
    BY <1>1, <2>1 DEF EventOK, CycleOK
  <2>3. PlanIsActive'
    BY <1>1, <2>1 DEF PlanIsActive, Active, Selected, Reason, IsInitial
  <2> QED BY <1>2, <2>1, <2>2, <2>3
<1>6. CASE Ending
  BY <1>1, <1>4, <1>6, EndingEnds DEF Ends, NothingAhead
<1>7. CASE Crash
  BY <1>4, <1>7, CrashingForgets
<1>8. CASE Proceeding
  <2>1. /\ UNCHANGED <<event, patch, plan, state, fresh, result>>
        /\ phase # "idle" 
        /\ phase' \in {"detecting", "inconsistent", "sleeping", "touching", "backoff"}
    BY <1>8, ProceedingKeeps
  <2>2. EventOK' /\ CycleOK' /\ PlanIsActive'
    BY <1>1, <2>1 DEF EventOK, CycleOK, PlanIsActive
  <2> QED BY <1>2, <2>1, <2>2
<1>9. CASE Deciding
  <2>1. event \in Events /\ event.type # "DELETED"
    BY <1>1, <1>9 DEF Deciding, SkipHandlers, FinishHandling, EventOK
  <2>2. /\ UNCHANGED <<event, plan, state, fresh, result>>
        /\ phase' = "patching" /\ IsPatch(patch)'
    BY <1>1, <1>9, <2>1, SkippingDecides, FinishingDecides DEF Deciding
  <2>3. EventOK' /\ CycleOK' /\ PlanIsActive'
    BY <1>1, <2>1, <2>2 DEF EventOK, CycleOK, PlanIsActive
  <2> QED BY <1>2, <2>2, <2>3
<1>10. CASE Running
  <2>1. PICK h \in Handlers, status \in {"success", "failure", "retry"} : RunHandler(h, status)
    BY <1>10 DEF Running
  <2>2. event \in Events
    BY <1>1, <2>1 DEF RunHandler, EventOK
  <2>3. /\ UNCHANGED <<event, patch, fresh, result, memory, phase>>
        /\ plan' \subseteq plan /\ DOMAIN state' = DOMAIN state /\ IsPart(state)'
    BY <1>1, <2>1, <2>2, RunningRuns
  <2>4. EventOK' /\ CycleOK'
    BY <1>1, <2>3 DEF EventOK, CycleOK
  <2>5. PlanIsActive'
    BY <1>1, <2>3 DEF PlanIsActive, Active, Selected, Reason, IsInitial
  <2> QED BY <1>2, <2>3, <2>4, <2>5
<1>11. CASE Merging
  <2>1. /\ UNCHANGED <<event, patch, plan, state>>
        /\ phase # "idle" /\ phase' = "finalizing" /\ fresh' \in Seen
        /\ result' \in Nat /\ (result' <= object'.version \/ result' = result)
    BY <1>1, <1>11, MergingMerges
  <2>2. EventOK' /\ CycleOK' /\ PlanIsActive'
    BY <1>1, <2>1 DEF EventOK, CycleOK, PlanIsActive
  <2> QED BY <1>2, <2>1, <2>2
<1>12. CASE StartHandling
  <2>1. event \in Events
    BY <1>1, <1>12 DEF StartHandling, EventOK
  <2>2. /\ UNCHANGED <<event, fresh, result, memory>>
        /\ phase' = "handling"
        /\ state' = StartState /\ plan' \subseteq Active /\ IsPatch(patch)'
    BY <1>1, <1>12, <2>1, StartingStarts
  <2>3. IsPart(StartState) /\ Active \subseteq DOMAIN StartState
    BY <2>1, StartStateType
  <2>4. EventOK'
    BY <1>1, <2>1, <2>2 DEF EventOK
  <2>5. CycleOK'
    BY <1>1, <2>2, <2>3 DEF CycleOK
  <2>6. Active' = Active
    BY <2>2 DEF Active, Selected, Reason, IsInitial
  <2> QED BY <1>2, <2>2, <2>3, <2>4, <2>5, <2>6 DEF PlanIsActive
<1>13. CASE TakeEvent
  <2>1. /\ UNCHANGED <<patch, plan, state, fresh, result>>
        /\ event' \in InFlight /\ event' \in Events
        /\ phase' \in {"throttled", "detecting"}
    BY <1>1, <1>13, TakingTakes
  <2>2. event'.body.gen <= object.gen /\ event'.body.gen \in Nat
    BY <1>1, <2>1 DEF NothingAhead, Events, Objects, Bodies
  <2>3. event' \in [type : {"none", "listed", "changed", "DELETED"}, body : Seen]
    BY <2>1 DEF Events, Objects, Seen, Bodies
  <2>4. EventOK' /\ CycleOK' /\ PlanIsActive'
    BY <1>1, <2>1, <2>3 DEF EventOK, CycleOK, PlanIsActive
  <2> QED BY <1>1, <1>2, <2>1, <2>2, <2>4
<1> QED BY <1>5, <1>6, <1>7, <1>8, <1>9, <1>10, <1>11, <1>12, <1>13, NextByCycle

LEMMA NextStream ==
  ASSUME TInv, Next
  PROVE  /\ StreamOK' /\ expected' <= object'.version
         /\ ended' \subseteq Handlers \X HandlerReasons \X (1 .. object'.gen)
<1> DEFINE Times == /\ expected' \in Nat \cup {Never} /\ deadline' \in {"none", "ahead", "over"}
                    /\ (expected' = 0) = (deadline' = "none")
                    /\ expected' <= object'.version
<1>1. /\ ClusterOK /\ StreamOK /\ MemoryOK /\ EventOK /\ CycleOK /\ NothingAhead /\ PlanIsActive
      /\ object'.version >= object.version /\ object'.gen >= object.gen
      /\ object.version \in Nat /\ object'.version \in Nat
      /\ object.gen \in Nat \ {0} /\ object'.gen \in Nat \ {0}
      /\ backlog' \in Seq(Events)
  <2>1. ClusterOK /\ StreamOK /\ MemoryOK /\ EventOK /\ CycleOK /\ NothingAhead /\ PlanIsActive
    BY DEF TInv, Types
  <2>2. ClusterOK' /\ object'.version >= object.version /\ object'.gen >= object.gen
    BY <2>1, WireMoves
  <2> QED BY <2>1, <2>2, InFlightMoves DEF ClusterOK, Objects, Bodies
<1>2. ASSUME UNCHANGED <<expected, deadline>> \/ (expected' = 0 /\ deadline' = "none") PROVE Times
  BY <1>1, <1>2 DEF StreamOK, NothingAhead, Never
<1>3. ASSUME UNCHANGED ended PROVE ended' \subseteq Handlers \X HandlerReasons \X (1 .. object'.gen)
  BY <1>1, <1>3 DEF NothingAhead
<1>4. SUFFICES Times /\ ended' \subseteq Handlers \X HandlerReasons \X (1 .. object'.gen)
  BY <1>1 DEF StreamOK
<1>5. CASE Outside
  <2>1. UNCHANGED ended
    BY <1>5, OutsideKeeps
  <2>2. CASE ConsistencyTimeout
    <3>1. expected' = expected /\ deadline = "ahead" /\ deadline' = "over"
      BY <2>2 DEF ConsistencyTimeout
    <3>2. Times
      BY <1>1, <3>1 DEF StreamOK, NothingAhead, Never
    <3> QED BY <1>3, <2>1, <3>2
  <2>3. CASE ~ConsistencyTimeout
    <3>1. UNCHANGED <<expected, deadline>> \/ (expected' = 0 /\ deadline' = "none")
      BY <1>5, <2>3 DEF Outside, Arrive, Relist, Edit, RequestDeletion, DelayIsOver, WorkerExits,
                        streamVars
    <3> QED BY <1>2, <1>3, <2>1, <3>1
  <2> QED BY <2>2, <2>3
<1>6. CASE Ending
  <2>1. (\E v \in Nat \cup {Never} : Ends(v) /\ v <= object'.version) /\ UNCHANGED ended
    BY <1>1, <1>6, EndingEnds DEF NothingAhead
  <2>2. PICK v \in Nat \cup {Never} : Ends(v) /\ v <= object'.version
    BY <2>1
  <2>3. Times
    BY <1>1, <2>2 DEF Ends, StreamOK, NothingAhead, Never
  <2> QED BY <1>3, <2>1, <2>3
<1>7. CASE Crash
  BY <1>2, <1>3, <1>7, CrashingForgets
<1>8. CASE Proceeding
  BY <1>2, <1>3, <1>8, ProceedingKeeps
<1>9. CASE Deciding
  <2>1. event \in Events /\ event.type # "DELETED"
    BY <1>1, <1>9 DEF Deciding, SkipHandlers, FinishHandling, EventOK
  <2>2. UNCHANGED <<expected, deadline, ended>>
    BY <1>1, <1>9, <2>1, SkippingDecides, FinishingDecides DEF Deciding
  <2> QED BY <1>2, <1>3, <2>2
<1>10. CASE Running
  <2>1. PICK h \in Handlers, status \in {"success", "failure", "retry"} : RunHandler(h, status)
    BY <1>10 DEF Running
  <2>2. event \in Events
    BY <1>1, <2>1 DEF RunHandler, EventOK
  <2>3. /\ UNCHANGED <<expected, deadline>> /\ h \in Active
        /\ ended' = ended \/ ended' = ended \cup {<<h, Reason, event.body.gen>>}
    BY <1>1, <2>1, <2>2, RunningRuns
  <2>4. Reason \in HandlerReasons
    BY <2>3 DEF Active
  <2>5. event.body.gen \in 1 .. object'.gen
    BY <1>1, <2>2 DEF NothingAhead, Events, Objects, Bodies
  <2>6. ended' \subseteq Handlers \X HandlerReasons \X (1 .. object'.gen)
    <3>1. ended \subseteq Handlers \X HandlerReasons \X (1 .. object'.gen)
      BY <1>1 DEF NothingAhead
    <3>2. <<h, Reason, event.body.gen>> \in Handlers \X HandlerReasons \X (1 .. object'.gen)
      BY <2>4, <2>5
    <3> QED BY <2>3, <3>1, <3>2
  <2> QED BY <1>2, <2>3, <2>6
<1>11. CASE Merging
  BY <1>1, <1>2, <1>3, <1>11, MergingMerges
<1>12. CASE StartHandling
  <2>1. event \in Events
    BY <1>1, <1>12 DEF StartHandling, EventOK
  <2>2. UNCHANGED <<expected, deadline, ended>>
    BY <1>1, <1>12, <2>1, StartingStarts
  <2> QED BY <1>2, <1>3, <2>2
<1>13. CASE TakeEvent
  <2>1. UNCHANGED ended /\ (UNCHANGED <<expected, deadline>> \/ (expected' = 0 /\ deadline' = "none"))
    BY <1>1, <1>13, TakingTakes
  <2> QED BY <1>2, <1>3, <2>1
<1> QED BY <1>5, <1>6, <1>7, <1>8, <1>9, <1>10, <1>11, <1>12, <1>13, NextByCycle

LEMMA NextTypes ==
  ASSUME TInv, [Next]_vars
  PROVE  TInv'
<1>1. CASE UNCHANGED vars
  <2> USE <1>1 DEF vars, TInv, Types
  <2>1. ClusterOK' /\ StreamOK' /\ MemoryOK'
    BY DEF ClusterOK, StreamOK, MemoryOK
  <2>2. EventOK' /\ CycleOK'
    BY DEF EventOK, CycleOK
  <2>3. NothingAhead'
    BY DEF NothingAhead, InFlight
  <2>4. PlanIsActive'
    BY DEF PlanIsActive, Active, Selected, Reason, IsInitial
  <2> QED BY <2>1, <2>2, <2>3, <2>4
<1>2. CASE Next
  <2>1. /\ ClusterOK /\ StreamOK /\ MemoryOK /\ EventOK /\ CycleOK /\ NothingAhead
    BY DEF TInv, Types
  <2>2. ClusterOK' /\ object'.version >= object.version /\ object'.gen >= object.gen
    BY <1>2, <2>1, WireMoves
  <2>3. EventOK' /\ CycleOK' /\ PlanIsActive' /\ event'.body.gen <= object'.gen
        /\ result' <= object'.version
    BY <1>2, NextEventAndCycle
  <2>4. /\ StreamOK' /\ expected' <= object'.version
        /\ ended' \subseteq Handlers \X HandlerReasons \X (1 .. object'.gen)
    BY <1>2, NextStream
  <2>5. MemoryOK'
    BY <1>2, <2>1, MemoryMoves
  <2>6. \A e \in InFlight' : e.body.gen <= object'.gen
    <3>1. \A e \in InFlight' : e \in InFlight \/ e.body = object'
      BY <1>2, <2>1, InFlightMoves
    <3>2. \A e \in InFlight : e.body.gen <= object.gen /\ e \in Events
      BY <2>1 DEF NothingAhead, InFlight, Elements, ClusterOK, StreamOK
    <3>3. object.gen \in Nat /\ object'.gen \in Nat /\ \A e \in Events : e.body.gen \in Nat
      BY <2>1, <2>2 DEF ClusterOK, Events, Objects, Bodies
    <3> QED BY <2>2, <3>1, <3>2, <3>3
  <2>7. NothingAhead'
    BY <2>3, <2>4, <2>6 DEF NothingAhead
  <2> QED BY <2>2, <2>3, <2>4, <2>5, <2>7 DEF TInv, Types
<1> QED BY <1>1, <1>2

(* Every variable stays within its type; a version is expected exactly     *)
(* while there is a deadline for it, and it is none that the object has not *)
(* reached: the worker does not wait for what cannot come.                 *)
THEOREM TypeCorrect == Spec => []TypeOK
<1>1. TInv => TypeOK
  BY DEF TInv, Types, ClusterOK, StreamOK, MemoryOK, EventOK, CycleOK, NothingAhead, TypeOK,
         Objects, Bodies, Records, Statuses, Progress, Functions
<1>2. TInv /\ [Next]_vars => TInv'
  BY NextTypes
<1> QED BY InitTypes, <1>1, <1>2, PTL DEF Spec

-----------------------------------------------------------------------------
(* The protection.                                                         *)

LEMMA Unneeded == Deleting = {} => DeletionHandlersEnded /\ DeletionHandlersEnded'
BY DEF DeletionHandlersEnded

LEMMA EndedGrows ==
  ASSUME TInv, Next
  PROVE  ended \subseteq ended'
<1>1. ClusterOK /\ StreamOK /\ MemoryOK /\ EventOK /\ CycleOK /\ NothingAhead /\ PlanIsActive
  BY DEF TInv, Types
<1>2. Running => ended \subseteq ended'
  BY DEF Running, RunHandler, historyVars
<1>3. Deciding => UNCHANGED ended
  BY DEF Deciding, SkipHandlers, FinishHandling, historyVars
<1>4. StartHandling \/ TakeEvent => UNCHANGED ended
  BY DEF StartHandling, TakeEvent, historyVars
<1>5. Ending => UNCHANGED ended
  BY <1>1, EndingEnds DEF NothingAhead
<1>6. Merging => UNCHANGED ended
  BY <1>1, MergingMerges
<1> QED BY <1>2, <1>3, <1>4, <1>5, <1>6, OutsideKeeps, ProceedingKeeps, CrashingForgets, NextByCycle

(* What the cause and its patch are for an object that always matches.     *)
LEMMA Causes ==
  ASSUME AlwaysProtected, Deleting # {}, event \in Events, MemoryOK
  PROVE  /\ HasCause => event.body.deleting \/ event.body.finalizer
         /\ PatchOnEntry.fin = "allow" => memory.remaining = "allow"
<1>1. event.body.essence \in Matching
  BY DEF AlwaysProtected, AlwaysMatches, Events, Objects, Bodies
<1> QED BY <1>1, EntryType DEF HasCause, Blocks, Frees, MustBeBlocked

LEMMA NotedLater ==
  ASSUME ended \subseteq ended', NEW progress, Noted(progress)
  PROVE  \A h \in Deleting \cap DOMAIN progress : Finished(progress[h]) => HasEnded(h)'
BY DEF Noted, HasEnded

LEMMA NewNoted == Noted(NoProgress) /\ ~Finished(NoRecord)
BY DEF Noted, NoProgress, Finished, NoRecord

(* The object remains deleted and blocked, and its records are true.       *)
LEMMA ObjectProtected ==
  ASSUME TInv, SInv, Next
  PROVE  /\ object.deleting => object'.deleting
         /\ object.finalizer => object'.finalizer
         /\ Older(object)'
<1>1. /\ ClusterOK /\ CycleOK /\ object \in Objects
      /\ Older(object) /\ Noted(patch.progress) /\ AllowedLast
  BY DEF TInv, Types, SInv, AllOlder, ClusterOK
<1>2. ended \subseteq ended'
  BY EndedGrows
<1>3. object.progress \in [Handlers -> Records] /\ Noted(object.progress)
      /\ (object.deleting => object.finalizer)
  BY <1>1 DEF Objects, Bodies, Older
<1>4. CASE UNCHANGED object
  BY <1>1, <1>2, <1>4, NotedLater DEF Older, Noted
<1>5. CASE \E o : Becoming(o) /\ Commit(o)
  <2>1. PICK o : Becoming(o) /\ Commit(o)
    BY <1>5
  <2>2. o \in Objects /\ o.version = object.version
    BY <2>1 DEF Becoming
  <2>3. /\ object'.deleting = o.deleting /\ object'.finalizer = o.finalizer
        /\ object'.progress = o.progress
    BY <1>1, <2>1, <2>2, Committed
  <2>4. /\ object.deleting => o.deleting
        /\ object.finalizer => o.finalizer
        /\ o.deleting => o.finalizer
    BY <1>1, <1>3, <2>1 DEF Becoming, SameLife, AllowedLast
  <2>5. Noted(o.progress)
    <3>1. CASE o.progress = object.progress
      BY <1>3, <3>1
    <3>2. CASE o = Merged(object, patch)
      <4>1. o.progress = [h \in Handlers |-> IF h \in DOMAIN patch.progress
                            THEN patch.progress[h] ELSE object.progress[h]]
        BY <1>1, <3>2, MergedType DEF CycleOK
      <4> QED BY <1>1, <1>3, <4>1 DEF Noted
    <3> QED BY <2>1, <3>1, <3>2 DEF Becoming
  <2>6. \A h \in Deleting \cap DOMAIN object'.progress : Finished(object'.progress[h]) => HasEnded(h)'
    BY <1>2, <2>3, <2>5, NotedLater
  <2> QED BY <2>3, <2>4, <2>6 DEF Older, Noted
<1> QED BY <1>1, <1>4, <1>5, ObjectMoves DEF Remove

LEMMA OlderLater ==
  ASSUME TInv, SInv, Next, NEW b, Older(b)
  PROVE  /\ b.deleting => b.finalizer /\ object'.deleting
         /\ b.finalizer => object'.finalizer
         /\ \A h \in Deleting \cap DOMAIN b.progress : Finished(b.progress[h]) => HasEnded(h)'
<1>1. ended \subseteq ended'
  BY EndedGrows
<1>2. Noted(b.progress)
  BY DEF Older
<1> QED BY <1>1, <1>2, NotedLater, ObjectProtected DEF Older

LEMMA EventsOlder ==
  ASSUME TInv, SInv, Next
  PROVE  Older(event.body)' /\ \A e \in InFlight' : Older(e.body)'
<1>1. ClusterOK /\ StreamOK /\ MemoryOK /\ EventOK /\ CycleOK /\ NothingAhead /\ PlanIsActive
  BY DEF TInv, Types
<1>2. Older(event.body) /\ \A e \in InFlight : Older(e.body)
  BY DEF SInv, AllOlder
<1>3. \A e \in InFlight : Older(e.body)'
  BY <1>2, OlderLater DEF Older, Noted
<1>4. \A e \in InFlight' : e \in InFlight \/ e.body = object'
  BY <1>1, InFlightMoves
<1>5. \A e \in InFlight' : Older(e.body)'
  BY <1>3, <1>4, ObjectProtected DEF Older, Noted
<1>6. UNCHANGED event \/ event' = NoEvent \/ event' \in InFlight
  <2>1. UNCHANGED event \/ Resets \/ TakeEvent
    <3>1. Deciding \/ StartHandling \/ Running \/ Merging => UNCHANGED event \/ Resets
      BY EndCycleEnds DEF Deciding, SkipHandlers, FinishHandling, Apply, StartHandling, Running,
         RunHandler, Merging, PatchMerge, NoPatchMerge, Ends
    <3>2. Ending => Resets
      BY <1>1, EndingEnds DEF Ends, NothingAhead
    <3> QED BY <3>1, <3>2, OutsideKeeps, ProceedingKeeps, CrashingForgets, NextByCycle
  <2> QED BY <1>1, <2>1, TakingTakes DEF Resets
<1>7. Older(event.body)'
  <2>1. CASE UNCHANGED event
    BY <1>2, <2>1, OlderLater DEF Older, Noted
  <2>2. CASE event' = NoEvent
    BY <2>2, NewNoted DEF Older, Noted, NoEvent, Event, NewObject
  <2>3. CASE event' \in InFlight
    BY <1>3, <2>3 DEF Older, Noted
  <2> QED BY <1>6, <2>1, <2>2, <2>3
<1> QED BY <1>5, <1>7

(* A deletion handler is run only for a deletion.                          *)
LEMMA DeletingOnly ==
  ASSUME AlwaysProtected, NEW h \in Deleting, h \in Active
  PROVE  Reason = "delete"
BY DEF AlwaysProtected, Active, Selected

LEMMA RecordsNoted ==
  ASSUME AlwaysProtected, TInv, SInv, Next
  PROVE  Noted(state)' /\ Noted(patch.progress)'
<1>1. /\ ClusterOK /\ StreamOK /\ MemoryOK /\ EventOK /\ CycleOK /\ NothingAhead /\ PlanIsActive
      /\ Noted(state) /\ Noted(patch.progress) /\ Noted(event.body.progress)
  BY DEF TInv, Types, SInv, AllOlder, Older
<1>2. ended \subseteq ended'
  BY EndedGrows
<1>3. /\ \A h \in Deleting \cap DOMAIN state : Finished(state[h]) => HasEnded(h)'
      /\ \A h \in Deleting \cap DOMAIN patch.progress : Finished(patch.progress[h]) => HasEnded(h)'
  BY <1>1, <1>2, NotedLater
<1>4. UNCHANGED state => Noted(state)'
  BY <1>3 DEF Noted
<1>5. UNCHANGED patch => Noted(patch.progress)'
  BY <1>3 DEF Noted
<1>6. (\A h \in DOMAIN patch'.progress : patch'.progress[h] = NoRecord) => Noted(patch.progress)'
  BY NewNoted DEF Noted
<1>7. Resets => Noted(state)' /\ Noted(patch.progress)'
  BY DEF Resets, NoPatch, NoProgress, Noted
<1>8. CASE Outside \/ Proceeding
  BY <1>4, <1>5, <1>8, OutsideKeeps, ProceedingKeeps
<1>9. CASE Ending \/ Crash
  <2>1. Ending => Resets
    BY <1>1, EndingEnds DEF Ends, NothingAhead
  <2> QED BY <1>7, <1>9, <2>1, CrashingForgets
<1>10. CASE Deciding
  <2>1. event \in Events /\ event.type # "DELETED"
    BY <1>1, <1>10 DEF Deciding, SkipHandlers, FinishHandling, EventOK
  <2>2. CASE SkipHandlers
    <3>1. UNCHANGED state /\ patch'.progress = NoProgress
      BY <1>1, <2>1, <2>2, SkippingDecides
    <3> QED BY <1>4, <1>6, <3>1 DEF NoProgress
  <2>3. CASE FinishHandling
    <3>1. /\ UNCHANGED state
          /\ \A h \in DOMAIN patch'.progress :
               \/ h \in DOMAIN patch.progress /\ patch'.progress[h] = patch.progress[h]
               \/ h \in DOMAIN state /\ patch'.progress[h] = state[h]
               \/ patch'.progress[h] = NoRecord
      BY <1>1, <2>1, <2>3, FinishingDecides
    <3>2. Noted(patch.progress)'
      BY <1>3, <3>1, NewNoted DEF Noted
    <3> QED BY <1>4, <3>1, <3>2
  <2> QED BY <1>10, <2>2, <2>3 DEF Deciding
<1>11. CASE Running
  <2>1. PICK g \in Handlers, status \in {"success", "failure", "retry"} : RunHandler(g, status)
    BY <1>11 DEF Running
  <2>2. event \in Events
    BY <1>1, <2>1 DEF RunHandler, EventOK
  <2>3. /\ UNCHANGED patch /\ g \in Active
        /\ DOMAIN state' = DOMAIN state /\ state'[g].status = status
        /\ \A h \in DOMAIN state : h # g => state'[h] = state[h]
        /\ IF status = "retry" THEN ended' = ended
           ELSE ended' = ended \cup {<<g, Reason, event.body.gen>>}
    BY <1>1, <2>1, <2>2, RunningRuns
  <2>4. g \in Deleting /\ status # "retry" => HasEnded(g)'
    <3>1. ASSUME g \in Deleting, status # "retry"
          PROVE  <<g, "delete", event.body.gen>> \in ended'
      BY <2>3, <3>1, DeletingOnly
    <3> QED BY <3>1 DEF HasEnded
  <2>5. Noted(state)'
    BY <1>3, <2>3, <2>4 DEF Noted, Finished
  <2> QED BY <1>5, <2>3, <2>5
<1>12. CASE Merging
  BY <1>1, <1>4, <1>5, <1>12, MergingMerges
<1>13. CASE StartHandling
  <2>1. event \in Events
    BY <1>1, <1>13 DEF StartHandling, EventOK
  <2>2. /\ state' = StartState
        /\ \A h \in DOMAIN patch'.progress : patch'.progress[h] = NoRecord
    BY <1>1, <1>13, <2>1, StartingStarts
  <2>3. event.body.progress \in [Handlers -> Records]
    BY <2>1 DEF Events, Objects, Bodies
  <2>4. ASSUME NEW h \in Deleting, h \in DOMAIN StartState, Finished(StartState[h])
        PROVE  HasEnded(h)'
    <3>1. h \in Handlers /\ event.body.progress[h] \in Records
      BY <2>3, Constants
    <3>2. StartState[h].status \in {"pending", event.body.progress[h].status}
      BY <2>4, <3>1 DEF StartState, Record, Records
    <3>3. Finished(event.body.progress[h])
      BY <2>4, <3>2 DEF Finished
    <3> QED BY <1>1, <1>2, <2>3, <3>1, <3>3, NotedLater
  <2> QED BY <1>6, <2>2, <2>4 DEF Noted
<1>14. CASE TakeEvent
  BY <1>1, <1>4, <1>5, <1>14, TakingTakes
<1> QED BY <1>8, <1>9, <1>10, <1>11, <1>12, <1>13, <1>14, NextByCycle

(* The release is decided when all deletion handlers have finished.        *)
LEMMA ReleaseIsLast ==
  ASSUME AlwaysProtected, TInv, SInv, event \in Events, event.type # "DELETED",
         phase = "handling", event.body.deleting, event.body.finalizer, Unfinished = {}
  PROVE  object.deleting /\ DeletionHandlersEnded
<1>1. Reason = "delete" /\ Active = Deleting
  <2>1. Reason = "delete"
    BY DEF Reason
  <2>2. Selected = Deleting
    BY <2>1 DEF Selected
  <2> QED BY <2>1, <2>2, SelectedType
<1>2. Active \subseteq DOMAIN state
  BY DEF TInv, PlanIsActive
<1>3. \A h \in Deleting : Finished(state[h]) /\ h \in DOMAIN state
  BY <1>1, <1>2 DEF Unfinished
<1>4. \A h \in Deleting : HasEnded(h)
  BY <1>3 DEF SInv, AllOlder, Noted
<1> QED BY <1>4 DEF SInv, AllOlder, Older, HasEnded, DeletionHandlersEnded

LEMMA AllowedLater ==
  ASSUME AlwaysProtected, Deleting # {}, TInv, SInv, Next
  PROVE  AllowedLast'
<1>1. /\ ClusterOK /\ StreamOK /\ MemoryOK /\ EventOK /\ CycleOK /\ NothingAhead /\ PlanIsActive
      /\ AllowedLast
  BY DEF TInv, Types, SInv
<1>2. ended \subseteq ended' /\ (object.deleting => object'.deleting)
  BY EndedGrows, ObjectProtected
<1>3. object.deleting /\ DeletionHandlersEnded => object'.deleting /\ DeletionHandlersEnded'
  BY <1>2 DEF DeletionHandlersEnded
<1>4. memory'.remaining = "allow" => object.deleting /\ DeletionHandlersEnded
  BY <1>1, MemoryMoves DEF AllowedLast
<1>5. patch'.fin = "allow" => object.deleting /\ DeletionHandlersEnded
  <2>1. UNCHANGED patch \/ Resets => (patch'.fin = "allow" => object.deleting /\ DeletionHandlersEnded)
    BY <1>1 DEF AllowedLast, Resets, NoPatch
  <2>2. CASE Outside \/ Proceeding
    BY <2>1, <2>2, OutsideKeeps, ProceedingKeeps
  <2>3. CASE Ending \/ Crash
    <3>1. Ending => Resets
      BY <1>1, EndingEnds DEF Ends, NothingAhead
    <3> QED BY <2>1, <2>3, <3>1, CrashingForgets
  <2>4. CASE Running
    BY <2>1, <2>4 DEF Running, RunHandler
  <2>5. CASE Merging
    BY <1>1, <2>1, <2>5, MergingMerges
  <2>6. CASE TakeEvent
    BY <1>1, <2>1, <2>6, TakingTakes
  <2>7. CASE StartHandling
    <3>1. event \in Events
      BY <1>1, <2>7 DEF StartHandling, EventOK
    <3>2. patch'.fin = PatchOnEntry.fin
      BY <1>1, <2>7, <3>1, StartingStarts
    <3> QED BY <1>1, <3>1, <3>2, Causes DEF AllowedLast
  <2>8. CASE Deciding
    <3>1. event \in Events /\ event.type # "DELETED"
      BY <1>1, <2>8 DEF Deciding, SkipHandlers, FinishHandling, EventOK
    <3>2. CASE SkipHandlers
      BY <1>1, <3>1, <3>2, SkippingDecides, Causes DEF AllowedLast
    <3>3. CASE FinishHandling
      <4>1. /\ phase = "handling"
            /\ \/ patch'.fin = patch.fin
               \/ event.body.deleting /\ event.body.finalizer /\ Unfinished = {}
        BY <1>1, <3>1, <3>3, FinishingDecides
      <4> QED BY <1>1, <3>1, <4>1, ReleaseIsLast DEF AllowedLast
    <3> QED BY <2>8, <3>2, <3>3 DEF Deciding
  <2> QED BY <2>2, <2>3, <2>4, <2>5, <2>6, <2>7, <2>8, NextByCycle
<1> QED BY <1>3, <1>4, <1>5 DEF AllowedLast

LEMMA ProtectedLater ==
  ASSUME AlwaysProtected, Deleting # {}, TInv, SInv, Next
  PROVE  ProtectedFirst'
<1>1. /\ ClusterOK /\ StreamOK /\ MemoryOK /\ EventOK /\ CycleOK /\ NothingAhead /\ PlanIsActive
      /\ ProtectedFirst /\ Older(event.body)
  BY DEF TInv, Types, SInv, AllOlder
<1>2. object.finalizer => object'.finalizer
  BY ObjectProtected
<1>3. HasCause /\ event \in Events => event.body.finalizer
  BY <1>1, Causes DEF Older
<1> DEFINE Here == phase' \in {"inconsistent", "handling"} => event'.body.finalizer
           Ended == ended' # {} => object'.finalizer
<1>4. UNCHANGED ended => Ended
  BY <1>1, <1>2 DEF ProtectedFirst
<1>5. UNCHANGED <<phase, event>> => Here
  BY <1>1 DEF ProtectedFirst
<1>6. CASE Outside
  BY <1>4, <1>5, <1>6, OutsideKeeps DEF ProtectedFirst
<1>7. CASE Ending \/ Crash
  <2>1. (Ending => Resets /\ UNCHANGED ended) /\ (Resets => phase' = "idle")
    BY <1>1, EndingEnds DEF Ends, Resets, NothingAhead
  <2> QED BY <1>4, <1>7, <2>1, CrashingForgets DEF ProtectedFirst
<1>8. CASE Proceeding
  <2>1. event \in Events
    BY <1>1, <1>8, ProceedingKeeps DEF EventOK
  <2> QED BY <1>3, <1>4, <1>8, <2>1, ProceedingKeeps DEF ProtectedFirst
<1>9. CASE Running
  <2>1. /\ UNCHANGED <<phase, event>> /\ phase = "handling"
    BY <1>9 DEF Running, RunHandler
  <2>2. object'.finalizer
    BY <1>1, <1>2, <2>1 DEF ProtectedFirst, Older
  <2> QED BY <1>5, <2>1, <2>2 DEF ProtectedFirst
<1>10. CASE Merging
  BY <1>1, <1>4, <1>10, MergingMerges DEF ProtectedFirst
<1>11. CASE TakeEvent
  BY <1>1, <1>4, <1>11, TakingTakes DEF ProtectedFirst
<1>12. CASE StartHandling
  <2>1. event \in Events
    BY <1>1, <1>12 DEF StartHandling, EventOK
  <2>2. /\ UNCHANGED <<event, ended>> /\ phase \in {"detecting", "inconsistent"}
        /\ phase = "detecting" => HasCause
    BY <1>1, <1>12, <2>1, StartingStarts
  <2>3. event.body.finalizer
    BY <1>1, <1>3, <2>1, <2>2 DEF ProtectedFirst
  <2> QED BY <1>4, <2>2, <2>3 DEF ProtectedFirst
<1>13. CASE Deciding
  <2>1. event \in Events /\ event.type # "DELETED"
    BY <1>1, <1>13 DEF Deciding, SkipHandlers, FinishHandling, EventOK
  <2>2. phase' = "patching" /\ UNCHANGED ended
    BY <1>1, <1>13, <2>1, SkippingDecides, FinishingDecides DEF Deciding
  <2> QED BY <1>4, <2>2 DEF ProtectedFirst
<1> QED BY <1>6, <1>7, <1>8, <1>9, <1>10, <1>11, <1>12, <1>13, NextByCycle

LEMMA InitProtected == Init => SInv
<1> SUFFICES ASSUME Init PROVE SInv
  OBVIOUS
<1>1. \E e \in Essences, d \in Essences \cup {0}, f \in BOOLEAN, t \in {"listed", "changed"} :
        object = NewObject(e, d, f) /\ wire = <<Event(t, object)>>
  BY DEF Init
<1>2. PICK e \in Essences, d \in Essences \cup {0}, f \in BOOLEAN, t \in {"listed", "changed"} :
        object = NewObject(e, d, f) /\ wire = <<Event(t, object)>>
  BY <1>1
<1>3. /\ event = NoEvent /\ backlog = <<>> /\ state = NoProgress /\ patch = NoPatch
      /\ memory.remaining = "keep" /\ phase = "idle" /\ ended = {}
  BY DEF Init, Forgotten
<1>4. \A b, c, g : Noted(NewObject(b, c, g).progress)
  BY NewNoted DEF NewObject, Noted
<1>5. Older(object)
  BY <1>2, <1>4 DEF Older, NewObject
<1>6. Older(event.body)
  BY <1>3, <1>4 DEF Older, NoEvent, Event, NewObject
<1>7. \A x \in InFlight : Older(x.body)
  <2>1. InFlight = {Event(t, object)}
    BY <1>2, <1>3, ShortElements DEF InFlight
  <2> QED BY <1>5, <2>1 DEF Event
<1>8. AllOlder
  BY <1>3, <1>5, <1>6, <1>7, NewNoted DEF AllOlder, NoPatch
<1> QED BY <1>3, <1>8 DEF SInv, AllowedLast, ProtectedFirst, NoPatch

LEMMA NextProtected ==
  ASSUME AlwaysProtected, Deleting # {}, TInv, SInv, [Next]_vars
  PROVE  SInv'
<1>1. CASE UNCHANGED vars
  <2>1. UNCHANGED <<object, wire, backlog, event, state, patch, memory, phase, ended>>
    BY <1>1 DEF vars
  <2>2. AllOlder'
    BY <2>1 DEF SInv, AllOlder, InFlight, Older, Noted, HasEnded
  <2>3. AllowedLast'
    BY <2>1 DEF SInv, AllowedLast, DeletionHandlersEnded
  <2>4. ProtectedFirst'
    BY <2>1 DEF SInv, ProtectedFirst
  <2> QED BY <2>2, <2>3, <2>4 DEF SInv
<1>2. CASE Next
  <2>1. AllOlder'
    BY <1>2, ObjectProtected, EventsOlder, RecordsNoted DEF AllOlder
  <2> QED BY <1>2, <2>1, AllowedLater, ProtectedLater DEF SInv
<1> QED BY <1>1, <1>2

(* How the object may go away: by the request of its deletion if nothing   *)
(* blocks it, or with the removal of its finalizer by the operator.        *)
LEMMA Removals ==
  ASSUME TInv, Next, alive, ~alive'
  PROVE  (~object.finalizer /\ ~object.deleting) \/ patch.fin = "allow"
<1>1. ~ClusterKept /\ ~TakeEvent /\ ~Arrive /\ ~Relist /\ ~Crash /\ ~Edit /\ ~Touch
  BY Kept DEF TakeEvent, Arrive, Relist, Crash, Edit, Touch, Commit, clusterVars
<1>2. ~PatchMerge
  BY DEF PatchMerge, Commit, clusterVars
<1>3. CASE RequestDeletion
  BY <1>3 DEF RequestDeletion, Commit
<1>4. CASE PatchJSON \/ PatchRepeated
  <2>1. HasOps /\ ApplyFinalizer
    BY <1>4 DEF PatchJSON, PatchRepeated
  <2>2. patch.fin # "block"
    BY <2>1 DEF ApplyFinalizer, Commit
  <2> QED BY <2>1, <2>2 DEF HasOps
<1> QED BY <1>1, <1>2, <1>3, <1>4, NextKept

LEMMA ReleasedLast ==
  ASSUME AlwaysProtected, TInv, SInv, Deleting # {}, Next, alive, ~alive',
         object.deleting \/ ended # {}
  PROVE  DeletionHandlersEnded
BY Removals DEF SInv, AllowedLast, ProtectedFirst, AllOlder, Older

LEMMA Protected ==
  ASSUME AlwaysProtected, Deleting # {}
  PROVE  Spec => [](TInv /\ SInv)
<1>1. Init => TInv /\ SInv
  BY InitTypes, InitProtected
<1>2. TInv /\ SInv /\ [Next]_vars => (TInv /\ SInv)'
  BY NextTypes, NextProtected
<1> QED BY <1>1, <1>2, PTL DEF Spec

(* An object whose deletion was blocked is released only after all its     *)
(* deletion handlers have finished: whatever is seen late, lost, repeated, *)
(* or left over from a conflict (apply() with the fns of the patch, and    *)
(* process_changing_cause()).  For objects that always match: those which  *)
(* cease to match are released at once, as they should be; and for         *)
(* handlers which are for nothing else than deletion, since a success      *)
(* stored for another cause would count for the deletion when re-purposed. *)
THEOREM DeletionsAreHandled ==
  ASSUME AlwaysProtected
  PROVE  Spec => DeletionIsHandled
<1>1. CASE Deleting = {}
  <2>1. Released /\ object.deleting => DeletionHandlersEnded
    BY <1>1, Unneeded
  <2> QED BY <2>1, PTL DEF DeletionIsHandled
<1>2. CASE Deleting # {}
  <2>1. TInv /\ SInv /\ [Next]_vars => [Released /\ object.deleting => DeletionHandlersEnded]_vars
    BY <1>2, ReleasedLast DEF Released, vars
  <2>2. Spec => [](TInv /\ SInv)
    BY <1>2, Protected
  <2> QED BY <2>1, <2>2, PTL DEF Spec, DeletionIsHandled
<1> QED BY <1>1, <1>2

(* An object for which any handler has finished does not go away before    *)
(* its deletion handlers have finished: no handler is run before the       *)
(* finalizer is there (process_resource_causes() adds it and drops the     *)
(* causes of the cycle), and it is there until all of them have finished.  *)
THEOREM HandledAreProtected ==
  ASSUME AlwaysProtected
  PROVE  Spec => HandledIsProtected
<1>1. CASE Deleting = {}
  <2>1. Released /\ ended # {} => DeletionHandlersEnded
    BY <1>1, Unneeded
  <2> QED BY <2>1, PTL DEF HandledIsProtected
<1>2. CASE Deleting # {}
  <2>1. TInv /\ SInv /\ [Next]_vars => [Released /\ ended # {} => DeletionHandlersEnded]_vars
    BY <1>2, ReleasedLast DEF Released, vars
  <2>2. Spec => [](TInv /\ SInv)
    BY <1>2, Protected
  <2> QED BY <2>1, <2>2, PTL DEF Spec, HandledIsProtected
<1> QED BY <1>1, <1>2

-----------------------------------------------------------------------------
(* The order of what is seen of the object: the sequences.                 *)

LEMMA FollowsItself == \A a \in Seen : Follows(a, a)
BY DEF Follows, Seen, Bodies

LEMMA FollowsFurther ==
  ASSUME NEW a \in Seen, NEW b \in Seen, NEW c \in Seen, Follows(a, b), Follows(b, c)
  PROVE  Follows(a, c)
<1>1. /\ a.version \in Nat /\ b.version \in Nat /\ c.version \in Nat
      /\ a.gen \in Nat /\ b.gen \in Nat /\ c.gen \in Nat
  BY DEF Seen, Bodies
<1>2. a.version = c.version => a.version = b.version /\ b.version = c.version
  BY <1>1 DEF Follows
<1>3. a.gen = c.gen => a.gen = b.gen /\ b.gen = c.gen
  BY <1>1 DEF Follows
<1> QED BY <1>1, <1>2, <1>3 DEF Follows

LEMMA SeenObjects == /\ Objects \subseteq Seen
                     /\ \A e \in Events : e.body \in Objects /\ e.body \in Seen
BY DEF Objects, Seen, Bodies, Events

LEMMA SortedAppend ==
  ASSUME NEW S, NEW s \in Seq(S), NEW e \in S, Sorted(s),
         \A x \in Elements(s) : Follows(x.body, e.body)
  PROVE  Sorted(Append(s, e)) /\ Append(s, e) # <<>> /\ Append(s, e)[Len(Append(s, e))] = e
<1>1. /\ Len(Append(s, e)) = Len(s) + 1 /\ Len(s) \in Nat
      /\ \A i \in 1 .. Len(s) : Append(s, e)[i] = s[i] /\ s[i] \in Elements(s)
      /\ Append(s, e)[Len(s) + 1] = e
  BY DEF Elements
<1>2. Append(s, e) # <<>>
  OBVIOUS
<1> DEFINE t == Append(s, e)
<1>3. ASSUME NEW i \in 1 .. Len(t), NEW j \in 1 .. Len(t), i < j PROVE Follows(t[i].body, t[j].body)
  <2> HIDE DEF t
  <2>1. CASE j = Len(s) + 1
    BY <1>1, <1>3, <2>1 DEF t
  <2>2. CASE j # Len(s) + 1
    <3>1. i \in 1 .. Len(s) /\ j \in 1 .. Len(s)
      BY <1>1, <1>3, <2>2 DEF t
    <3> QED BY <1>1, <1>3, <3>1 DEF t, Sorted
  <2> QED BY <2>1, <2>2
<1> QED BY <1>1, <1>2, <1>3 DEF Sorted

LEMMA SortedTail ==
  ASSUME NEW S, NEW s \in Seq(S), s # <<>>, Sorted(s)
  PROVE  /\ Sorted(Tail(s)) /\ \A x \in Elements(Tail(s)) : Follows(Head(s).body, x.body)
         /\ Tail(s) # <<>> => Tail(s)[Len(Tail(s))] = s[Len(s)]
         /\ Tail(s) = <<>> => Head(s) = s[Len(s)]
<1>1. /\ Len(Tail(s)) = Len(s) - 1 /\ Len(s) \in Nat \ {0} /\ Head(s) = s[1]
      /\ \A i \in 1 .. Len(s) - 1 : Tail(s)[i] = s[i + 1]
  OBVIOUS
<1>2. Tail(s) = <<>> <=> Len(s) = 1
  <2>1. Tail(s) \in Seq(S)
    OBVIOUS
  <2>2. Tail(s) = <<>> <=> Len(Tail(s)) = 0
    BY <2>1, EmptySeq
  <2> QED BY <1>1, <2>2
<1>3. Tail(s) # <<>> => Len(s) > 1
  BY <1>1, <1>2
<1> DEFINE t == Tail(s)
<1>4. \A i \in 1 .. Len(t) : i + 1 \in 1 .. Len(s) /\ 1 \in 1 .. Len(s) /\ t[i] = s[i + 1] /\ 1 < i + 1
  BY <1>1
<1> HIDE DEF t
<1>5. Sorted(t)
  BY <1>1, <1>4 DEF Sorted, t
<1>6. \A x \in Elements(t) : Follows(Head(s).body, x.body)
  BY <1>1, <1>4 DEF Sorted, Elements
<1> QED BY <1>1, <1>2, <1>3, <1>5, <1>6 DEF t

LEMMA SortedShort == Sorted(<<>>) /\ \A e : Sorted(<<e>>) /\ <<e>> # <<>> /\ <<e>>[Len(<<e>>)] = e
BY DEF Sorted

-----------------------------------------------------------------------------
(* How the object changes: its progress and its diffbase by the operator's *)
(* merge-patches only; anything else as others want it, or its finalizer.  *)

Similar(o) ==
  /\ o \in Objects /\ o.version = object.version /\ SameRecords(o, object)
  /\ \/ o.gen = object.gen /\ o.essence = object.essence /\ o.deleting = object.deleting
     \/ o.gen = object.gen + 1
  /\ object.deleting => o.deleting
  /\ Blocked(object) => Blocked(o)

LEMMA FinalizerSteps ==
  ASSUME ClusterOK, CycleOK, HasOps, IsAccepted, ApplyFinalizer
  PROVE  Remove \/ \E o : Similar(o) /\ Commit(o)
<1>1. object \in Objects
  BY DEF ClusterOK
<1>2. CASE patch.fin = "block"
  <2> DEFINE o == [object EXCEPT !.finalizer = TRUE]
  <2>1. Similar(o)
    BY <1>1 DEF Similar, SameRecords, Blocked, Objects, Bodies
  <2> QED BY <1>2, <2>1 DEF ApplyFinalizer
<1>3. CASE patch.fin = "allow" /\ ~object.deleting
  <2> DEFINE o == [object EXCEPT !.finalizer = FALSE]
  <2>1. Similar(o)
    BY <1>1, <1>3 DEF Similar, SameRecords, Blocked, Objects, Bodies
  <2> QED BY <1>3, <2>1 DEF ApplyFinalizer
<1> QED BY <1>2, <1>3 DEF HasOps, ApplyFinalizer

LEMMA StreamSteps ==
  ASSUME ClusterOK, CycleOK, Next
  PROVE  \/ UNCHANGED <<object, alive, wire, backlog>>
         \/ Arrive \/ Relist \/ Crash \/ TakeEvent
         \/ UNCHANGED backlog /\ Remove
         \/ UNCHANGED backlog /\ \E o : Similar(o) /\ Commit(o)
         \/ UNCHANGED backlog /\ PatchMerge /\ Commit(Merged(object, patch))
<1>0. object \in Objects
  BY DEF ClusterOK
<1>1. CASE ClusterKept BY <1>1, Kept
<1>2. CASE Edit
  <2>1. PICK e \in Essences : Commit([object EXCEPT !.essence = e, !.gen = @ + 1])
    BY <1>2 DEF Edit
  <2>2. Similar([object EXCEPT !.essence = e, !.gen = @ + 1])
    BY <1>0, GenGrows DEF Similar, SameRecords, Blocked, Objects, Bodies
  <2> QED BY <1>2, <2>1, <2>2 DEF Edit, streamVars
<1>3. CASE RequestDeletion
  <2> DEFINE o == [object EXCEPT !.deleting = TRUE, !.gen = @ + 1]
  <2>1. object.finalizer => Similar(o)
    BY <1>0, GenGrows DEF Similar, SameRecords, Blocked, Objects, Bodies
  <2>2. (IF object.finalizer THEN Commit(o) ELSE Remove) /\ UNCHANGED backlog
    BY <1>3 DEF RequestDeletion, streamVars
  <2> QED BY <2>1, <2>2
<1>4. CASE PatchMerge
  BY <1>4 DEF PatchMerge, clusterVars, streamVars
<1>5. CASE PatchJSON BY <1>5, FinalizerSteps DEF PatchJSON
<1>6. CASE PatchRepeated BY <1>6, FinalizerSteps DEF PatchRepeated
<1>7. CASE Touch
  <2>1. Similar([object EXCEPT !.dummy = TRUE])
    BY <1>0 DEF Similar, SameRecords, Blocked, Objects, Bodies
  <2> QED BY <1>7, <2>1 DEF Touch, clusterVars
<1> QED BY <1>1, <1>2, <1>3, <1>4, <1>5, <1>6, <1>7, NextKept

(* A merge-patch touches only what it has.                                 *)
LEMMA MergedMore ==
  ASSUME NEW o \in Objects, NEW p, IsPatch(p)
  PROVE  /\ Merged(o, p).essence = o.essence
         /\ Merged(o, p).diffbase = IF p.diffbase # 0 THEN p.diffbase ELSE o.diffbase
         /\ Merged(o, p).diffgen = IF p.diffbase # 0 THEN p.diffgen ELSE o.diffgen
<1> DEFINE merged == [h \in Handlers |-> IF h \in DOMAIN p.progress
                                           THEN p.progress[h] ELSE o.progress[h]]
<1>1. Merged(o, p) = [o EXCEPT !.progress = merged,
            !.diffbase = IF p.diffbase # 0 THEN p.diffbase ELSE o.diffbase,
            !.diffgen  = IF p.diffbase # 0 THEN p.diffgen ELSE o.diffgen,
            !.spied    = o.spied \/ p.spied,
            !.dummy    = o.dummy /\ ~p.undummy]
  BY DEF Merged, Objects, Bodies
<1> HIDE DEF merged
<1> QED BY <1>1 DEF Objects, Bodies

LEMMA CommitChanges ==
  ASSUME NEW o \in Objects, Commit(o)
  PROVE  /\ object' \in Objects /\ object'.version = o.version + 1
         /\ object'.gen = o.gen /\ object'.essence = o.essence
         /\ object'.deleting = o.deleting /\ object'.finalizer = o.finalizer
         /\ SameRecords(object', o)
         /\ wire' = Append(wire, Event("changed", object')) /\ alive' = alive
<1>1. /\ object' = [o EXCEPT !.version = @ + 1]
      /\ wire' = Append(wire, Event("changed", object')) /\ alive' = alive
  BY DEF Commit
<1>2. o.version + 1 \in Nat
  BY DEF Objects, Bodies
<1> QED BY <1>1, <1>2 DEF Objects, Bodies, SameRecords

LEMMA MergeCommits ==
  ASSUME ClusterOK, CycleOK, Commit(Merged(object, patch))
  PROVE  /\ object' \in Objects /\ object'.version = object.version + 1
         /\ object'.gen = object.gen /\ object'.essence = object.essence
         /\ object'.deleting = object.deleting /\ object'.finalizer = object.finalizer
         /\ SameRecords(object', Merged(object, patch))
         /\ wire' = Append(wire, Event("changed", object')) /\ alive' = alive
         /\ object.diffbase # 0 => object'.diffbase # 0
<1>1. object \in Objects /\ IsPatch(patch)
  BY DEF ClusterOK, CycleOK
<1> DEFINE m == Merged(object, patch)
<1>2. /\ m \in Objects /\ m.version = object.version /\ m.gen = object.gen
      /\ m.deleting = object.deleting /\ m.finalizer = object.finalizer
  BY <1>1, MergedType
<1>3. /\ m.essence = object.essence
      /\ m.diffbase = IF patch.diffbase # 0 THEN patch.diffbase ELSE object.diffbase
  BY <1>1, MergedMore
<1> HIDE DEF m
<1>4. /\ object' \in Objects /\ object'.version = m.version + 1
      /\ object'.gen = m.gen /\ object'.essence = m.essence
      /\ object'.deleting = m.deleting /\ object'.finalizer = m.finalizer
      /\ SameRecords(object', m)
      /\ wire' = Append(wire, Event("changed", object')) /\ alive' = alive
  BY <1>2, CommitChanges DEF m
<1>5. object.diffbase # 0 => object'.diffbase # 0
  BY <1>3, <1>4 DEF SameRecords
<1> QED BY <1>2, <1>3, <1>4, <1>5 DEF m

LEMMA ObjectFollows ==
  ASSUME ClusterOK, CycleOK, Next
  PROVE  /\ object' \in Objects /\ Follows(object, object') /\ (alive' => alive)
         /\ Blocked(object) => Blocked(object')
<1>1. object \in Objects /\ object.version \in Nat /\ object.gen \in Nat
  BY DEF ClusterOK, Objects, Bodies
<1>2. UNCHANGED <<object, alive>> => Follows(object, object')
  BY <1>1, FollowsItself, SeenObjects
<1>3. ASSUME NEW o, Similar(o), Commit(o)
      PROVE  /\ object' \in Objects /\ Follows(object, object') /\ (alive' => alive)
             /\ Blocked(object) => Blocked(object')
  <2>1. o \in Objects
    BY <1>3 DEF Similar
  <2> QED BY <1>1, <1>3, <2>1, CommitChanges DEF Similar, SameRecords, Follows, Blocked
<1>4. CASE Commit(Merged(object, patch))
  BY <1>1, <1>4, MergeCommits DEF Follows, Blocked
<1>5. Arrive \/ Relist \/ Crash \/ TakeEvent => UNCHANGED <<object, alive>>
  BY DEF Arrive, Relist, Crash, TakeEvent, clusterVars
<1>6. Remove => object' = object /\ alive' = FALSE
  BY DEF Remove
<1> QED BY <1>1, <1>2, <1>3, <1>4, <1>5, <1>6, StreamSteps, FollowsItself, SeenObjects

LEMMA RecordsKept ==
  ASSUME ClusterOK, CycleOK, Next, ~PatchMerge
  PROVE  SameRecords(object', object)
<1>1. ASSUME NEW o, Similar(o), Commit(o) PROVE SameRecords(object', object)
  <2>1. o \in Objects
    BY <1>1 DEF Similar
  <2> QED BY <1>1, <2>1, CommitChanges DEF Similar, SameRecords
<1>2. Arrive \/ Relist \/ Crash \/ TakeEvent \/ Remove => UNCHANGED object
  BY DEF Arrive, Relist, Crash, TakeEvent, clusterVars, Remove
<1> QED BY <1>1, <1>2, StreamSteps DEF SameRecords

(* Where the event in processing comes from.                               *)
LEMMA EventSteps ==
  ASSUME Next
  PROVE  /\ phase' # "idle" => TakeEvent \/ (event' = event /\ phase # "idle")
         /\ phase' \in Early => TakeEvent \/ phase \in Early
<1>1. Outside => UNCHANGED <<phase, event>>
  BY OutsideKeeps
<1>2. Ending => phase' = "idle"
  BY DEF Ending, SkipThrottled, BackoffIsOver, AwakenedByEvents, SkipHandlers, FinishHandling,
         Apply, NoPatchJSON, SleepOrEnd, PatchJSON, PatchConflict, PatchRepeated, PatchNotFound,
         AwakenedInSleep, Touch, EndCycle
<1>3. Proceeding => /\ event' = event /\ phase # "idle"
                    /\ phase' \in Early => phase \in Early
  BY DEF Proceeding, ThrottlingIsOver, WaitForConsistency, SleepIsOver, RequestFails, NoPatchJSON,
     SleepOrEnd, cycleVars, Early
<1>4. Deciding => event' = event /\ phase # "idle" /\ phase' = "patching"
  BY DEF Deciding, SkipHandlers, FinishHandling, Apply
<1>5. Running => UNCHANGED <<phase, event>>
  BY DEF Running, RunHandler
<1>6. Merging => event' = event /\ phase # "idle" /\ phase' = "finalizing"
  BY DEF Merging, PatchMerge, NoPatchMerge
<1>7. StartHandling => event' = event /\ phase # "idle" /\ phase' = "handling"
  BY DEF StartHandling
<1>8. Crash => phase' = "idle"
  BY DEF Crash
<1> QED BY <1>1, <1>2, <1>3, <1>4, <1>5, <1>6, <1>7, <1>8, NextByCycle DEF Early

-----------------------------------------------------------------------------
(* The order is kept.                                                      *)

LEMMA InFlightTypes ==
  ASSUME ClusterOK, StreamOK
  PROVE  \A e \in InFlight : e \in Events /\ e.body \in Objects /\ e.body \in Seen
BY SeenObjects DEF ClusterOK, StreamOK, InFlight, Elements

LEMMA FollowsLater ==
  ASSUME ClusterOK, CycleOK, Next, NEW b \in Seen, Follows(b, object)
  PROVE  Follows(b, object')
BY ObjectFollows, SeenObjects, FollowsFurther DEF ClusterOK

(* The new event of the object goes to the end of the line.                *)
LEMMA Appended ==
  ASSUME ClusterOK, StreamOK, CycleOK, Ordered, Next,
         UNCHANGED backlog, NEW e, e.body = object', e \in Events, wire' = Append(wire, e)
  PROVE  /\ Sorted(backlog)' /\ Sorted(wire)'
         /\ \A a \in Elements(backlog)', b \in Elements(wire)' : Follows(a.body, b.body)
         /\ wire' # <<>> /\ wire'[Len(wire')].body = object'
<1>1. \A x \in InFlight : Follows(x.body, e.body)
  BY InFlightTypes, FollowsLater DEF Ordered
<1>2. /\ Sorted(wire)' /\ Elements(wire)' = Elements(wire) \cup {e}
      /\ wire' # <<>> /\ wire'[Len(wire')] = e
  BY <1>1, SortedAppend, AppendElements DEF ClusterOK, Ordered, InFlight
<1>3. Sorted(backlog)' /\ Elements(backlog)' = Elements(backlog)
  BY DEF Ordered, Sorted, Elements
<1> QED BY <1>1, <1>2, <1>3 DEF Ordered, InFlight

LEMMA StreamsOrdered ==
  ASSUME TInv, Ordered, Next
  PROVE  /\ Sorted(backlog)' /\ Sorted(wire)'
         /\ \A a \in Elements(backlog)', b \in Elements(wire)' : Follows(a.body, b.body)
<1> DEFINE Goal == /\ Sorted(backlog)' /\ Sorted(wire)'
                   /\ \A a \in Elements(backlog)', b \in Elements(wire)' : Follows(a.body, b.body)
<1>0. /\ ClusterOK /\ StreamOK /\ CycleOK
      /\ wire \in Seq(Events) /\ backlog \in Seq(Events)
  BY DEF TInv, Types, ClusterOK, StreamOK
<1>1. UNCHANGED <<wire, backlog>> => Goal
  BY DEF Ordered, Sorted, Elements
<1>2. CASE Arrive
  <2>1. wire # <<>> /\ backlog' = Append(backlog, Head(wire)) /\ wire' = Tail(wire)
    BY <1>2 DEF Arrive
  <2>2. /\ Head(wire) \in Elements(wire) /\ Head(wire) \in Events
        /\ Elements(wire)' \subseteq Elements(wire)
        /\ Sorted(wire)' /\ \A x \in Elements(wire)' : Follows(Head(wire).body, x.body)
    BY <1>0, <2>1, TailElements, SortedTail DEF Ordered
  <2>3. Sorted(backlog)' /\ Elements(backlog)' = Elements(backlog) \cup {Head(wire)}
    BY <1>0, <2>1, <2>2, SortedAppend, AppendElements DEF Ordered
  <2> QED BY <2>2, <2>3 DEF Ordered
<1>3. CASE Relist
  <2>1. backlog' = backlog /\ (wire' = <<>> \/ wire' = <<Event("listed", object)>>)
    BY <1>3 DEF Relist, Listing, streamVars
  <2>2. Sorted(wire)' /\ Sorted(backlog)' /\ Elements(wire)' \subseteq {Event("listed", object)}
    BY <2>1, SortedShort, ShortElements DEF Ordered, Sorted
  <2>3. Elements(backlog)' = Elements(backlog) /\ Event("listed", object).body = object
    BY <2>1 DEF Elements, Event
  <2> QED BY <2>2, <2>3 DEF Ordered, InFlight
<1>4. CASE Crash
  <2>1. backlog' = <<>> /\ (wire' = <<>> \/ wire' = <<Event("listed", object)>>)
    BY <1>4 DEF Crash, Listing
  <2> QED BY <2>1, SortedShort, ShortElements
<1>5. CASE TakeEvent
  <2>1. backlog # <<>> /\ backlog' = Tail(backlog) /\ wire' = wire
    BY <1>5 DEF TakeEvent, clusterVars
  <2>2. Sorted(backlog)' /\ Elements(backlog)' \subseteq Elements(backlog)
    BY <1>0, <2>1, TailElements, SortedTail DEF Ordered
  <2>3. Sorted(wire)' /\ Elements(wire)' = Elements(wire)
    BY <2>1 DEF Ordered, Sorted, Elements
  <2> QED BY <2>2, <2>3 DEF Ordered
<1>6. CASE UNCHANGED backlog /\ Remove
  <2>1. object' = object /\ wire' = Append(wire, Event("DELETED", object))
    BY <1>6 DEF Remove
  <2>2. Event("DELETED", object) \in Events /\ Event("DELETED", object).body = object'
    BY <1>0, <2>1 DEF Event, Events, ClusterOK
  <2> QED BY <1>0, <1>6, <2>1, <2>2, Appended
<1>7. ASSUME UNCHANGED backlog, object' \in Objects, wire' = Append(wire, Event("changed", object'))
      PROVE  Goal
  <2>1. Event("changed", object') \in Events /\ Event("changed", object').body = object'
    BY <1>7 DEF Event, Events
  <2> QED BY <1>0, <1>7, <2>1, Appended
<1>8. CASE UNCHANGED backlog /\ \E o : Similar(o) /\ Commit(o)
  BY <1>7, <1>8, CommitChanges DEF Similar
<1>9. CASE UNCHANGED backlog /\ Commit(Merged(object, patch))
  BY <1>0, <1>7, <1>9, MergeCommits
<1> QED BY <1>0, <1>1, <1>2, <1>3, <1>4, <1>5, <1>6, <1>8, <1>9, StreamSteps

LEMMA OrderedLater ==
  ASSUME TInv, Ordered, Next
  PROVE  Ordered'
<1>0. /\ ClusterOK /\ StreamOK /\ CycleOK /\ EventOK /\ object \in Objects
  BY DEF TInv, Types, ClusterOK
<1>1. object' \in Objects /\ Follows(object, object') /\ object \in Seen /\ object' \in Seen
  BY <1>0, ObjectFollows, SeenObjects
<1>2. \A e \in InFlight' : e \in InFlight \/ e.body = object'
  BY <1>0, InFlightMoves
<1>3. \A e \in InFlight' : Follows(e.body, object')
  BY <1>0, <1>1, <1>2, InFlightTypes, FollowsLater, FollowsItself DEF Ordered
<1>5. CASE phase' # "idle" /\ event' = event /\ phase # "idle"
  <2>1. event.body \in Seen
    BY <1>0 DEF EventOK
  <2>2. Follows(event.body, object') /\ \A e \in InFlight : Follows(event.body, e.body)
    BY <1>0, <1>5, <2>1, FollowsLater DEF Ordered
  <2> QED BY <1>2, <1>3, <1>5, <2>2, StreamsOrdered DEF Ordered
<1>6. CASE TakeEvent
  <2>1. /\ backlog # <<>> /\ event' = Head(backlog) /\ backlog' = Tail(backlog)
        /\ wire' = wire /\ object' = object
    BY <1>6 DEF TakeEvent, clusterVars
  <2>2. /\ Head(backlog) \in Elements(backlog)
        /\ \A e \in Elements(Tail(backlog)) : Follows(Head(backlog).body, e.body)
    BY <1>0, <2>1, TailElements, SortedTail DEF StreamOK, Ordered
  <2>3. Follows(event'.body, object') /\ \A e \in InFlight' : Follows(event'.body, e.body)
    BY <2>1, <2>2 DEF Ordered, InFlight, Elements
  <2> QED BY <1>3, <2>3, StreamsOrdered DEF Ordered
<1>7. CASE phase' = "idle"
  BY <1>3, <1>7, StreamsOrdered DEF Ordered
<1> QED BY <1>5, <1>6, <1>7, EventSteps

LEMMA LatestLater ==
  ASSUME TInv, Ordered, Latest, Next
  PROVE  Latest'
<1>0. /\ ClusterOK /\ StreamOK /\ CycleOK /\ EventOK /\ object \in Objects
      /\ wire \in Seq(Events) /\ backlog \in Seq(Events)
  BY DEF TInv, Types, ClusterOK, StreamOK
<1> SUFFICES ASSUME alive'
    PROVE  /\ wire' # <<>> => wire'[Len(wire')].body = object'
           /\ wire' = <<>> /\ backlog' # <<>> => backlog'[Len(backlog')].body = object'
           /\ wire' = <<>> /\ backlog' = <<>> /\ phase' \in Early => event'.body = object'
  BY DEF Latest
<1>1. alive
  BY <1>0, ObjectFollows
<1>2. (phase' # "idle" => TakeEvent \/ (event' = event /\ phase # "idle"))
      /\ (phase' \in Early => TakeEvent \/ phase \in Early)
  BY EventSteps
<1>3. CASE UNCHANGED <<object, alive, wire, backlog>>
  <2>1. ~TakeEvent
    <3>1. TakeEvent => backlog # <<>> /\ backlog' = Tail(backlog)
      BY DEF TakeEvent
    <3>2. backlog # <<>> => Tail(backlog) # backlog
      <4>1. backlog # <<>> => Len(Tail(backlog)) = Len(backlog) - 1 /\ Len(backlog) \in Nat
        BY <1>0
      <4> QED BY <4>1
    <3> QED BY <1>3, <3>1, <3>2
  <2> QED BY <1>1, <1>2, <1>3, <2>1 DEF Latest, Early
<1>4. CASE Arrive
  <2>1. /\ wire # <<>> /\ backlog' = Append(backlog, Head(wire)) /\ wire' = Tail(wire)
        /\ object' = object
    BY <1>4 DEF Arrive
  <2>2. /\ wire' # <<>> => wire'[Len(wire')] = wire[Len(wire)]
        /\ wire' = <<>> => Head(wire) = wire[Len(wire)]
        /\ Head(wire) \in Elements(wire) /\ Head(wire) \in Events
    BY <1>0, <2>1, SortedTail, TailElements DEF Ordered
  <2>3. backlog' # <<>> /\ backlog'[Len(backlog')] = Head(wire)
    BY <1>0, <2>1, <2>2, SortedAppend DEF Ordered
  <2> QED BY <1>1, <2>1, <2>2, <2>3 DEF Latest
<1>5. CASE Relist \/ Crash
  <2>1. wire' = <<Event("listed", object)>> /\ object' = object
    BY <1>1, <1>5 DEF Relist, Crash, Listing
  <2> QED BY <2>1, SortedShort DEF Event
<1>6. CASE TakeEvent
  <2>1. /\ backlog # <<>> /\ event' = Head(backlog) /\ backlog' = Tail(backlog)
        /\ wire' = wire /\ object' = object
    BY <1>6 DEF TakeEvent, clusterVars
  <2>2. /\ backlog' # <<>> => backlog'[Len(backlog')] = backlog[Len(backlog)]
        /\ backlog' = <<>> => Head(backlog) = backlog[Len(backlog)]
    BY <1>0, <2>1, SortedTail DEF Ordered
  <2> QED BY <1>1, <2>1, <2>2 DEF Latest
<1>7. ~Remove
  BY DEF Remove
<1>8. ASSUME UNCHANGED backlog, object' \in Objects, wire' = Append(wire, Event("changed", object'))
      PROVE  wire' # <<>> /\ wire'[Len(wire')].body = object'
  <2>1. Event("changed", object') \in Events /\ Event("changed", object').body = object'
    BY <1>8 DEF Event, Events
  <2> QED BY <1>0, <1>8, <2>1, Appended
<1>9. CASE UNCHANGED backlog /\ \E o : Similar(o) /\ Commit(o)
  BY <1>8, <1>9, CommitChanges DEF Similar
<1>10. CASE UNCHANGED backlog /\ Commit(Merged(object, patch))
  BY <1>0, <1>8, <1>10, MergeCommits
<1> QED BY <1>0, <1>3, <1>4, <1>5, <1>6, <1>7, <1>9, <1>10, StreamSteps

-----------------------------------------------------------------------------
(* What was known to be there remains there: the object until it is gone,  *)
(* and what the handlers have finished for.                                *)

LEMMA GoodbyeLater ==
  ASSUME TInv, Goodbye, Next
  PROVE  Goodbye'
<1>0. /\ ClusterOK /\ StreamOK /\ CycleOK /\ EventOK
      /\ wire \in Seq(Events) /\ backlog \in Seq(Events)
  BY DEF TInv, Types, ClusterOK, StreamOK
<1> SUFFICES ASSUME alive'
    PROVE  /\ \A e \in InFlight' : e.type # "DELETED"
           /\ phase' # "idle" => event'.type # "DELETED"
  BY DEF Goodbye
<1>1. alive
  BY <1>0, ObjectFollows
<1>2. \A e \in InFlight' : e \in InFlight \/ e.type # "DELETED"
  <2>1. UNCHANGED <<wire, backlog>> => InFlight' = InFlight
    BY DEF InFlight, Elements
  <2>2. CASE Arrive
    <3>1. wire # <<>> /\ backlog' = Append(backlog, Head(wire)) /\ wire' = Tail(wire)
      BY <2>2 DEF Arrive
    <3> QED BY <1>0, <3>1, TailElements, AppendElements DEF InFlight
  <2>3. CASE Relist \/ Crash
    <3>1. wire' = <<Event("listed", object)>> /\ (backlog' = backlog \/ backlog' = <<>>)
      BY <1>1, <2>3 DEF Relist, Crash, Listing, streamVars
    <3> QED BY <3>1, ShortElements DEF InFlight, Elements, Event
  <2>4. CASE TakeEvent
    <3>1. backlog # <<>> /\ backlog' = Tail(backlog) /\ wire' = wire
      BY <2>4 DEF TakeEvent, clusterVars
    <3> QED BY <1>0, <3>1, TailElements DEF InFlight, Elements
  <2>5. ~Remove
    BY DEF Remove
  <2>6. ASSUME UNCHANGED backlog, object' \in Objects, wire' = Append(wire, Event("changed", object'))
        PROVE  \A e \in InFlight' : e \in InFlight \/ e.type # "DELETED"
    <3>1. Event("changed", object') \in Events /\ Event("changed", object').type = "changed"
      BY <2>6 DEF Event, Events
    <3>2. Elements(backlog)' = Elements(backlog)
      BY <2>6 DEF Elements
    <3> QED BY <1>0, <2>6, <3>1, <3>2, AppendElements DEF InFlight
  <2>7. CASE UNCHANGED backlog /\ \E o : Similar(o) /\ Commit(o)
    BY <2>6, <2>7, CommitChanges DEF Similar
  <2>8. CASE UNCHANGED backlog /\ Commit(Merged(object, patch))
    BY <1>0, <2>6, <2>8, MergeCommits
  <2> QED BY <1>0, <2>1, <2>2, <2>3, <2>4, <2>5, <2>7, <2>8, StreamSteps
<1>3. CASE phase' # "idle" /\ event' = event /\ phase # "idle"
  BY <1>1, <1>2, <1>3 DEF Goodbye
<1>4. CASE TakeEvent
  <2>1. event' \in InFlight
    BY <1>0, <1>4, TakingTakes
  <2> QED BY <1>1, <1>2, <2>1 DEF Goodbye
<1>5. CASE phase' = "idle"
  BY <1>1, <1>2, <1>5 DEF Goodbye
<1> QED BY <1>3, <1>4, <1>5, EventSteps

LEMMA LaterFollows ==
  ASSUME NEW r, r[3] \in Nat, NEW a \in Seen, NEW b \in Seen, Later(r, a), Follows(a, b)
  PROVE  Later(r, b)
BY DEF Later, Follows, Seen, Bodies

(* Nobody finishes but in the run of a handler.                            *)
LEMMA EndedSteps ==
  ASSUME TInv, Next
  PROVE  \/ UNCHANGED <<ended, resumed>> \/ (UNCHANGED ended /\ Crash)
         \/ /\ Running /\ phase = "handling" /\ phase' = "handling" /\ UNCHANGED event
            /\ UNCHANGED <<object, wire, backlog, alive>>
            /\ \E h \in Active : ended' = ended \cup {<<h, Reason, event.body.gen>>}
                                 /\ resumed' = resumed \cup ({h} \cap Resuming)
<1>1. Outside => UNCHANGED <<ended, resumed>>
  BY DEF Outside, Arrive, Relist, Edit, RequestDeletion, DelayIsOver, ConsistencyTimeout,
     WorkerExits,
     historyVars
<1>2. Ending => UNCHANGED <<ended, resumed>>
  BY DEF Ending, SkipThrottled, BackoffIsOver, AwakenedByEvents, SkipHandlers, FinishHandling,
         NoPatchJSON, PatchJSON, PatchConflict, PatchRepeated, PatchNotFound,
         AwakenedInSleep, Touch, historyVars
<1>3. Proceeding \/ Deciding \/ Merging \/ StartHandling \/ TakeEvent => UNCHANGED <<ended, resumed>>
  BY DEF Proceeding, ThrottlingIsOver, WaitForConsistency, SleepIsOver, RequestFails, NoPatchJSON,
     Deciding, SkipHandlers, FinishHandling, Merging, PatchMerge, NoPatchMerge, StartHandling,
     TakeEvent, historyVars
<1>4. Crash => UNCHANGED ended
  BY DEF Crash
<1>5. CASE Running
  <2>1. PICK h \in Handlers, status \in {"success", "failure", "retry"} : RunHandler(h, status)
    BY <1>5 DEF Running
  <2>2. /\ phase = "handling" /\ UNCHANGED <<phase, event, object, alive, wire, backlog>>
        /\ h \in plan
        /\ \/ UNCHANGED <<ended, resumed>>
           \/ /\ ended' = ended \cup {<<h, Reason, event.body.gen>>}
              /\ resumed' = resumed \cup ({h} \cap Resuming)
    BY <2>1 DEF RunHandler, historyVars, clusterVars, streamVars
  <2>3. h \in Active
    BY <2>2 DEF TInv, PlanIsActive
  <2> QED BY <1>5, <2>2, <2>3
<1> QED BY <1>1, <1>2, <1>3, <1>4, <1>5, NextByCycle

LEMMA EndedIsSeen ==
  ASSUME ClusterOK, NothingAhead
  PROVE  \A r \in ended : r[3] \in Nat /\ r[1] \in Handlers /\ r[2] \in HandlerReasons
BY DEF ClusterOK, NothingAhead, Objects, Bodies

(* Whose turn it is.                                                       *)
LEMMA ReasonsSeen ==
  ASSUME event \in Events, event.type # "DELETED"
  PROVE  /\ Reason \in {"update", "resume"} => event.body.diffbase # 0
         /\ Reason = "delete" <=> event.body.deleting /\ event.body.finalizer
         /\ Reason = "create" <=> ~event.body.deleting /\ event.body.diffbase = 0
         /\ Reason = "update" <=> ~event.body.deleting /\ event.body.diffbase # 0
                                  /\ event.body.diffbase # event.body.essence
         /\ Reason = "resume" => ~event.body.deleting /\ IsInitial /\ event.body.diffbase = event.body.essence
         /\ Active # {} => Reason \in HandlerReasons
<1>1. event.body.essence # 0
  BY Constants DEF Events, Objects, Bodies
<1>2. IsInitial \in BOOLEAN
  BY DEF IsInitial
<1> QED BY <1>1, <1>2 DEF Reason, Active

LEMMA AfterEndedLater ==
  ASSUME TInv, Ordered, AfterEnded, Next
  PROVE  AfterEnded'
<1>0. /\ ClusterOK /\ StreamOK /\ CycleOK /\ EventOK /\ NothingAhead /\ object \in Objects
  BY DEF TInv, Types, ClusterOK
<1>1. object' \in Objects /\ Follows(object, object') /\ object \in Seen /\ object' \in Seen
  BY <1>0, ObjectFollows, SeenObjects
<1>2. \A e \in InFlight' : e \in InFlight \/ e.body = object'
  BY <1>0, InFlightMoves
<1>3. ASSUME NEW r \in ended
      PROVE  /\ Later(r, object')
             /\ \A e \in InFlight' : Later(r, e.body)
             /\ phase' # "idle" => Later(r, event'.body)
  <2>1. Later(r, object')
    BY <1>0, <1>1, <1>3, EndedIsSeen, LaterFollows DEF AfterEnded
  <2>2. \A e \in InFlight' : Later(r, e.body)
    BY <1>2, <1>3, <2>1 DEF AfterEnded
  <2>3. TakeEvent => event' \in InFlight
    BY <1>0, TakingTakes
  <2> QED BY <1>3, <2>1, <2>2, <2>3, EventSteps DEF AfterEnded
<1>4. CASE UNCHANGED ended
  BY <1>3, <1>4 DEF AfterEnded
<1>5. CASE Running /\ phase = "handling" /\ phase' = "handling" /\ UNCHANGED event
           /\ UNCHANGED <<object, wire, backlog>>
           /\ \E h \in Active : ended' = ended \cup {<<h, Reason, event.body.gen>>}
  <2>1. PICK h \in Active : ended' = ended \cup {<<h, Reason, event.body.gen>>}
    BY <1>5
  <2>2. event \in Events /\ event.type # "DELETED" /\ event.body \in Seen /\ event.body.gen \in Nat
    <3>1. event.type # "DELETED"
      BY <2>1 DEF Active, Selected, Reason
    <3> QED BY <1>0, <1>5, <3>1, SeenObjects DEF EventOK, Seen, Bodies
  <2> DEFINE r == <<h, Reason, event.body.gen>>
  <2>3. Later(r, event.body)
    <3>1. Reason = "delete" => h \in Deleting
      BY SelectedType DEF Selected
    <3> QED BY <2>2, <3>1, ReasonsSeen DEF Later
  <2>4. r[3] \in Nat
    BY <2>2
  <2> HIDE DEF r
  <2>5. Later(r, object)
    BY <1>1, <1>5, <2>2, <2>3, <2>4, LaterFollows DEF Ordered
  <2>6. \A e \in InFlight : Later(r, e.body)
    BY <1>0, <1>5, <2>2, <2>3, <2>4, LaterFollows, InFlightTypes DEF Ordered
  <2>7. InFlight' = InFlight
    BY <1>5 DEF InFlight, Elements
  <2> QED BY <1>3, <1>5, <2>1, <2>3, <2>5, <2>6, <2>7 DEF AfterEnded, r
<1> QED BY <1>4, <1>5, EndedSteps

-----------------------------------------------------------------------------
(* The shape of the cycle: its result.                                     *)

(* Which steps lead to which phases.                                       *)
LEMMA PhaseSteps ==
  ASSUME Next
  PROVE  /\ phase' = "handling" => StartHandling \/ Running \/ (Outside /\ phase = "handling")
         /\ phase' = "patching" => Deciding \/ (Outside /\ phase = "patching")
         /\ phase' = "finalizing" => Merging \/ (Outside /\ phase = "finalizing")
         /\ phase' = "inconsistent" => WaitForConsistency \/ (Outside /\ phase = "inconsistent")
         /\ phase' \in Early => TakeEvent \/ ((Outside \/ Proceeding) /\ phase \in Early)
<1>1. Outside => UNCHANGED phase
  BY OutsideKeeps
<1>2. Ending => phase' = "idle"
  BY DEF Ending, SkipThrottled, BackoffIsOver, AwakenedByEvents, SkipHandlers, FinishHandling,
         Apply, NoPatchJSON, SleepOrEnd, PatchJSON, PatchConflict, PatchRepeated, PatchNotFound,
         AwakenedInSleep, Touch, EndCycle
<1>3. Proceeding => /\ phase' \in {"detecting", "inconsistent", "sleeping", "touching", "backoff"}
                    /\ phase' = "inconsistent" => WaitForConsistency
                    /\ phase' \in Early => phase \in Early
  BY DEF Proceeding, ThrottlingIsOver, WaitForConsistency, SleepIsOver, RequestFails, NoPatchJSON,
     SleepOrEnd, Early
<1>4. Deciding => phase' = "patching"
  BY DEF Deciding, SkipHandlers, FinishHandling, Apply
<1>5. Running => phase' = "handling"
  BY DEF Running, RunHandler
<1>6. Merging => phase' = "finalizing"
  BY DEF Merging, PatchMerge, NoPatchMerge
<1>7. StartHandling => phase' = "handling"
  BY DEF StartHandling
<1>8. Crash => phase' = "idle"
  BY DEF Crash
<1>9. TakeEvent => phase' \in {"throttled", "detecting"}
  BY DEF TakeEvent
<1> QED BY <1>1, <1>2, <1>3, <1>4, <1>5, <1>6, <1>7, <1>8, <1>9, NextByCycle DEF Early

LEMMA OutsideLeaves ==
  ASSUME Outside
  PROVE  /\ UNCHANGED <<phase, event, patch, plan, state, fresh, result, memory, ended, resumed>>
         /\ excused \subseteq excused' \/ excused' = Handlers
         /\ UNCHANGED <<expected, deadline>> \/ ConsistencyTimeout \/ WorkerExits
<1>1. UNCHANGED <<resumed>> /\ (excused \subseteq excused' \/ excused' = Handlers)
  BY DEF Outside, Arrive, Relist, Edit, RequestDeletion, DelayIsOver, ConsistencyTimeout,
     WorkerExits,
   historyVars
<1>2. UNCHANGED <<expected, deadline>> \/ ConsistencyTimeout \/ WorkerExits
  BY DEF Outside, Arrive, Relist, Edit, RequestDeletion, DelayIsOver, streamVars
<1> QED BY <1>1, <1>2, OutsideKeeps

LEMMA ResultLater ==
  ASSUME TInv, ResultShape, Next
  PROVE  ResultShape'
<1>0. /\ ClusterOK /\ StreamOK /\ CycleOK /\ EventOK /\ MemoryOK /\ NothingAhead /\ result \in Nat
  BY DEF TInv, Types, CycleOK
<1>1. CASE Outside
  <2>1. /\ UNCHANGED <<phase, patch, state, result>>
        /\ UNCHANGED expected \/ result = 0
    BY <1>1, OutsideLeaves DEF ResultShape, ConsistencyTimeout, WorkerExits
  <2> QED BY <2>1 DEF ResultShape
<1>2. CASE Ending \/ Crash
  <2>1. Resets
    BY <1>0, <1>2, EndingEnds, CrashingForgets DEF Ends, NothingAhead
  <2> QED BY <2>1 DEF ResultShape, Resets
<1>3. CASE Proceeding
  <2>1. UNCHANGED <<patch, state, result, expected>>
    BY <1>3, ProceedingKeeps
  <2>2. /\ phase' \in {"detecting", "inconsistent", "sleeping", "touching", "backoff"}
        /\ phase' \in Early => phase \in Early
        /\ phase' # "backoff" /\ phase = "finalizing" => ~HasMerge(patch)
        /\ phase # "backoff"
    BY <1>3 DEF Proceeding, ThrottlingIsOver, WaitForConsistency, SleepIsOver, RequestFails,
       NoPatchJSON, SleepOrEnd, Early, IsEmpty
  <2> QED BY <2>1, <2>2 DEF ResultShape, Resting
<1>4. CASE Deciding
  <2>1. event \in Events /\ event.type # "DELETED"
    BY <1>0, <1>4 DEF Deciding, SkipHandlers, FinishHandling, EventOK
  <2>2. /\ UNCHANGED <<state, result, expected>> /\ phase' = "patching"
        /\ phase \in {"handling", "detecting"}
    BY <1>0, <1>4, <2>1, SkippingDecides, FinishingDecides DEF Deciding, SkipHandlers
  <2> QED BY <2>2 DEF ResultShape, Resting, Early
<1>5. CASE Running
  <2>1. UNCHANGED <<result, expected, phase>> /\ phase = "handling"
    BY <1>5 DEF Running, RunHandler, streamVars
  <2> QED BY <2>1 DEF ResultShape, Resting, Early
<1>6. CASE PatchMerge
  <2>1. /\ phase' = "finalizing" /\ UNCHANGED <<patch, expected>> /\ result' = object'.version
        /\ HasMerge(patch)
    BY <1>6 DEF PatchMerge, streamVars
  <2>2. expected <= object.version /\ object.version <= object'.version
    BY <1>0, WireMoves DEF NothingAhead
  <2>3. object.version \in Nat /\ object'.version \in Nat /\ (expected \in Nat \/ expected = -1)
    BY <1>0, WireMoves DEF ClusterOK, Objects, Bodies, StreamOK, Never
  <2>4. expected' <= result'
    BY <2>1, <2>2, <2>3
  <2>5. HasMerge(patch)'
    BY <2>1 DEF HasMerge
  <2> QED BY <2>1, <2>4, <2>5 DEF ResultShape, Resting, Early
<1>7. CASE NoPatchMerge
  <2>1. /\ phase' = "finalizing" /\ UNCHANGED <<patch, expected, result>> /\ phase = "patching"
    BY <1>7 DEF NoPatchMerge, streamVars
  <2> QED BY <2>1 DEF ResultShape, Resting, Early
<1>8. CASE StartHandling
  <2>1. /\ UNCHANGED <<result, expected>> /\ phase' = "handling"
        /\ phase \in {"detecting", "inconsistent"}
    BY <1>8 DEF StartHandling, streamVars
  <2> QED BY <2>1 DEF ResultShape, Resting, Early
<1>9. CASE TakeEvent
  <2>1. phase = "idle" /\ UNCHANGED <<result, state>> /\ phase' \in {"throttled", "detecting"}
    BY <1>9 DEF TakeEvent
  <2> QED BY <2>1 DEF ResultShape, Resting, Early
<1> QED BY <1>1, <1>2, <1>3, <1>4, <1>5, <1>6, <1>7, <1>8, <1>9, NextByCycle DEF Merging

-----------------------------------------------------------------------------
(* What is remembered of the object while it is there.                     *)

LEMMA MemorySteps ==
  ASSUME TInv, Goodbye, MemoryShape, alive, Next
  PROVE  /\ Crash => memory' = Forgotten
         /\ TakeEvent => /\ memory'.known
                         /\ \/ memory' = memory
                            \/ memory = Forgotten /\ ~memory'.handled /\ memory'.remaining = "keep"
         /\ \/ Crash \/ TakeEvent
            \/ FinishHandling /\ memory' = [memory EXCEPT !.handled = @ \/ IsDone]
            \/ /\ phase = "finalizing" /\ (NoPatchJSON \/ PatchJSON \/ PatchConflict \/ PatchRepeated)
               /\ \E x \in Functions : memory' = [memory EXCEPT !.remaining = x]
            \/ memory' = memory
<1>0. MemoryOK /\ StreamOK /\ EventOK /\ CycleOK
  BY DEF TInv, Types
<1>1. Outside => UNCHANGED memory
  BY OutsideKeeps
<1>2. Ending => \/ memory' = memory
                \/ FinishHandling /\ event.type = "DELETED"
                \/ /\ phase = "finalizing" /\ (NoPatchJSON \/ PatchJSON \/ PatchConflict \/ PatchRepeated)
                   /\ \E x \in Functions : memory' = [memory EXCEPT !.remaining = x]
  <2>1. ~PatchNotFound
    BY DEF PatchNotFound
  <2>2. SkipThrottled \/ BackoffIsOver \/ AwakenedByEvents \/ SkipHandlers \/ AwakenedInSleep \/ Touch
          => memory' = memory
    BY DEF SkipThrottled, BackoffIsOver, AwakenedByEvents, SkipHandlers, AwakenedInSleep, Touch
  <2>3. NoPatchJSON \/ PatchJSON => phase = "finalizing" /\ memory' = [memory EXCEPT !.remaining = "keep"]
    BY DEF NoPatchJSON, PatchJSON
  <2>4. PatchConflict => phase = "finalizing" /\ memory' = [memory EXCEPT !.remaining = patch.fin]
    BY DEF PatchConflict
  <2>5. PatchRepeated => phase = "finalizing"
             /\ memory' = [memory EXCEPT !.remaining = IF alive' THEN patch.fin ELSE "keep"]
    BY DEF PatchRepeated
  <2>6. patch.fin \in Functions /\ "keep" \in Functions
    BY <1>0 DEF CycleOK, IsPatch, Functions
  <2> QED BY <2>1, <2>2, <2>3, <2>4, <2>5, <2>6 DEF Ending
<1>3. Proceeding => \/ memory' = memory
                    \/ /\ phase = "finalizing" /\ NoPatchJSON
                       /\ \E x \in Functions : memory' = [memory EXCEPT !.remaining = x]
  <2>1. NoPatchJSON => phase = "finalizing" /\ memory' = [memory EXCEPT !.remaining = "keep"]
    BY DEF NoPatchJSON
  <2> QED BY <2>1 DEF Proceeding, ThrottlingIsOver, WaitForConsistency, SleepIsOver,
             RequestFails, Functions
<1>4. Running \/ Merging \/ StartHandling \/ SkipHandlers => memory' = memory
  BY DEF Running, RunHandler, Merging, PatchMerge, NoPatchMerge, StartHandling, SkipHandlers
<1>5. FinishHandling => memory' = [memory EXCEPT !.handled = @ \/ IsDone]
  BY DEF FinishHandling
<1>6. ASSUME TakeEvent
      PROVE  /\ memory'.known
             /\ \/ memory' = memory
                \/ memory = Forgotten /\ ~memory'.handled /\ memory'.remaining = "keep"
  <2>1. Head(backlog).type # "DELETED"
    BY <1>0, <1>6, TailElements DEF TakeEvent, StreamOK, Goodbye, InFlight
  <2>2. memory' = Recalled(memory, Head(backlog).type)
    BY <1>6, <2>1 DEF TakeEvent
  <2>3. memory.known \/ memory = Forgotten
    BY DEF MemoryShape
  <2> QED BY <1>0, <1>6, <2>2, <2>3 DEF Recalled, Forgotten
<1>7. Crash => memory' = Forgotten
  BY DEF Crash
<1> QED BY <1>1, <1>2, <1>3, <1>4, <1>5, <1>6, <1>7, NextByCycle DEF Deciding

LEMMA FinishingIsRemembered ==
  ASSUME MemoryOK, FinishHandling
  PROVE  /\ memory'.known = memory.known /\ memory'.listed = memory.listed
         /\ memory'.remaining = memory.remaining
         /\ memory'.handled = (memory.handled \/ IsDone)
<1>1. memory' = [memory EXCEPT !.handled = @ \/ IsDone]
  BY DEF FinishHandling
<1>2. memory.handled \in BOOLEAN
  BY DEF MemoryOK
<1> QED BY <1>1, <1>2 DEF MemoryOK

LEMMA OnlyResumingRuns ==
  ASSUME event \in Events, NEW h \in Active \cap OnlyResuming, event.type # "DELETED"
  PROVE  Reason \in {"update", "resume"} /\ IsInitial
<1>1. h \notin Creating /\ h \notin Updating /\ h \notin Deleting
  BY DEF OnlyResuming
<1>2. h \in Selected
  BY DEF Active
<1>3. Reason \in {"update", "resume"} /\ (Reason = "update" => IsInitial)
  BY <1>1, <1>2 DEF Selected
<1> QED BY <1>3, ReasonsSeen

LEMMA MemoryShapeLater ==
  ASSUME TInv, Goodbye, MemoryShape, Next
  PROVE  MemoryShape'
<1>0. ClusterOK /\ CycleOK /\ MemoryOK /\ StreamOK /\ EventOK
  BY DEF TInv, Types
<1> SUFFICES ASSUME alive'
    PROVE  /\ memory'.known \/ memory' = Forgotten
           /\ phase' # "idle" => memory'.known
           /\ \A h \in resumed' \cap OnlyResuming :
                memory'.known /\ memory'.listed
                /\ \E r \in ended' : r[1] = h /\ r[2] \in {"update", "resume"}
  BY DEF MemoryShape
<1>1. alive
  BY <1>0, ObjectFollows
<1>2. CASE Crash
  BY <1>2 DEF Crash
<1>3. CASE TakeEvent
  <2>1. UNCHANGED <<resumed, ended>>
    BY <1>3 DEF TakeEvent, historyVars
  <2>2. memory'.known /\ (memory' = memory \/ ~memory.known)
    BY <1>1, <1>3, MemorySteps DEF FinishHandling, TakeEvent, Crash, Forgotten
  <2> QED BY <1>1, <2>1, <2>2 DEF MemoryShape
<1>4. CASE ~Crash /\ ~TakeEvent
  <2>1. /\ memory'.known = memory.known /\ memory'.listed = memory.listed
        /\ memory'.known \/ memory' = memory
    <3>1. \A x : LET m == [memory EXCEPT !.remaining = x]
                 IN m.known = memory.known /\ m.listed = memory.listed
      BY <1>0 DEF MemoryOK
    <3>2. phase = "finalizing" \/ FinishHandling => memory.known
      BY <1>1 DEF MemoryShape, FinishHandling
    <3> QED BY <1>0, <1>1, <1>4, <3>1, <3>2, MemorySteps, FinishingIsRemembered
  <2>2. phase' # "idle" => memory'.known
    BY <1>1, <1>4, <2>1, EventSteps DEF MemoryShape
  <2>3. memory'.known \/ memory' = Forgotten
    BY <1>1, <2>1 DEF MemoryShape
  <2>4. ASSUME NEW h \in resumed' \cap OnlyResuming
        PROVE  memory'.known /\ memory'.listed
                /\ \E r \in ended' : r[1] = h /\ r[2] \in {"update", "resume"}
    <3>1. CASE UNCHANGED <<ended, resumed>>
      BY <1>1, <2>1, <2>4, <3>1 DEF MemoryShape
    <3>2. CASE phase = "handling" /\ \E g \in Active : ended' = ended \cup {<<g, Reason, event.body.gen>>}
                                 /\ resumed' = resumed \cup ({g} \cap Resuming)
      <4>1. PICK g \in Active : ended' = ended \cup {<<g, Reason, event.body.gen>>}
                                 /\ resumed' = resumed \cup ({g} \cap Resuming)
        BY <3>2
      <4>2. CASE h \in resumed
        BY <1>1, <2>1, <2>4, <4>1, <4>2 DEF MemoryShape
      <4>3. CASE h = g
        <5>1. event \in Events /\ event.type # "DELETED"
          BY <1>0, <1>1, <3>2 DEF EventOK, Goodbye
        <5>2. Reason \in {"update", "resume"} /\ IsInitial
          BY <2>4, <4>1, <4>3, <5>1, OnlyResumingRuns
        <5>3. <<g, Reason, event.body.gen>> \in ended'
          BY <4>1
        <5>4. memory.known
          BY <1>1, <3>2 DEF MemoryShape
        <5> QED BY <2>1, <4>3, <5>2, <5>3, <5>4 DEF IsInitial
      <4> QED BY <2>4, <4>1, <4>2, <4>3
    <3> QED BY <1>4, <3>1, <3>2, EndedSteps
  <2> QED BY <2>2, <2>3, <2>4
<1> QED BY <1>2, <1>3, <1>4

-----------------------------------------------------------------------------
(* The shape of the handling and of its patch.                             *)

LEMMA CauseKept ==
  ASSUME UNCHANGED <<event, memory>>
  PROVE  UNCHANGED <<Reason, IsInitial, Selected, Active, Stored, Extras, Purged, HasCause, PatchOnEntry,
                     StartState>>
<1>1. UNCHANGED <<IsInitial, Stored, Purged, HasCause, PatchOnEntry>>
  BY DEF IsInitial, Stored, Purged, HasCause, PatchOnEntry, Blocks, Frees, MustBeBlocked
<1>2. UNCHANGED Reason
  BY <1>1 DEF Reason
<1>3. UNCHANGED Selected
  BY <1>1, <1>2 DEF Selected
<1>4. UNCHANGED Active
  BY <1>2, <1>3 DEF Active
<1>5. UNCHANGED Extras
  BY <1>1, <1>2, <1>4 DEF Extras
<1>6. UNCHANGED StartState
  BY <1>1, <1>2, <1>3 DEF StartState
<1> QED BY <1>1, <1>2, <1>3, <1>4, <1>5, <1>6

(* What is decided to be patched, precisely.                               *)
LEMMA SkippedPatch ==
  ASSUME MemoryOK, event.type # "DELETED", SkipHandlers
  PROVE  /\ patch'.progress = NoProgress /\ patch'.diffbase = 0 /\ patch'.fin = PatchOnEntry.fin
         /\ phase = "detecting"
<1>1. patch' = [PatchOnEntry EXCEPT !.undummy = ~IsEmpty(PatchOnEntry) /\ event.body.dummy]
  BY DEF SkipHandlers, Apply
<1>2. PatchOnEntry.progress = NoProgress /\ PatchOnEntry.diffbase = 0
  BY DEF PatchOnEntry, NoPatch
<1>3. IsPatch(PatchOnEntry)
  BY EntryType
<1> QED BY <1>1, <1>2, <1>3 DEF IsPatch, SkipHandlers

StoredEssence == IsDone /\ event.body.essence # event.body.diffbase

ReleasesNow == event.body.deleting /\ event.body.finalizer /\ Unfinished = {}

Altered == {h \in DOMAIN state : state[h] # event.body.progress[h]}

LEMMA FinishedPatch ==
  ASSUME CycleOK, event \in Events, event.type # "DELETED", HandlingShape, FinishHandling
  PROVE  /\ patch'.fin = IF ReleasesNow THEN "allow" ELSE "keep"
         /\ patch'.diffbase = IF StoredEssence THEN event.body.essence ELSE 0
         /\ StoredEssence => patch'.diffgen = event.body.gen
         /\ patch'.progress = IF Active = {} THEN patch.progress
                              ELSE IF IsDone THEN Purged
                              ELSE [h \in Altered \cup DOMAIN patch.progress |->
                                      IF h \in Altered THEN state[h] ELSE patch.progress[h]]
<1> DEFINE p1 == StoreProgress(patch)
           p2 == StoreEssence(p1)
           p3 == Release(p2)
<1>1. IsPatch(patch) /\ IsPart(state) /\ patch.fin = "keep" /\ patch.diffbase = 0
  BY DEF CycleOK, HandlingShape, FinishHandling
<1>2. IsPatch(p1) /\ p1.fin = "keep" /\ p1.diffbase = 0
  <2>1. IsPatch(p1) /\ p1.fin = "keep"
    BY <1>1, StoreProgressType
  <2>2. p1.diffbase = patch.diffbase
    BY <1>1 DEF StoreProgress, Purge, IsPatch
  <2> QED BY <1>1, <2>1, <2>2
<1>3. p1.progress = IF Active = {} THEN patch.progress
                    ELSE IF IsDone THEN Purged
                    ELSE [h \in Altered \cup DOMAIN patch.progress |->
                            IF h \in Altered THEN state[h] ELSE patch.progress[h]]
  BY <1>1, PurgeType DEF StoreProgress, Altered, Purged, IsPatch
<1> HIDE DEF p1
<1>4. /\ IsPatch(p2) /\ p2.progress = p1.progress /\ p2.fin = "keep"
      /\ p2.diffbase = IF StoredEssence THEN event.body.essence ELSE 0
      /\ StoredEssence => p2.diffgen = event.body.gen
  <2>1. IsPatch(p2) /\ p2.progress = p1.progress /\ p2.fin = "keep"
    BY <1>2, StoreEssenceType
  <2> QED BY <1>2, <2>1 DEF StoreEssence, StoredEssence, IsPatch
<1> HIDE DEF p2
<1>5. /\ IsPatch(p3) /\ p3.progress = p2.progress
      /\ p3.diffbase = p2.diffbase /\ p3.diffgen = p2.diffgen
      /\ p3.fin = IF ReleasesNow THEN "allow" ELSE "keep"
  <2>1. IsPatch(p3)
    BY <1>4, ReleaseType
  <2> QED BY <1>4, <2>1 DEF Release, ReleasesNow, IsPatch
<1> HIDE DEF p3
<1>6. patch' = [p3 EXCEPT !.undummy = ~IsEmpty(p3) /\ event.body.dummy]
  BY DEF FinishHandling, Apply, p1, p2, p3
<1>7. patch'.fin = p3.fin /\ patch'.diffbase = p3.diffbase /\ patch'.diffgen = p3.diffgen
      /\ patch'.progress = p3.progress
  BY <1>5, <1>6 DEF IsPatch
<1> QED BY <1>3, <1>4, <1>5, <1>7

(* What a handling starts with.                                            *)
LEMMA EntryKeeps ==
  ASSUME MemoryOK, HandlingShape, StartHandling
  PROVE  PatchOnEntry.fin = "keep" /\ memory.remaining = "keep"
<1>1. CASE phase = "detecting"
  BY <1>1, EntryType DEF StartHandling, HasCause
<1>2. CASE phase = "inconsistent"
  BY <1>2 DEF HandlingShape, IsEmpty
<1> QED BY <1>1, <1>2 DEF StartHandling

LEMMA StartStateShape ==
  ASSUME event \in Events
  PROVE  /\ DOMAIN StartState = IF Reason \in HandlerReasons THEN Stored \cup Active ELSE {}
         /\ \A h \in DOMAIN StartState :
              /\ h \in Active => StartState[h].purpose = Reason
              /\ h \notin Active => StartState[h] = event.body.progress[h]
              /\ Finished(event.body.progress[h]) <=> Finished(StartState[h])
              /\ h \in Stored \/ h \in Active
              /\ h \in Stored => StartState[h].status = event.body.progress[h].status
         /\ HasExtras <=> Extras
<1>1. event.body.progress \in [Handlers -> Records]
  BY DEF Events, Objects, Bodies
<1>2. Active = Selected /\ Active \subseteq Handlers /\ Stored \subseteq Handlers
  BY SelectedType DEF Stored
<1>3. DOMAIN StartState = IF Reason \in HandlerReasons THEN Stored \cup Active ELSE {}
  BY <1>2 DEF StartState
<1>4. ASSUME NEW h \in DOMAIN StartState
      PROVE /\ h \in Active => StartState[h].purpose = Reason
            /\ h \notin Active => StartState[h] = event.body.progress[h]
            /\ Finished(event.body.progress[h]) <=> Finished(StartState[h])
            /\ h \in Stored \/ h \in Active
            /\ h \in Stored => StartState[h].status = event.body.progress[h].status
  <2>1. /\ Reason \in HandlerReasons /\ h \in Stored \cup Active /\ h \in Handlers
        /\ event.body.progress[h] \in Records
    BY <1>1, <1>2, <1>3, <1>4
  <2>2. StartState[h] = IF h \notin Stored THEN Record("pending", Reason, 0)
                        ELSE IF h \in Active THEN [event.body.progress[h] EXCEPT !.purpose = Reason]
                        ELSE event.body.progress[h]
    BY <1>2, <1>3, <2>1 DEF StartState
  <2>3. h \notin Stored => event.body.progress[h].status = "none"
    BY <2>1 DEF Stored
  <2> QED BY <2>1, <2>2, <2>3 DEF Record, Records, Finished
<1>5. HasExtras <=> Extras
  <2>1. ASSUME NEW h \in DOMAIN StartState, StartState[h].purpose # Reason PROVE Extras
    BY <1>3, <1>4, <2>1 DEF Extras
  <2>2. ASSUME Extras PROVE HasExtras
    <3>1. PICK g \in Stored \ Active : event.body.progress[g].purpose # Reason
      BY <2>2 DEF Extras
    <3>2. g \in DOMAIN StartState
      BY <1>3, <2>2, <3>1 DEF Extras
    <3> QED BY <1>4, <3>1, <3>2 DEF HasExtras
  <2> QED BY <2>1, <2>2 DEF HasExtras
<1> QED BY <1>3, <1>4, <1>5

LEMMA HandlingStarts ==
  ASSUME MemoryOK, EventOK, HandlingShape, StartHandling
  PROVE  HandlingShape'
<1>1. event \in Events /\ UNCHANGED <<event, memory>> /\ phase' = "handling" /\ state' = StartState
  BY DEF EventOK, StartHandling
<1>2. patch' = IF HasExtras THEN Purge(PatchOnEntry) ELSE PatchOnEntry
  BY DEF StartHandling
<1>3. /\ IsPatch(PatchOnEntry) /\ PatchOnEntry.progress = NoProgress /\ PatchOnEntry.diffbase = 0
      /\ PatchOnEntry.fin = "keep"
  BY EntryType, EntryKeeps DEF PatchOnEntry, NoPatch
<1>4. Purge(PatchOnEntry).diffbase = 0 /\ Purge(PatchOnEntry).fin = "keep"
      /\ Purge(PatchOnEntry).progress = Purged
  BY <1>3, PurgeType DEF Purge, IsPatch, Purged
<1>5. plan' \subseteq {h \in Active : Awakened(h, StartState)}
  BY DEF StartHandling, Plans
<1>6. \A h \in plan' : ~Finished(StartState[h])
  BY <1>5 DEF Awakened, Finished
<1>7. patch'.fin = "keep" /\ patch'.diffbase = 0 /\ patch'.progress = IF Extras THEN Purged ELSE NoProgress
  BY <1>1, <1>2, <1>3, <1>4, StartStateShape
<1> QED BY <1>1, <1>6, <1>7, CauseKept, StartStateShape, EntryKeeps DEF HandlingShape

LEMMA HandlingRuns ==
  ASSUME MemoryOK, EventOK, CycleOK, PlanIsActive, HandlingShape, Running
  PROVE  HandlingShape'
<1>1. PICK h \in Handlers, status \in {"success", "failure", "retry"} : RunHandler(h, status)
  BY DEF Running
<1>2. event \in Events
  BY <1>1 DEF RunHandler, EventOK
<1>3. /\ UNCHANGED <<event, patch, memory, phase>>
      /\ phase = "handling" /\ h \in Active /\ DOMAIN state' = DOMAIN state
      /\ \A g \in DOMAIN state : g # h => state'[g] = state[g]
  BY <1>1, <1>2, RunningRuns
<1>4. /\ state'[h] = Record(status, state[h].purpose, state[h].retries + 1)
      /\ h \in DOMAIN state /\ plan' = plan \ {h}
      /\ ~Finished(state[h])
  BY <1>1, <1>3 DEF RunHandler, CycleOK, HandlingShape
<1>5. state'[h].purpose = state[h].purpose
  BY <1>4 DEF Record
<1> DEFINE Shape(g) == /\ g \in Active => state'[g].purpose = Reason
                       /\ g \notin Active => state'[g] = event.body.progress[g]
                       /\ Finished(event.body.progress[g]) => Finished(state'[g])
<1>6. ASSUME NEW g \in DOMAIN state PROVE Shape(g)
  <2>1. CASE g = h
    BY <1>3, <1>4, <1>5, <2>1 DEF HandlingShape
  <2>2. CASE g # h
    BY <1>3, <2>2 DEF HandlingShape
  <2> QED BY <2>1, <2>2
<1>7. \A g \in plan' : ~Finished(state'[g])
  BY <1>3, <1>4 DEF HandlingShape, CycleOK
<1> QED BY <1>3, <1>6, <1>7, CauseKept DEF HandlingShape

LEMMA HandlingLater ==
  ASSUME TInv, HandlingShape, Next
  PROVE  HandlingShape'
<1>0. MemoryOK /\ EventOK /\ CycleOK /\ PlanIsActive
  BY DEF TInv, Types
<1>1. CASE StartHandling
  BY <1>0, <1>1, HandlingStarts
<1>2. CASE Running
  BY <1>0, <1>2, HandlingRuns
<1>3. CASE Outside
  <2>1. UNCHANGED <<phase, event, patch, plan, state, memory>>
    BY <1>3, OutsideLeaves
  <2> QED BY <2>1, CauseKept DEF HandlingShape
<1>4. CASE WaitForConsistency
  <2>1. UNCHANGED <<event, memory>> /\ HasCause /\ IsEmpty(PatchOnEntry) /\ phase' = "inconsistent"
    BY <1>4 DEF WaitForConsistency, cycleVars
  <2>2. memory.remaining = "keep"
    BY <1>0, <2>1, EntryType DEF HasCause, IsEmpty
  <2>3. UNCHANGED IsEmpty(PatchOnEntry)
    BY <2>1, CauseKept
  <2> QED BY <2>1, <2>2, <2>3, CauseKept DEF HandlingShape
<1> QED BY <1>1, <1>2, <1>3, <1>4, PhaseSteps DEF HandlingShape

-----------------------------------------------------------------------------
(* What holds of the object as it was at any time remains true of it.      *)

LEMMA PatchShapeLater ==
  ASSUME TInv, ResultShape, HandlingShape, PatchShape, Next
  PROVE  PatchShape'
<1>0. MemoryOK /\ EventOK /\ CycleOK
  BY DEF TInv, Types
<1>1. CASE Outside
  <2>1. UNCHANGED <<phase, event, patch, state, memory>>
    BY <1>1, OutsideLeaves
  <2> QED BY <2>1 DEF PatchShape, FinalizerOnly
<1>2. CASE Merging
  <2>1. UNCHANGED <<event, patch, memory>> /\ phase = "patching" /\ phase' = "finalizing"
    BY <1>2 DEF Merging, PatchMerge, NoPatchMerge
  <2> QED BY <2>1 DEF PatchShape
<1>3. CASE Deciding
  <2>1. event \in Events /\ event.type # "DELETED"
    BY <1>0, <1>3 DEF Deciding, SkipHandlers, FinishHandling, EventOK
  <2>2. CASE SkipHandlers
    <3>1. UNCHANGED <<event, state, memory>> /\ phase' = "patching" /\ phase = "detecting"
      BY <1>0, <2>1, <2>2, SkippingDecides, SkippedPatch DEF SkipHandlers
    <3>2. patch'.progress = NoProgress /\ patch'.diffbase = 0 /\ patch'.fin = PatchOnEntry.fin
      BY <1>0, <2>1, <2>2, SkippedPatch
    <3>3. state = NoProgress
      BY <3>1 DEF ResultShape, Resting, Early
    <3>4. memory.remaining = "allow" /\ event.body.deleting => PatchOnEntry.fin = "allow"
      BY <1>0, EntryType DEF Blocks
    <3> QED BY <3>1, <3>2, <3>3, <3>4 DEF PatchShape, FinalizerOnly
  <2>3. CASE FinishHandling
    <3>1. UNCHANGED event /\ phase' = "patching" /\ phase = "handling"
      BY <1>0, <2>1, <2>3, FinishingDecides
    <3>2. patch'.fin = IF ReleasesNow THEN "allow" ELSE "keep"
      BY <1>0, <2>1, <2>3, FinishedPatch
    <3>3. memory'.remaining = "keep"
      BY <1>0, <2>3, <3>1, FinishingIsRemembered DEF HandlingShape
    <3> QED BY <3>1, <3>2, <3>3 DEF PatchShape, ReleasesNow
  <2> QED BY <1>3, <2>2, <2>3 DEF Deciding
<1> QED BY <1>1, <1>2, <1>3, PhaseSteps DEF PatchShape

(* It remains sound while more handlers finish.                            *)
LEMMA SoundLater ==
  ASSUME ended \subseteq ended', NEW b, Sound(b)
  PROVE  Sound(b)'
BY DEF Sound, EndedSince, Blocked

(* The records are as they were, while others edit and delete.             *)
LEMMA SoundFollows ==
  ASSUME ended \subseteq ended', NEW a \in Objects, NEW b \in Objects, Sound(a), Follows(a, b),
         SameRecords(a, b), Blocked(b)
  PROVE  Sound(b)'
<1>1. a.gen \in Nat /\ b.gen \in Nat /\ a.diffgen \in Nat /\ b.diffgen \in Nat
  BY DEF Objects, Bodies
<1>2. b.diffgen <= b.gen /\ (b.diffgen = b.gen => b.diffbase = b.essence)
  BY <1>1 DEF Sound, Follows, SameRecords
<1>3. ~b.deleting => ~a.deleting
  BY DEF Follows
<1> QED BY <1>2, <1>3 DEF Sound, SameRecords, EndedSince, Blocked

(* The object, its events and the event in processing.                     *)
LEMMA AllSoundLater ==
  ASSUME TInv, Ordered, AllSound, InPatching, Next
  PROVE  AllSound'
<1>0. /\ ClusterOK /\ StreamOK /\ CycleOK /\ EventOK /\ object \in Objects
      /\ ended \subseteq ended'
  BY EndedGrows DEF TInv, Types, ClusterOK
<1>1. object' \in Objects /\ Follows(object, object') /\ Blocked(object')
  BY <1>0, ObjectFollows DEF AllSound, Sound
<1>2. Sound(object)'
  <2>1. CASE ~PatchMerge
    BY <1>0, <1>1, <2>1, RecordsKept, SoundFollows DEF AllSound, SameRecords
  <2>2. CASE PatchMerge
    <3> DEFINE m == Merged(object, patch)
    <3>1. phase = "patching" /\ alive /\ (object' = m \/ Commit(m)) /\ (object' = object \/ Commit(m))
      BY <2>2 DEF PatchMerge, clusterVars
    <3>2. CASE object' = object
      BY <1>0, <3>2, SoundLater DEF AllSound, Sound, EndedSince, Blocked
    <3>3. CASE Commit(m)
      <4>1. m \in Objects /\ Sound(m)
        BY <1>0, <3>1, MergedType DEF InPatching, Fits, CycleOK
      <4> HIDE DEF m
      <4>2. /\ object' \in Objects /\ object'.gen = m.gen /\ object'.essence = m.essence
            /\ object'.deleting = m.deleting /\ object'.finalizer = m.finalizer
            /\ SameRecords(object', m)
        BY <3>3, <4>1, CommitChanges
      <4> QED BY <1>0, <4>1, <4>2 DEF Sound, SameRecords, EndedSince, Blocked
    <3> QED BY <3>1, <3>2, <3>3
  <2> QED BY <2>1, <2>2
<1>3. \A e \in InFlight' : e \in InFlight \/ e.body = object'
  BY <1>0, InFlightMoves
<1>4. \A e \in InFlight : Sound(e.body)'
  BY <1>0, SoundLater DEF AllSound
<1>5. \A e \in InFlight' : Sound(e.body)'
  BY <1>2, <1>3, <1>4 DEF Sound, EndedSince, Blocked
<1>6. phase' # "idle" => Sound(event.body)'
  <2>1. CASE TakeEvent
    <3>1. event' \in InFlight
      BY <1>0, <2>1, TakingTakes
    <3> QED BY <1>4, <3>1 DEF Sound, EndedSince, Blocked
  <2>2. CASE event' = event /\ phase # "idle"
    <3>1. Sound(event.body)
      BY <2>2 DEF AllSound
    <3> QED BY <1>0, <2>2, <3>1 DEF Sound, EndedSince, Blocked
  <2> QED BY <2>1, <2>2, EventSteps
<1>7. phase' = "finalizing" => Blocked(fresh)' /\ (event'.body.deleting => fresh'.deleting)
  <2>1. CASE Outside /\ phase = "finalizing"
    BY <2>1, OutsideLeaves DEF AllSound, Blocked
  <2>2. CASE PatchMerge
    <3>1. fresh' = object' /\ event' = event /\ phase = "patching"
      BY <2>2 DEF PatchMerge
    <3> QED BY <1>1, <3>1 DEF Ordered, Follows, Blocked
  <2>3. CASE NoPatchMerge
    <3>1. fresh' = event.body /\ event' = event /\ phase = "patching"
      BY <2>3 DEF NoPatchMerge
    <3> QED BY <3>1 DEF AllSound, Sound, Blocked
  <2> QED BY <2>1, <2>2, <2>3, PhaseSteps DEF Merging
<1> QED BY <1>2, <1>5, <1>6, <1>7 DEF AllSound

-----------------------------------------------------------------------------
(* What may be used after a step could be used before, or is the object.   *)

LEMMA LimitTypes ==
  ASSUME TInv
  PROVE  /\ expected \in Int /\ result \in Nat /\ object.version \in Nat /\ Limit \in Int
         /\ expected <= object.version /\ result <= object.version
BY DEF TInv, Types, StreamOK, CycleOK, ClusterOK, NothingAhead, Limit, Never, Objects, Bodies

(* What is awaited after a cycle is not older than what was awaited in it. *)
LEMMA EndingLimit ==
  ASSUME TInv, ResultShape, Ending, Next, alive'
  PROVE  Limit' >= Limit
<1>0. /\ expected \in Int /\ result \in Nat /\ object.version \in Nat /\ Limit \in Int
      /\ expected <= object.version /\ result <= object.version
  BY LimitTypes
<1>1. ASSUME EndCycle(0), phase # "finalizing" PROVE Limit' >= Limit
  <2>1. Limit' = Limit
    BY <1>1 DEF EndCycle, Limit
  <2> QED BY <1>0, <2>1
<1>2. ASSUME NEW v \in Nat, EndCycle(v), v # 0 PROVE Limit' = v
  BY <1>2 DEF EndCycle, Limit
<1>3. Limit <= object.version /\ (result # 0 => Limit <= result)
  <2>1. result # 0 => expected <= result
    BY DEF ResultShape
  <2> QED BY <1>0, <2>1 DEF Limit
<1>4. ASSUME EndCycle(result), phase = "finalizing" PROVE Limit' >= Limit
  <2>1. CASE result = 0
    <3>1. Limit' = Limit
      BY <1>4, <2>1 DEF EndCycle, Limit
    <3> QED BY <1>0, <3>1
  <2>2. CASE result # 0
    BY <1>0, <1>2, <1>3, <1>4, <2>2
  <2> QED BY <2>1, <2>2
<1>5. SkipThrottled \/ BackoffIsOver \/ AwakenedByEvents \/ AwakenedInSleep => Limit' >= Limit
  BY <1>1 DEF SkipThrottled, BackoffIsOver, AwakenedByEvents, AwakenedInSleep
<1>6. (SkipHandlers \/ FinishHandling) /\ event.type = "DELETED" => Limit' >= Limit
  BY <1>1 DEF SkipHandlers, FinishHandling, Apply
<1>7. ASSUME NEW o \in Objects, o.version = object.version, Commit(o), EndCycle(object'.version)
      PROVE  Limit' >= Limit
  <2>1. object'.version = object.version + 1
    BY <1>7, CommitChanges
  <2> QED BY <1>0, <1>2, <1>3, <1>7, <2>1
<1>8. CASE Touch
  <2>1. object \in Objects
    BY DEF TInv, Types, ClusterOK
  <2>2. alive
    BY <1>8 DEF Touch, clusterVars
  <2>3. Commit([object EXCEPT !.dummy = TRUE]) /\ EndCycle(object'.version)
    BY <1>8, <2>2 DEF Touch
  <2>4. LET o == [object EXCEPT !.dummy = TRUE] IN o \in Objects /\ o.version = object.version
    BY <2>1 DEF Objects, Bodies
  <2> QED BY <1>7, <2>3, <2>4
<1>9. CASE NoPatchJSON /\ ~(IsEmpty(patch) /\ delay # "none")
  BY <1>4, <1>9 DEF NoPatchJSON, SleepOrEnd
<1>10. CASE PatchConflict
  BY <1>4, <1>10 DEF PatchConflict
<1>11. CASE PatchRepeated
  BY <1>4, <1>11 DEF PatchRepeated
<1>12. CASE PatchJSON
  <2>1. HasOps /\ IsAccepted /\ ApplyFinalizer /\ EndCycle(object'.version)
    BY <1>12 DEF PatchJSON
  <2>2. ~Remove
    BY DEF Remove
  <2>3. PICK o : Similar(o) /\ Commit(o)
    BY <2>1, <2>2, FinalizerSteps DEF TInv, Types
  <2> QED BY <1>7, <2>1, <2>3 DEF Similar
<1>13. ~PatchNotFound
  BY DEF PatchNotFound, clusterVars
<1> QED BY <1>5, <1>6, <1>8, <1>9, <1>10, <1>11, <1>12, <1>13 DEF Ending

(* What is awaited grows, until it comes or nothing is on its way.         *)
LEMMA LimitLater ==
  ASSUME NoHaste, TInv, ResultShape, Next, alive'
  PROVE  \/ Limit' >= Limit \/ Crash
         \/ TakeEvent /\ Limit <= Head(backlog).body.version
         \/ ConsistencyTimeout /\ wire = <<>> /\ backlog = <<>>
<1>0. /\ expected \in Int /\ result \in Nat /\ object.version \in Nat /\ Limit \in Int
      /\ expected <= object.version /\ result <= object.version
  BY LimitTypes
<1>1. Limit' = Limit => Limit' >= Limit
  BY <1>0
<1>2. CASE Outside
  <2>1. ConsistencyTimeout => wire = <<>> /\ backlog = <<>>
    BY DEF ConsistencyTimeout, Befalls, NoHaste
  <2>2. UNCHANGED <<phase, patch, result>> /\ (UNCHANGED <<expected, deadline>> \/ ConsistencyTimeout \/ WorkerExits)
    BY <1>2, OutsideLeaves
  <2>3. WorkerExits => Limit' = Limit
    BY DEF WorkerExits, Limit
  <2> QED BY <1>1, <2>1, <2>2, <2>3 DEF Limit
<1>3. CASE Ending
  BY <1>3, EndingLimit
<1>4. CASE Proceeding
  <2>1. UNCHANGED <<patch, result, expected, deadline>> /\ phase' # "finalizing"
    BY <1>4, ProceedingKeeps
  <2>2. phase = "finalizing" => patch.fin # "keep" \/ ~HasMerge(patch)
    BY <1>4 DEF Proceeding, ThrottlingIsOver, WaitForConsistency, SleepIsOver, RequestFails, HasOps,
       NoPatchJSON, IsEmpty
  <2> QED BY <1>1, <2>1, <2>2 DEF Limit, ResultShape
<1>5. CASE Deciding
  <2>1. /\ phase \in {"handling", "detecting"} /\ phase' = "patching"
        /\ UNCHANGED <<expected, deadline>>
    BY <1>5 DEF Deciding, SkipHandlers, FinishHandling, Apply
  <2> QED BY <1>1, <2>1 DEF Limit
<1>6. CASE Running \/ StartHandling
  <2>1. phase # "finalizing" /\ phase' # "finalizing" /\ UNCHANGED <<expected, deadline>>
    BY <1>6 DEF Running, RunHandler, StartHandling, streamVars
  <2> QED BY <1>1, <2>1 DEF Limit
<1>7. CASE PatchMerge
  <2>1. /\ phase = "patching" /\ UNCHANGED <<expected, deadline, patch>>
        /\ result' = object'.version
    BY <1>7 DEF PatchMerge, streamVars
  <2>2. object'.version >= object.version /\ object'.version \in Nat
    BY WireMoves DEF TInv, Types, ClusterOK, Objects, Bodies
  <2> QED BY <1>0, <2>1, <2>2 DEF Limit
<1>8. CASE NoPatchMerge
  <2>1. /\ phase = "patching" /\ UNCHANGED <<expected, deadline, result>>
    BY <1>8 DEF NoPatchMerge, streamVars
  <2> QED BY <1>1, <2>1 DEF Limit, ResultShape
<1>9. CASE TakeEvent
  <2>1. phase = "idle" /\ phase' # "finalizing" /\ backlog # <<>>
    BY <1>9 DEF TakeEvent
  <2>2. Head(backlog).body.version \in Nat
    <3>1. Head(backlog) \in Events
      BY <2>1, TailElements DEF TInv, Types, StreamOK
    <3> QED BY <3>1 DEF Events, Objects, Bodies
  <2>3. CASE expected # 0 /\ expected = Head(backlog).body.version
    BY <1>0, <1>9, <2>1, <2>2, <2>3 DEF Limit
  <2>4. CASE ~(expected # 0 /\ expected = Head(backlog).body.version)
    <3>1. UNCHANGED <<expected, deadline>>
      BY <1>9, <2>4 DEF TakeEvent
    <3> QED BY <1>1, <2>1, <3>1 DEF Limit
  <2> QED BY <2>3, <2>4
<1> QED BY <1>2, <1>3, <1>4, <1>5, <1>6, <1>7, <1>8, <1>9, NextByCycle DEF Merging

LEMMA RelevantLater ==
  ASSUME NoHaste, TInv, Ordered, Latest, ResultShape, Next, alive'
  PROVE  /\ \A e \in InFlight' : e.body.version >= Limit' =>
              e.body = object' \/ (e \in InFlight /\ Relevant(e.body))
         /\ phase' \in Early /\ event'.body.version >= Limit' =>
              \/ event'.body = object'
              \/ event' \in InFlight /\ Relevant(event'.body)
              \/ event' = event /\ phase \in Early /\ Relevant(event.body)
<1>0. /\ Limit \in Int /\ ClusterOK /\ StreamOK /\ CycleOK /\ EventOK /\ alive
      /\ object.version \in Nat
  BY LimitTypes, ObjectFollows DEF TInv, Types
<1>1. \A e \in InFlight' : e \in InFlight \/ e.body = object'
  BY <1>0, InFlightMoves
<1>2. \A e \in InFlight : e.body.version \in Nat
  BY <1>0, InFlightTypes DEF Objects, Bodies
<1>3. phase' \in Early => (TakeEvent /\ event' \in InFlight) \/ (event' = event /\ phase \in Early)
  <2>1. phase' \in Early => TakeEvent \/ ((Outside \/ Proceeding) /\ phase \in Early)
    BY PhaseSteps
  <2>2. Outside \/ Proceeding => event' = event
    BY OutsideKeeps, ProceedingKeeps
  <2> QED BY <1>0, <2>1, <2>2, TakingTakes
<1>4. phase \in Early => event.body.version \in Nat
  BY <1>0 DEF Early, EventOK, Events, Objects, Bodies
<1>5. CASE Crash
  <2>1. /\ phase' = "idle" /\ backlog' = <<>> /\ wire' = <<Event("listed", object)>>
        /\ object' = object
    BY <1>0, <1>5 DEF Crash, Listing
  <2>2. \A e \in InFlight' : e.body = object'
    BY <2>1, ShortElements DEF InFlight, Event
  <2> QED BY <2>1, <2>2 DEF Early
<1>6. CASE Limit' >= Limit
  <2>1. Limit' \in Int
    <3>1. TInv'
      BY NextTypes
    <3>2. expected' \in Int /\ result' \in Nat
      BY <3>1 DEF TInv, Types, StreamOK, CycleOK, Never
    <3> QED BY <3>2 DEF Limit
  <2>2. \A e \in InFlight : e.body.version >= Limit' => Relevant(e.body)
    BY <1>0, <1>2, <1>6, <2>1 DEF Relevant
  <2>3. phase \in Early /\ event.body.version >= Limit' => Relevant(event.body)
    BY <1>0, <1>4, <1>6, <2>1 DEF Relevant
  <2> QED BY <1>1, <1>3, <2>2, <2>3
<1>7. CASE ConsistencyTimeout /\ wire = <<>> /\ backlog = <<>>
  <2>1. UNCHANGED <<wire, backlog, object, event, phase>>
    BY <1>7 DEF ConsistencyTimeout, clusterVars, cycleVars
  <2>2. InFlight' = {}
    BY <1>7, <2>1, ShortElements DEF InFlight
  <2>3. phase \in Early => event.body = object
    BY <1>0, <1>7 DEF Latest
  <2> QED BY <2>1, <2>2, <2>3
<1>8. CASE TakeEvent /\ Limit <= Head(backlog).body.version
  <2>1. /\ backlog # <<>> /\ event' = Head(backlog) /\ backlog' = Tail(backlog)
        /\ wire' = wire /\ object' = object
    BY <1>8 DEF TakeEvent, clusterVars
  <2>2. /\ Head(backlog) \in Elements(backlog)
        /\ \A e \in Elements(Tail(backlog)) : Follows(Head(backlog).body, e.body)
        /\ Elements(Tail(backlog)) \subseteq Elements(backlog)
    BY <1>0, <2>1, TailElements, SortedTail DEF StreamOK, Ordered
  <2>3. \A e \in InFlight' : e \in InFlight /\ Follows(event'.body, e.body)
    BY <2>1, <2>2 DEF Ordered, InFlight, Elements
  <2>4. event' \in InFlight /\ Relevant(event'.body)
    BY <1>0, <1>2, <1>8, <2>1, <2>2 DEF InFlight, Relevant
  <2>5. \A e \in InFlight' : Relevant(e.body)
    BY <1>0, <1>2, <2>3, <2>4 DEF Follows, Relevant
  <2> QED BY <2>3, <2>4, <2>5
<1> QED BY <1>5, <1>6, <1>7, <1>8, LimitLater

-----------------------------------------------------------------------------
(* Whose records count: no more of them after a step than before, except   *)
(* those that are stored by then.                                          *)

(* What is known remains so while the records are the same.                *)
LEMMA KnownLater ==
  ASSUME NEW b, Known(b), SameRecords(object', object)
  PROVE  Known(b)'
BY DEF Known, SameRecords, AllDelete

(* In most of the steps, nobody's record begins to count.                  *)
LEMMA CountsKept ==
  ASSUME ClusterOK, NothingAhead, MemoryOK, NEW r \in ended,
         Outside \/ Deciding \/ StartHandling \/ Merging, Counts(r)'
  PROVE  Counts(r)
<1>1. r[1] \in Handlers
  BY EndedIsSeen
<1>2. CASE Outside
  BY <1>1, <1>2, OutsideLeaves DEF Counts, Allows
<1>3. CASE Deciding
  <2>1. phase \notin {"patching", "finalizing"} /\ UNCHANGED excused
    BY <1>3 DEF Deciding, SkipHandlers, FinishHandling, historyVars
  <2>2. memory'.remaining = memory.remaining
    BY <1>3, FinishingIsRemembered DEF Deciding, SkipHandlers
  <2> QED BY <2>1, <2>2 DEF Counts, Allows
<1>4. CASE StartHandling
  BY <1>4 DEF StartHandling, historyVars, Counts, Allows
<1>5. CASE Merging
  BY <1>5 DEF Merging, PatchMerge, NoPatchMerge, historyVars, Counts, Allows
<1> QED BY <1>2, <1>3, <1>4, <1>5

(* A deletion handler which has finished is not to be run again, as long   *)
(* as the function on the finalizer is known, and it is not forgotten.     *)
LEMMA DeletionRemembered ==
  ASSUME TInv, Ordered, Goodbye, AfterEnded, AllSound, PatchShape, ResultShape, alive, alive', Next,
         Ending \/ Proceeding, NEW r \in ended, r[2] = "delete", Allows
  PROVE  Allows' \/ r[1] \in excused'
<1>0. /\ ClusterOK /\ MemoryOK /\ CycleOK /\ EventOK /\ object.deleting /\ r[1] \in Deleting
  BY DEF TInv, Types, AfterEnded, Later
<1>1. phase \in {"patching", "finalizing"} => event.body.deleting
  BY DEF AfterEnded, Later
<1>2. phase \in {"patching", "finalizing"} => patch.fin = "allow"
  BY <1>1 DEF Allows, PatchShape
<1>3. phase \notin {"patching", "finalizing"} => memory.remaining = "allow"
  BY DEF Allows
<1>4. phase = "finalizing" => fresh.deleting /\ fresh.finalizer
  BY <1>1 DEF AllSound, Blocked
<1>5. ~NoPatchJSON
  BY <1>2, <1>4 DEF NoPatchJSON, HasOps
<1>6. ~PatchJSON /\ ~PatchNotFound
  BY <1>0, <1>2 DEF PatchJSON, ApplyFinalizer, Remove, PatchNotFound
<1>7. ~PatchRepeated
  BY <1>0, <1>2 DEF PatchRepeated, ApplyFinalizer, Remove
<1>8. CASE PatchConflict
  <2>1. phase = "finalizing" /\ memory' = [memory EXCEPT !.remaining = patch.fin]
    BY <1>8 DEF PatchConflict
  <2>2. memory'.remaining = patch.fin
    BY <1>0, <2>1 DEF MemoryOK
  <2> QED BY <1>2, <2>1, <2>2 DEF Allows
<1>9. CASE RequestFails
  <2>1. UNCHANGED memory /\ phase \in {"patching", "finalizing", "touching"}
    BY <1>9 DEF RequestFails
  <2>2. memory.remaining = "allow" \/ r[1] \in excused'
    <3>1. CASE memory.remaining = "allow"
      BY <3>1
    <3>2. CASE memory.remaining # "allow"
      <4>1. patch.fin = "allow"
        BY <1>2, <1>3, <3>2
      <4>2. Releasing(patch.fin) \subseteq excused'
        BY <1>9, <3>2 DEF RequestFails
      <4> QED BY <1>0, <4>1, <4>2 DEF Releasing
    <3> QED BY <3>1, <3>2
  <2> QED BY <2>1, <2>2 DEF Allows
<1>10. event.type # "DELETED" \/ phase = "idle"
  BY DEF Goodbye
<1>11. SkipThrottled \/ BackoffIsOver \/ AwakenedByEvents \/ AwakenedInSleep \/ Touch
        => phase \notin {"patching", "finalizing"} /\ UNCHANGED memory
  BY DEF SkipThrottled, BackoffIsOver, AwakenedByEvents, AwakenedInSleep, Touch
<1>12. ThrottlingIsOver \/ WaitForConsistency \/ SleepIsOver
        => phase \notin {"patching", "finalizing"} /\ UNCHANGED memory
  BY DEF ThrottlingIsOver, WaitForConsistency, SleepIsOver
<1>13. (SkipHandlers \/ FinishHandling) => event.type # "DELETED"
  BY <1>10 DEF SkipHandlers, FinishHandling
<1>14. UNCHANGED memory /\ phase \notin {"patching", "finalizing"} => Allows'
  BY <1>3 DEF Allows
<1> QED BY <1>5, <1>6, <1>7, <1>8, <1>9, <1>11, <1>12, <1>13, <1>14 DEF Ending, Proceeding

(* The record of who has just finished is to be stored.                    *)
LEMMA RunningExempts ==
  ASSUME TInv, HandlingShape, NEW h \in Handlers, NEW status \in {"success", "failure", "retry"},
         RunHandler(h, status)
  PROVE  /\ UNCHANGED <<event, memory, phase, patch>> /\ phase = "handling" /\ h \in Active
         /\ ~Finished(state[h]) /\ ~Finished(event.body.progress[h])
         /\ DOMAIN state' = DOMAIN state /\ h \in DOMAIN state /\ h \in plan
         /\ \A g \in DOMAIN state : g # h => state'[g] = state[g]
         /\ state'[h].status = status /\ state'[h].purpose = Reason
         /\ Exempt \subseteq Exempt' /\ (status # "retry" => h \in Exempt')
         /\ IF status = "retry" THEN UNCHANGED <<ended, resumed, excused>>
            ELSE /\ ended' = ended \cup {<<h, Reason, event.body.gen>>} /\ excused' = excused \ {h}
                 /\ resumed' = resumed \cup ({h} \cap Resuming)
<1>1. event \in Events /\ CycleOK /\ PlanIsActive
  BY DEF TInv, Types, EventOK, RunHandler
<1>2. /\ UNCHANGED <<event, memory, phase, patch>> /\ phase = "handling" /\ h \in Active
      /\ DOMAIN state' = DOMAIN state /\ h \in DOMAIN state /\ h \in plan
      /\ \A g \in DOMAIN state : g # h => state'[g] = state[g]
      /\ state'[h].status = status
  BY <1>1, RunningRuns DEF RunHandler, CycleOK
<1>3. ~Finished(state[h]) /\ ~Finished(event.body.progress[h])
  BY <1>2 DEF HandlingShape
<1>4. state'[h] = Record(status, state[h].purpose, state[h].retries + 1)
  BY <1>2 DEF RunHandler
<1>5. state'[h].purpose = Reason
  BY <1>2, <1>4 DEF HandlingShape, Record
<1>6. status # "retry" => h \in Exempt'
  BY <1>2, <1>3 DEF Exempt, Unsaved, Finished
<1>7. Exempt \subseteq Exempt'
  BY <1>2, <1>3 DEF Exempt, Unsaved
<1> QED BY <1>2, <1>3, <1>5, <1>6, <1>7 DEF RunHandler, historyVars

(* In all the steps but the patching, of those which are not on their way. *)
LEMMA CountsLater ==
  ASSUME TInv, Ordered, Goodbye, AfterEnded, AllSound, MemoryShape, HandlingShape, PatchShape,
         ResultShape, Next, ~Merging, alive, alive',
         NEW r \in ended', Counts(r)', r[1] \notin Exempt'
  PROVE  r \in ended /\ Counts(r) /\ r[1] \notin Exempt
<1>0. /\ ClusterOK /\ NothingAhead /\ MemoryOK /\ CycleOK /\ EventOK /\ StreamOK /\ PlanIsActive
      /\ phase # "idle" => event.type # "DELETED"
  BY DEF TInv, Types, Goodbye
<1>1. CASE Outside
  <2>1. r \in ended /\ Exempt' = Exempt
    BY <1>1, OutsideLeaves DEF Exempt, Unsaved
  <2> QED BY <1>0, <1>1, <2>1, CountsKept
<1>2. CASE Ending \/ Proceeding
  <2>1. r \in ended
    BY <1>0, <1>2, EndingEnds, ProceedingKeeps DEF NothingAhead
  <2>2. r[1] \notin excused /\ r[1] \notin Exempt
    <3>1. CASE RequestFails
      BY <3>1 DEF RequestFails, Counts, Exempt
    <3>2. CASE ~RequestFails
      <4>1. phase \notin {"handling", "patching"} /\ UNCHANGED excused
        <5>1. ~PatchNotFound /\ ~((SkipHandlers \/ FinishHandling) /\ event.type = "DELETED")
          BY <1>0 DEF PatchNotFound, SkipHandlers, FinishHandling
        <5> QED BY <1>2, <3>2, <5>1 DEF Ending, Proceeding, SkipThrottled, BackoffIsOver,
                   AwakenedByEvents,
                AwakenedInSleep, Touch, NoPatchJSON, PatchJSON, PatchConflict, PatchRepeated,
                ThrottlingIsOver, WaitForConsistency, SleepIsOver, historyVars
      <4> QED BY <4>1 DEF Counts, Exempt
    <3> QED BY <3>1, <3>2
  <2>3. r[2] = "delete" => ~Allows
    BY <1>2, <2>1, DeletionRemembered DEF Counts
  <2> QED BY <2>1, <2>2, <2>3 DEF Counts
<1>3. CASE Deciding
  <2>1. r \in ended
    BY <1>0, <1>3, SkippingDecides, FinishingDecides DEF Deciding, EventOK, SkipHandlers,
       FinishHandling
  <2>2. Exempt \subseteq Exempt'
    <3>1. SkipHandlers => phase = "detecting"
      BY DEF SkipHandlers
    <3>2. FinishHandling => phase = "handling" /\ phase' = "patching" /\ UNCHANGED <<event, state>>
      BY <1>0, <1>3 DEF FinishHandling, Apply, Deciding
    <3> QED BY <1>3, <3>1, <3>2 DEF Deciding, Exempt, Unsaved
  <2> QED BY <1>0, <1>3, <2>1, <2>2, CountsKept
<1>4. CASE StartHandling
  <2>1. r \in ended /\ Exempt = {}
    BY <1>4 DEF StartHandling, historyVars, Exempt
  <2> QED BY <1>0, <1>4, <2>1, CountsKept
<1>5. CASE Running
  <2>1. PICK h \in Handlers, status \in {"success", "failure", "retry"} : RunHandler(h, status)
    BY <1>5 DEF Running
  <2>2. /\ Exempt \subseteq Exempt' /\ (status # "retry" => h \in Exempt')
        /\ UNCHANGED <<memory, phase, patch>>
        /\ IF status = "retry" THEN UNCHANGED <<ended, resumed, excused>>
           ELSE ended' = ended \cup {<<h, Reason, event.body.gen>>} /\ excused' = excused \ {h}
    BY <2>1, RunningExempts
  <2>3. Allows' = Allows
    BY <2>2 DEF Allows
  <2>4. <<h, Reason, event.body.gen>>[1] = h
    OBVIOUS
  <2> QED BY <2>2, <2>3, <2>4 DEF Counts
<1>6. CASE TakeEvent
  <2>1. UNCHANGED <<ended, excused>> /\ phase = "idle" /\ phase' \in {"throttled", "detecting"}
    BY <1>6 DEF TakeEvent, historyVars
  <2>2. memory' = memory \/ memory.remaining = "keep"
    BY <1>6, MemorySteps DEF Forgotten
  <2> QED BY <2>1, <2>2 DEF Counts, Exempt, Allows
<1>7. CASE Crash
  <2>1. /\ excused' = excused \cup Unsaved \cup Releasing(patch.fin) \cup Releasing(memory.remaining)
        /\ UNCHANGED ended
    BY <1>7 DEF Crash
  <2>2. r[2] = "delete" => r[1] \in Deleting
    BY <2>1 DEF AfterEnded, Later
  <2>3. r[1] \notin Exempt
    BY <2>1 DEF Exempt, Counts
  <2>4. r[2] = "delete" => ~Allows
    BY <2>1, <2>2 DEF Allows, Counts, Releasing
  <2> QED BY <2>1, <2>3, <2>4 DEF Counts
<1> QED BY <1>1, <1>2, <1>3, <1>4, <1>5, <1>6, <1>7, NextByCycle

(* The same for those who have resumed in this lifetime.                   *)
LEMMA ResumesLater ==
  ASSUME TInv, Ordered, Goodbye, AfterEnded, AllSound, MemoryShape, HandlingShape, PatchShape,
         ResultShape, Next, ~Merging, alive, alive',
         ~memory'.handled, NEW h \in Resumes' \ Exempt'
  PROVE  ~memory.handled /\ h \in Resumes \ Exempt
<1>0. MemoryOK /\ h \in resumed' /\ h \notin excused'
  BY DEF TInv, Types, Resumes
<1>1. ~Crash
  BY <1>0 DEF Crash
<1>2. ~memory.handled
  <2>1. \A x : [memory EXCEPT !.remaining = x].handled = memory.handled
    BY <1>0 DEF MemoryOK
  <2>2. memory = Forgotten => ~memory.handled
    BY DEF Forgotten
  <2> QED BY <1>0, <1>1, <2>1, <2>2, MemorySteps, FinishingIsRemembered
<1>3. CASE UNCHANGED <<ended, resumed>>
  <2>2. PICK r \in ended : r[1] = h /\ r[2] \in {"update", "resume"}
    BY <1>0, <1>3 DEF MemoryShape, Resumes
  <2>3. Counts(r)' /\ r[1] \notin Exempt'
    BY <1>0, <2>2 DEF Counts
  <2>4. r \in ended'
    BY <1>3, <2>2
  <2>5. Counts(r) /\ r[1] \notin Exempt
    BY <2>3, <2>4, CountsLater
  <2> QED BY <1>2, <1>3, <2>2, <2>5 DEF Counts, Resumes
<1>4. CASE Running
  <2>1. PICK g \in Handlers, status \in {"success", "failure", "retry"} : RunHandler(g, status)
    BY <1>4 DEF Running
  <2>2. /\ UNCHANGED <<ended, resumed>> \/ g \in Exempt'
        /\ resumed' \subseteq resumed \cup {g}
    BY <2>1, RunningExempts
  <2>3. h \in resumed
    BY <1>0, <1>3, <2>2
  <2>4. PICK r \in ended : r[1] = h /\ r[2] \in {"update", "resume"}
    BY <2>3 DEF MemoryShape, Resumes
  <2>5. Counts(r)' /\ r[1] \notin Exempt' /\ r \in ended'
    BY <1>0, <2>4, EndedGrows DEF Counts
  <2>6. Counts(r) /\ r[1] \notin Exempt
    BY <2>5, CountsLater
  <2> QED BY <1>2, <2>3, <2>4, <2>6 DEF Counts, Resumes
<1> QED BY <1>1, <1>3, <1>4, EndedSteps

-----------------------------------------------------------------------------
(* What is known of the object remains known, and true.                    *)

(* A reason that applies to the object later applied to it before.         *)
LEMMA AppliesEarlier ==
  ASSUME NEW a \in Objects, NEW b \in Objects, Follows(a, b), a.diffbase = b.diffbase, Blocked(a),
         NEW r, r[2] \in HandlerReasons, r[3] \in Nat, Later(r, a), Applies(r, b)
  PROVE  Applies(r, a)
<1>1. a.gen \in Nat /\ b.gen \in Nat /\ r[3] <= a.gen /\ a.gen <= b.gen
  BY DEF Objects, Bodies, Later, Follows
<1>2. CASE r[2] = "update"
  <2>1. b.gen = r[3] /\ ~b.deleting /\ b.diffbase # 0 /\ b.diffbase # b.essence
    BY <1>2 DEF Applies, ReasonOf
  <2>2. a.gen = b.gen
    BY <1>1, <2>1
  <2> QED BY <1>2, <2>1, <2>2 DEF Applies, ReasonOf, Follows
<1>3. CASE r[2] = "create"
  BY <1>3 DEF Applies, ReasonOf, Follows
<1>4. CASE r[2] = "delete"
  BY <1>4 DEF Applies, ReasonOf, Later, Blocked
<1>5. r[2] # "resume"
  BY DEF Applies, ReasonOf
<1> QED BY <1>2, <1>3, <1>4, <1>5 DEF HandlerReasons

LEMMA FitFollows ==
  ASSUME ClusterOK, NothingAhead, NEW b \in Objects, Fit(object), Follows(object, b), SameRecords(b, object),
         Blocked(object), \A r \in ended : Later(r, object)
  PROVE  Fit(b)
<1>1. object \in Objects /\ object.diffbase = b.diffbase
  BY DEF ClusterOK, SameRecords
<1>2. Known(b)
  BY DEF Known
<1>3. \A r \in ended : Counts(r) /\ r[1] \notin Exempt => Safe(r, b)
  <2> SUFFICES ASSUME NEW r \in ended, Counts(r), r[1] \notin Exempt, Applies(r, b)
               PROVE  IsKept(r, b.progress)
    BY DEF Safe
  <2>1. r[2] \in HandlerReasons /\ r[3] \in Nat
    BY EndedIsSeen
  <2>2. Applies(r, object)
    BY <1>1, <2>1, AppliesEarlier
  <2>3. IsKept(r, object.progress)
    BY <2>2 DEF Fit, Safe
  <2> QED BY <2>3 DEF SameRecords
<1>4. ~b.deleting => ~object.deleting
  BY DEF Follows
<1> QED BY <1>2, <1>3, <1>4 DEF Fit, SameRecords

(* What fits is fit after the step.                                        *)
LEMMA FitLater ==
  ASSUME Base, Next, ~Merging, alive, alive', NEW b, Fit(b)
  PROVE  Fit(b)'
<1>1. Known(b)'
  <2>1. SameRecords(object', object)
    BY RecordsKept DEF Base, TInv, Types, Merging
  <2> QED BY <2>1, KnownLater DEF Fit
<1>2. ASSUME NEW r \in ended', Counts(r)', r[1] \notin Exempt' PROVE Safe(r, b)
  BY <1>2, CountsLater DEF Base, Fit
<1>3. ASSUME ~memory'.handled, ~b.deleting, NEW h \in Resumes' \ Exempt'
      PROVE  Finished(b.progress[h])
  BY <1>3, ResumesLater DEF Base, Fit
<1> QED BY <1>1, <1>2, <1>3 DEF Fit, Safe, Applies, IsKept, ReasonOf

LEMMA ObjectLater ==
  ASSUME Base, Next, ~Merging
  PROVE  object' \in Objects /\ Follows(object, object') /\ SameRecords(object', object)
BY RecordsKept, ObjectFollows DEF Base, TInv, Types, Merging

(* In any step but those of the patching.                                  *)
LEMMA KnowledgeLater ==
  ASSUME NoHaste, Base, Knowledge, Next, ~Merging
  PROVE  Knowledge'
<1> SUFFICES ASSUME alive'
    PROVE  /\ Fit(object)'
           /\ \A e \in InFlight' : e.body.version >= Limit' => Fit(e.body)'
           /\ phase' \in Early /\ event'.body.version >= Limit' => Fit(event.body)'
  BY DEF Knowledge, Relevant
<1>1. alive /\ ClusterOK /\ NothingAhead /\ Blocked(object) /\ \A r \in ended : Later(r, object)
  BY ObjectFollows DEF Base, TInv, Types, AllSound, Sound, AfterEnded
<1>2. Fit(object')
  BY <1>1, ObjectLater, FitFollows DEF Knowledge
<1>3. Fit(object)'
  BY <1>1, <1>2, FitLater DEF Fit
<1>4. ASSUME NEW b, Fit(b) PROVE Fit(b)'
  BY <1>1, <1>4, FitLater
<1>5. \A e \in InFlight' : e.body.version >= Limit' => e.body = object' \/ Fit(e.body)
  BY <1>1, RelevantLater DEF Base, Knowledge
<1>6. \A e \in InFlight' : e.body.version >= Limit' => Fit(e.body)'
  <2> SUFFICES ASSUME NEW e \in InFlight', e.body.version >= Limit' PROVE Fit(e.body)'
    OBVIOUS
  <2>1. CASE Fit(e.body)
    BY <1>4, <2>1
  <2>2. CASE e.body = object'
    BY <1>3, <2>2 DEF Fit
  <2> QED BY <1>5, <2>1, <2>2
<1>7. ASSUME phase' \in Early, event'.body.version >= Limit' PROVE Fit(event.body)'
  <2>1. event'.body = object' \/ Fit(event'.body)
    BY <1>1, <1>7, RelevantLater DEF Base, Knowledge
  <2>2. CASE Fit(event'.body)
    BY <1>4, <2>2
  <2>3. CASE event'.body = object'
    BY <1>3, <2>3 DEF Fit
  <2> QED BY <2>1, <2>2, <2>3
<1> QED BY <1>3, <1>6, <1>7

-----------------------------------------------------------------------------
(* The handling starts from what is true, and keeps to it.                 *)

(* A reason that applies is the one that is detected.                      *)
LEMMA ReasonApplies ==
  ASSUME event \in Events, event.type # "DELETED", Blocked(event.body), NEW r,
         r[2] \in HandlerReasons, Applies(r, event.body)
  PROVE  Reason = r[2]
BY ReasonsSeen DEF Applies, ReasonOf, HandlerReasons, Blocked

(* The event that is handled is not older than the version awaited.        *)
LEMMA HandlingFits ==
  ASSUME Base, Knowledge, StartHandling, alive
  PROVE  Fit(event.body) /\ event \in Events /\ event.type # "DELETED"
<1>1. phase \in Early /\ event \in Events /\ event.type # "DELETED"
  BY DEF StartHandling, Early, Base, TInv, Types, EventOK, Goodbye
<1>2. deadline # "ahead" /\ phase # "finalizing"
  BY <1>1 DEF StartHandling, IsConsistent, Reason, Early
<1>3. event.body.version \in Nat /\ Limit = 0
  BY <1>1, <1>2 DEF Events, Objects, Bodies, Limit
<1> QED BY <1>1, <1>3 DEF Knowledge, Relevant

LEMMA HandlingIsTrue ==
  ASSUME Base, Knowledge, Next, StartHandling, alive, alive'
  PROVE  InHandling'
<1>0. /\ ClusterOK /\ MemoryOK /\ NothingAhead /\ Fit(event.body)
      /\ event \in Events /\ event.type # "DELETED"
      /\ event.body.progress \in [Handlers -> Records]
      /\ phase # "idle" /\ phase \notin {"handling", "patching"}
  BY HandlingFits DEF Base, TInv, Types, StartHandling, Events, Objects, Bodies
<1>1. /\ UNCHANGED <<event, memory, ended, resumed, excused>>
      /\ state' = StartState /\ phase' = "handling"
  BY DEF StartHandling, historyVars
<1>2. Blocked(event.body) /\ Sound(event.body)
  BY <1>0 DEF Base, AllSound, Sound
<1>3. Exempt = {}
  BY <1>0 DEF Exempt
<1>4. Known(event.body)'
  <2>1. SameRecords(object', object)
    BY RecordsKept DEF Base, TInv, Types, StartHandling, PatchMerge
  <2> QED BY <1>0, <1>1, <2>1, KnownLater DEF Fit, Known, SameRecords
<1>5. ASSUME NEW r \in ended, Counts(r)', Applies(r, event.body) PROVE IsKept(r, StartState)
  <2>1. r[1] \in Handlers /\ r[2] \in HandlerReasons /\ Counts(r)
    BY <1>0, <1>5, EndedIsSeen, CountsKept
  <2>2. IsKept(r, event.body.progress)
    BY <1>0, <1>3, <1>5, <2>1 DEF Fit, Safe
  <2>3. Reason = r[2]
    BY <1>0, <1>2, <1>5, <2>1, ReasonApplies
  <2>4. r[1] \in Stored
    BY <2>1, <2>2 DEF IsKept, Finished, Stored
  <2>5. r[1] \in DOMAIN StartState
    BY <1>0, <2>1, <2>3, <2>4, StartStateShape
  <2>6. StartState[r[1]].purpose = r[2] /\ Finished(StartState[r[1]])
    BY <1>0, <2>2, <2>3, <2>5, StartStateShape DEF IsKept
  <2> QED BY <2>5, <2>6 DEF IsKept
<1>6. ASSUME ~memory.handled, ~event.body.deleting, NEW h \in Resumes
      PROVE  h \in DOMAIN StartState /\ Finished(StartState[h])
  <2>1. Finished(event.body.progress[h]) /\ memory.listed
    BY <1>0, <1>3, <1>6 DEF Fit, Base, MemoryShape, Resumes
  <2>2. h \in Handlers
    BY <1>6, Constants DEF Resumes, OnlyResuming
  <2>3. h \in Stored
    BY <2>1, <2>2 DEF Stored, Finished
  <2>4. Reason \in HandlerReasons
    BY <1>0, <1>6, <2>1 DEF Reason, IsInitial, HandlerReasons
  <2>5. h \in DOMAIN StartState
    BY <1>0, <2>3, <2>4, StartStateShape
  <2> QED BY <1>0, <2>1, <2>5, StartStateShape
<1>7. ASSUME ~event.body.deleting, NEW h \in AlwaysChanging \cap DOMAIN StartState, Finished(StartState[h])
      PROVE  EndedSince(h, event.body.diffgen)
  BY <1>0, <1>2, <1>7, StartStateShape DEF Sound
<1>8. Resumes' = Resumes
  BY <1>1 DEF Resumes
<1> QED BY <1>1, <1>4, <1>5, <1>6, <1>7, <1>8 DEF InHandling, Applies, ReasonOf, IsKept, EndedSince

LEMMA HandlingIsTrueOutside ==
  ASSUME Base, InHandling, Next, Outside, phase = "handling", alive, alive'
  PROVE  InHandling'
<1>0. ClusterOK /\ MemoryOK /\ NothingAhead
  BY DEF Base, TInv, Types
<1>1. UNCHANGED <<phase, event, memory, ended, resumed, state>>
  BY OutsideLeaves
<1>2. Known(event.body)'
  <2>1. SameRecords(object', object)
    BY RecordsKept DEF Base, TInv, Types, PatchMerge
  <2> QED BY <1>1, <2>1, KnownLater DEF InHandling, Known, SameRecords
<1>3. \A r \in ended : Counts(r)' => Counts(r)
  BY <1>0, CountsKept
<1>4. Resumes' \subseteq Resumes
  BY <1>1, OutsideLeaves, Constants DEF Resumes, OnlyResuming
<1> QED BY <1>1, <1>2, <1>3, <1>4 DEF InHandling, Applies, ReasonOf, IsKept, EndedSince

LEMMA HandlingRunsTrue ==
  ASSUME Base, InHandling, Next, Running, alive, alive'
  PROVE  InHandling'
<1>0. ClusterOK /\ CycleOK /\ MemoryOK /\ NothingAhead /\ TInv /\ HandlingShape
  BY DEF Base, TInv, Types
<1>1. PICK h \in Handlers, status \in {"success", "failure", "retry"} : RunHandler(h, status)
  BY DEF Running
<1>2. /\ UNCHANGED <<event, memory, phase, patch>> /\ phase = "handling" /\ h \in Active
      /\ ~Finished(state[h])
      /\ DOMAIN state' = DOMAIN state /\ h \in DOMAIN state
      /\ \A g \in DOMAIN state : g # h => state'[g] = state[g]
      /\ state'[h].status = status /\ state'[h].purpose = Reason
      /\ IF status = "retry" THEN UNCHANGED <<ended, resumed, excused>>
         ELSE /\ ended' = ended \cup {<<h, Reason, event.body.gen>>} /\ excused' = excused \ {h}
              /\ resumed' = resumed \cup ({h} \cap Resuming)
  BY <1>0, <1>1, RunningExempts
<1>3. event \in Events /\ event.type # "DELETED" /\ Blocked(event.body) /\ Sound(event.body)
  BY <1>2 DEF Base, TInv, Types, EventOK, Goodbye, AllSound, Sound
<1>4. Known(event.body)'
  <2>1. SameRecords(object', object)
    BY <1>0, <1>1, RecordsKept DEF RunHandler, PatchMerge
  <2> QED BY <1>2, <2>1, KnownLater DEF InHandling, Known, SameRecords
<1>5. ASSUME NEW r \in ended', Counts(r)', Applies(r, event.body) PROVE IsKept(r, state')
  <2>1. r \in ended \/ (r = <<h, Reason, event.body.gen>> /\ status # "retry")
    BY <1>2
  <2>2. CASE r[1] = h /\ status # "retry"
    <3>1. r[2] = Reason
      <4>1. r \in ended => r[2] \in HandlerReasons
        BY <1>0, EndedIsSeen
      <4> QED BY <1>3, <1>5, <2>1, <4>1, ReasonApplies
    <3> QED BY <1>2, <2>2, <3>1 DEF IsKept, Finished
  <2>3. CASE r[1] # h \/ status = "retry"
    <3>1. r \in ended
      <4>1. <<h, Reason, event.body.gen>>[1] = h
        OBVIOUS
      <4> QED BY <2>1, <2>3, <4>1
    <3>2. Counts(r)
      BY <1>2, <1>5, <2>3 DEF Counts, Allows
    <3>3. IsKept(r, state)
      BY <1>2, <1>5, <3>1, <3>2 DEF InHandling
    <3>4. r[1] # h
      BY <1>2, <3>3 DEF IsKept
    <3> QED BY <1>2, <3>3, <3>4 DEF IsKept
  <2> QED BY <2>2, <2>3
<1>6. ASSUME ~memory.handled, ~event.body.deleting, NEW g \in Resumes'
      PROVE  g \in DOMAIN state' /\ Finished(state'[g])
  <2>1. CASE g = h /\ status # "retry"
    BY <1>2, <2>1 DEF Finished
  <2>2. CASE g # h \/ status = "retry"
    <3>1. g \in Resumes
      BY <1>2, <2>2 DEF Resumes
    <3>2. g \in DOMAIN state /\ Finished(state[g])
      BY <1>2, <1>6, <3>1 DEF InHandling
    <3> QED BY <1>2, <3>2
  <2> QED BY <2>1, <2>2
<1>7. ASSUME ~event.body.deleting, NEW g \in AlwaysChanging \cap DOMAIN state', Finished(state'[g])
      PROVE  EndedSince(g, event.body.diffgen)'
  <2>1. CASE g = h
    <3>1. status # "retry"
      BY <1>2, <1>7, <2>1 DEF Finished
    <3>2. h \in Selected /\ h \notin Resuming
      BY <1>2, <1>7, <2>1 DEF Active, AlwaysChanging
    <3>3. Reason \in {"create", "update"}
      BY <1>3, <1>7, <3>2, ReasonsSeen DEF Selected
    <3>4. event.body.diffbase # event.body.essence
      BY <1>3, <3>3, ReasonsSeen, Constants DEF Events, Objects, Bodies
    <3>5. event.body.diffgen \in Nat /\ event.body.gen \in Nat
      BY <1>3 DEF Events, Objects, Bodies
    <3>6. event.body.diffgen < event.body.gen
      BY <1>3, <3>4, <3>5 DEF Sound
    <3> DEFINE r == <<h, Reason, event.body.gen>>
    <3>7. r \in ended' /\ r[1] = h /\ r[3] = event.body.gen
      BY <1>2, <3>1
    <3> HIDE DEF r
    <3> QED BY <1>2, <2>1, <3>6, <3>7 DEF EndedSince
  <2>2. CASE g # h
    <3>1. EndedSince(g, event.body.diffgen)
      BY <1>2, <1>7, <2>2 DEF InHandling
    <3> QED BY <1>2, <3>1 DEF EndedSince
  <2> QED BY <2>1, <2>2
<1> QED BY <1>2, <1>4, <1>5, <1>6, <1>7 DEF InHandling, Applies, ReasonOf, IsKept

(* All together.                                                           *)
LEMMA InHandlingLater ==
  ASSUME Base, Knowledge, InHandling, Next
  PROVE  InHandling'
<1>1. alive' => alive
  BY ObjectFollows DEF Base, TInv, Types
<1> QED BY <1>1, HandlingIsTrue, HandlingIsTrueOutside, HandlingRunsTrue, PhaseSteps DEF InHandling

-----------------------------------------------------------------------------
(* What the object would become by the patch of a finished handling.       *)

Finishing ==
  /\ Base /\ Knowledge /\ InHandling
  /\ FinishHandling /\ event.type # "DELETED" /\ alive

Outcome == Merged(object, patch')

LEMMA FinishingFacts ==
  ASSUME Finishing
  PROVE  /\ event \in Events /\ event.body \in Objects /\ object \in Objects
         /\ phase = "handling" /\ phase' = "patching"
         /\ UNCHANGED <<object, alive, wire, backlog, event, state, ended, resumed, excused, result, expected, deadline>>
         /\ Sound(event.body) /\ Sound(object) /\ Follows(event.body, object) /\ Known(event.body)
         /\ \A r \in ended : Later(r, event.body) /\ Later(r, object) /\ r[1] \in Handlers
                             /\ r[2] \in HandlerReasons /\ r[3] \in Nat
         /\ event.body.deleting \/ SameRecords(event.body, object)
<1>1. /\ CycleOK /\ EventOK /\ ClusterOK /\ MemoryOK /\ NothingAhead /\ phase = "handling"
  BY DEF Finishing, Base, TInv, Types, FinishHandling
<1>2. event \in Events /\ event.body \in Objects /\ object \in Objects /\ event.type # "DELETED"
  BY <1>1 DEF EventOK, Events, ClusterOK, Finishing
<1>3. /\ UNCHANGED <<event, plan, state, fresh, result, expected, deadline, ended>>
      /\ phase' = "patching"
  BY <1>1, <1>2, FinishingDecides DEF Finishing
<1>4. UNCHANGED <<object, alive, wire, backlog, resumed, excused>>
  BY DEF Finishing, FinishHandling, clusterVars, historyVars
<1>5. Sound(event.body) /\ Sound(object) /\ Follows(event.body, object) /\ Known(event.body)
  BY <1>1 DEF Finishing, Base, AllSound, Ordered, InHandling
<1>6. \A r \in ended : Later(r, event.body) /\ Later(r, object) /\ r[1] \in Handlers
                             /\ r[2] \in HandlerReasons /\ r[3] \in Nat
  BY <1>1, EndedIsSeen DEF Finishing, Base, AfterEnded
<1> QED BY <1>1, <1>2, <1>3, <1>4, <1>5, <1>6 DEF Known

LEMMA FinishingPatch ==
  ASSUME Finishing
  PROVE  /\ IsPatch(patch')
         /\ patch'.fin = IF ReleasesNow THEN "allow" ELSE "keep"
         /\ patch'.diffbase = IF StoredEssence THEN event.body.essence ELSE 0
         /\ StoredEssence => patch'.diffgen = event.body.gen
         /\ patch'.progress = IF Active = {} THEN patch.progress
                              ELSE IF IsDone THEN Purged
                              ELSE [h \in Altered \cup DOMAIN patch.progress |->
                                      IF h \in Altered THEN state[h] ELSE patch.progress[h]]
         /\ patch.progress = IF Extras THEN Purged ELSE NoProgress
<1>1. CycleOK /\ HandlingShape /\ FinishHandling
  BY DEF Finishing, Base, TInv, Types
<1>2. event \in Events /\ event.type # "DELETED" /\ phase = "handling"
  BY FinishingFacts DEF Finishing
<1>3. IsPatch(patch)'
  BY <1>1, <1>2, FinishingDecides
<1> QED BY <1>1, <1>2, <1>3, FinishedPatch DEF HandlingShape, IsPatch, IsPart

LEMMA OutcomeFacts ==
  ASSUME Finishing
  PROVE  /\ Outcome \in Objects
         /\ Outcome.gen = object.gen /\ Outcome.version = object.version
         /\ Outcome.essence = object.essence
         /\ Outcome.deleting = object.deleting /\ Outcome.finalizer = object.finalizer
         /\ Outcome.diffbase = IF StoredEssence THEN event.body.essence ELSE object.diffbase
         /\ Outcome.diffgen = IF StoredEssence THEN event.body.gen ELSE object.diffgen
         /\ DOMAIN Outcome.progress = Handlers
         /\ \A h \in Handlers : Outcome.progress[h] = IF h \in DOMAIN patch'.progress
                                                     THEN patch'.progress[h] ELSE object.progress[h]
<1>1. event.body.essence # 0
  BY FinishingFacts, Constants DEF Objects, Bodies
<1>2. object \in Objects
  BY FinishingFacts
<1>3. /\ IsPatch(patch') /\ patch'.diffbase = IF StoredEssence THEN event.body.essence ELSE 0
      /\ StoredEssence => patch'.diffgen = event.body.gen
  BY FinishingPatch
<1>4. Outcome.diffbase = IF patch'.diffbase # 0 THEN patch'.diffbase ELSE object.diffbase
  BY <1>2, <1>3, MergedMore DEF Outcome
<1>5. Outcome.diffgen = IF patch'.diffbase # 0 THEN patch'.diffgen ELSE object.diffgen
  BY <1>2, <1>3, MergedMore DEF Outcome
<1>6. Outcome.essence = object.essence
  BY <1>2, <1>3, MergedMore DEF Outcome
<1>7. /\ Outcome \in Objects
      /\ Outcome.gen = object.gen /\ Outcome.version = object.version
      /\ Outcome.deleting = object.deleting /\ Outcome.finalizer = object.finalizer
      /\ Outcome.progress = [h \in Handlers |-> IF h \in DOMAIN patch'.progress
                                       THEN patch'.progress[h] ELSE object.progress[h]]
  BY <1>2, <1>3, MergedType DEF Outcome
<1> QED BY <1>1, <1>3, <1>4, <1>5, <1>6, <1>7

(* When all is done, what was stored is purged, or nothing is.             *)
LEMMA OutcomeDone ==
  ASSUME Finishing, Unfinished = {}
  PROVE  /\ patch'.progress = Purged \/ (patch'.progress = NoProgress /\ Active = {} /\ ~Extras)
         /\ \A h \in Handlers :
              \/ h \in Stored /\ Outcome.progress[h] = NoRecord
              \/ /\ Outcome.progress[h] = object.progress[h]
                 /\ h \notin Stored \/ (Active = {} /\ ~Extras)
<1>1. Active # {} => Reason \in HandlerReasons
  BY DEF Active
<1>2. Active # {} => IsDone
  BY <1>1 DEF IsDone
<1>3. patch'.progress = Purged \/ (patch'.progress = NoProgress /\ Active = {} /\ ~Extras)
  BY <1>2, FinishingPatch
<1>4. DOMAIN Purged = Stored /\ (\A h \in Stored : Purged[h] = NoRecord) /\ DOMAIN NoProgress = {}
  BY DEF Purged, NoProgress
<1> QED BY <1>3, <1>4, OutcomeFacts

(* Otherwise, the outcomes are stored, and all else is purged.             *)
LEMMA OutcomeUnfinished ==
  ASSUME Finishing, Unfinished # {}
  PROVE  /\ ~StoredEssence /\ ~ReleasesNow /\ Reason \in HandlerReasons
         /\ DOMAIN state = Stored \cup Active
         /\ \A h \in DOMAIN state : state[h].purpose = Reason =>
              \/ Outcome.progress[h] = state[h]
              \/ Outcome.progress[h] = object.progress[h] /\ state[h] = event.body.progress[h]
         /\ \A h \in Handlers :
              \/ Outcome.progress[h].status = "none"
              \/ h \in Active /\ Outcome.progress[h] = state[h]
              \/ Outcome.progress[h] = object.progress[h]
         /\ \A h \in Handlers : Outcome.progress[h].status # "none" =>
              \/ Outcome.progress[h].purpose = Reason
              \/ /\ Outcome.progress[h] = object.progress[h]
                 /\ object.progress[h] # event.body.progress[h]
<1>1. Active # {} /\ ~IsDone /\ ~StoredEssence /\ ~ReleasesNow /\ Reason \in HandlerReasons
  BY DEF Unfinished, IsDone, StoredEssence, ReleasesNow, Active
<1>2. /\ DOMAIN state = Stored \cup Active
      /\ \A h \in DOMAIN state : /\ h \in Active => state[h].purpose = Reason
                                 /\ h \notin Active => state[h] = event.body.progress[h]
  BY <1>1, FinishingFacts DEF Finishing, Base, HandlingShape
<1>3. /\ patch.progress = IF Extras THEN Purged ELSE NoProgress
      /\ patch'.progress = [h \in Altered \cup DOMAIN patch.progress |->
                                      IF h \in Altered THEN state[h] ELSE patch.progress[h]]
  BY <1>1, FinishingPatch
<1>4. DOMAIN patch.progress = (IF Extras THEN Stored ELSE {})
      /\ \A h \in DOMAIN patch.progress : patch.progress[h] = NoRecord
  BY <1>3 DEF Purged, NoProgress
<1>5. Stored \subseteq Handlers /\ Active \subseteq Handlers /\ Altered \subseteq Active
  BY <1>2, SelectedType DEF Stored, Altered
<1>6. \A h \in Handlers :
         \/ h \in Altered /\ Outcome.progress[h] = state[h]
         \/ h \notin Altered /\ h \in Stored /\ Extras /\ Outcome.progress[h] = NoRecord
         \/ h \notin Altered /\ (h \notin Stored \/ ~Extras) /\ Outcome.progress[h] = object.progress[h]
  BY <1>3, <1>4, OutcomeFacts
<1>7. \A h \in Stored : Extras => event.body.progress[h].purpose # Reason
  <2> SUFFICES ASSUME NEW h \in Stored, Extras PROVE event.body.progress[h].purpose # Reason
    OBVIOUS
  <2>1. PICK g \in Stored : event.body.progress[g].purpose # Reason
    BY DEF Extras
  <2>2. OneOf(event.body.progress)
    BY FinishingFacts DEF Sound
  <2> QED BY <1>5, <2>1, <2>2 DEF OneOf, Stored
<1>8. ASSUME NEW h \in DOMAIN state, state[h].purpose = Reason
      PROVE  \/ Outcome.progress[h] = state[h]
             \/ Outcome.progress[h] = object.progress[h] /\ state[h] = event.body.progress[h]
  BY <1>2, <1>5, <1>6, <1>7, <1>8 DEF Altered
<1>9. ASSUME NEW h \in Handlers
      PROVE  \/ Outcome.progress[h].status = "none"
             \/ h \in Active /\ Outcome.progress[h] = state[h]
             \/ Outcome.progress[h] = object.progress[h]
  BY <1>5, <1>6 DEF NoRecord
<1>10. ASSUME NEW h \in Handlers, Outcome.progress[h].status # "none"
      PROVE  \/ Outcome.progress[h].purpose = Reason
             \/ /\ Outcome.progress[h] = object.progress[h]
                /\ object.progress[h] # event.body.progress[h]
  <2>1. CASE h \in Altered
    BY <1>2, <1>5, <1>6, <2>1
  <2>2. CASE h \notin Altered
    <3>1. (h \notin Stored \/ ~Extras) /\ Outcome.progress[h] = object.progress[h]
      BY <1>6, <1>10, <2>2 DEF NoRecord
    <3> SUFFICES ASSUME object.progress[h] = event.body.progress[h]
        PROVE  Outcome.progress[h].purpose = Reason
      BY <3>1
    <3>2. h \in Stored
      BY <1>10, <3>1 DEF Stored
    <3>3. CASE h \in Active
      BY <1>2, <2>2, <3>1, <3>2, <3>3 DEF Altered
    <3>4. CASE h \notin Active
      BY <1>1, <3>1, <3>2, <3>4 DEF Extras
    <3> QED BY <3>3, <3>4
  <2> QED BY <2>1, <2>2
<1> QED BY <1>1, <1>2, <1>8, <1>9, <1>10

-----------------------------------------------------------------------------
(* It is as sound as the object is, and keeps all the records that count.  *)

(* What the reason is, when the handlers are run for an existing object.   *)
LEMMA FinishingReasons ==
  ASSUME Finishing
  PROVE  /\ Reason \in {"update", "resume"} => event.body.diffbase # 0
         /\ event.body.deleting => Reason = "delete" /\ event.body.finalizer
         /\ Reason = "delete" => event.body.deleting
         /\ Reason = "create" <=> ~event.body.deleting /\ event.body.diffbase = 0
         /\ Reason = "update" <=> ~event.body.deleting /\ event.body.diffbase # 0
                                  /\ event.body.diffbase # event.body.essence
         /\ Reason = "resume" => ~event.body.deleting /\ IsInitial /\ event.body.diffbase = event.body.essence
         /\ Unfinished # {} => Reason \in HandlerReasons
         /\ event.body.essence # 0
<1>1. event \in Events /\ event.type # "DELETED" /\ Blocked(event.body)
  BY FinishingFacts DEF Finishing, Sound
<1>2. event.body.essence # 0
  BY FinishingFacts, Constants DEF Objects, Bodies
<1> QED BY <1>1, <1>2, ReasonsSeen DEF Blocked, Unfinished

(* The records of a deletion are of nothing but the deletion.              *)
LEMMA OutcomeOfDeletion ==
  ASSUME Finishing, event.body.deleting
  PROVE  AllDelete(Outcome.progress)
<1> SUFFICES ASSUME NEW h \in Handlers, Outcome.progress[h].status # "none"
             PROVE  Outcome.progress[h].purpose = "delete"
  BY DEF AllDelete
<1>1. Reason = "delete" /\ (SameRecords(event.body, object) \/ AllDelete(object.progress))
  BY FinishingFacts, FinishingReasons DEF Known
<1>2. CASE Unfinished # {}
  BY <1>1, <1>2, OutcomeUnfinished DEF AllDelete, SameRecords
<1>3. CASE Unfinished = {}
  <2>1. /\ Outcome.progress[h] = object.progress[h]
        /\ h \notin Stored \/ (Active = {} /\ ~Extras)
    BY <1>3, OutcomeDone DEF NoRecord
  <2>2. CASE AllDelete(object.progress)
    BY <2>1, <2>2 DEF AllDelete
  <2>3. CASE SameRecords(event.body, object)
    <3>1. h \in Stored /\ Outcome.progress[h] = event.body.progress[h]
      BY <2>1, <2>3 DEF SameRecords, Stored
    <3>2. Active = {} /\ ~Extras
      BY <2>1, <3>1
    <3> QED BY <1>1, <3>1, <3>2 DEF Extras, HandlerReasons
  <2> QED BY <1>1, <2>2, <2>3
<1> QED BY <1>2, <1>3

(* All its records are of one purpose.                                     *)
LEMMA OutcomeOfOne ==
  ASSUME Finishing
  PROVE  OneOf(Outcome.progress)
<1>1. CASE event.body.deleting
  BY <1>1, OutcomeOfDeletion DEF OneOf, AllDelete
<1>2. CASE ~event.body.deleting
  <2>1. SameRecords(event.body, object)
    BY <1>2, FinishingFacts
  <2>2. CASE Unfinished # {}
    BY <2>1, <2>2, OutcomeUnfinished DEF OneOf, SameRecords
  <2>3. CASE Unfinished = {}
    <3>1. OneOf(object.progress)
      BY FinishingFacts DEF Sound
    <3>2. \A h \in Handlers : Outcome.progress[h].status = "none" \/ Outcome.progress[h] = object.progress[h]
      BY <2>3, OutcomeDone DEF NoRecord
    <3> QED BY <3>1, <3>2 DEF OneOf
  <2> QED BY <2>2, <2>3
<1> QED BY <1>1, <1>2

(* So it is sound.                                                         *)
LEMMA OutcomeSound ==
  ASSUME Finishing
  PROVE  Sound(Outcome)
<1>0. /\ object \in Objects /\ event.body \in Objects /\ Sound(object) /\ Sound(event.body)
      /\ Follows(event.body, object)
  BY FinishingFacts
<1>1. Blocked(Outcome)
  BY <1>0, OutcomeFacts DEF Sound, Blocked
<1>2. Outcome.diffgen <= Outcome.gen /\ (Outcome.diffgen = Outcome.gen => Outcome.diffbase = Outcome.essence)
  <2>1. CASE StoredEssence
    <3>1. Outcome.diffgen = event.body.gen /\ Outcome.diffbase = event.body.essence
          /\ Outcome.gen = object.gen /\ Outcome.essence = object.essence
      BY <2>1, OutcomeFacts
    <3> QED BY <1>0, <3>1 DEF Follows
  <2>2. CASE ~StoredEssence
    BY <1>0, <2>2, OutcomeFacts DEF Sound
  <2> QED BY <2>1, <2>2
<1>3. ASSUME ~Outcome.deleting, NEW h \in AlwaysChanging, Finished(Outcome.progress[h])
      PROVE  EndedSince(h, Outcome.diffgen)
  <2>1. ~event.body.deleting /\ ~object.deleting /\ SameRecords(event.body, object)
    BY <1>0, <1>3, OutcomeFacts, FinishingFacts DEF Follows
  <2>2. h \in Handlers /\ h \in Creating /\ h \in Updating
    BY Constants DEF AlwaysChanging
  <2>3. CASE Unfinished # {}
    <3>1. Outcome.diffgen = object.diffgen /\ object.diffgen = event.body.diffgen
      BY <2>1, <2>3, OutcomeUnfinished, OutcomeFacts DEF SameRecords
    <3>2. (h \in Active /\ Outcome.progress[h] = state[h]) \/ Outcome.progress[h] = object.progress[h]
      BY <1>3, <2>2, <2>3, OutcomeUnfinished DEF Finished
    <3>3. CASE h \in Active /\ Outcome.progress[h] = state[h]
      <4>1. h \in DOMAIN state
        BY <2>3, <3>3, OutcomeUnfinished
      <4>2. EndedSince(h, event.body.diffgen)
        BY <1>3, <2>1, <3>3, <4>1, FinishingFacts DEF Finishing, InHandling
      <4> QED BY <3>1, <4>2
    <3>4. CASE Outcome.progress[h] = object.progress[h]
      BY <1>0, <1>3, <2>1, <3>1, <3>4 DEF Sound
    <3> QED BY <3>2, <3>3, <3>4
  <2>4. CASE Unfinished = {}
    <3>1. Outcome.progress[h] = object.progress[h] /\ (h \notin Stored \/ Active = {})
      BY <1>3, <2>2, <2>4, OutcomeDone DEF NoRecord, Finished
    <3>2. EndedSince(h, object.diffgen)
      BY <1>0, <1>3, <2>1, <3>1 DEF Sound
    <3>3. ~StoredEssence
      <4> SUFFICES ASSUME StoredEssence PROVE FALSE
        OBVIOUS
      <4>1. Reason \in {"create", "update"}
        BY <2>1, FinishingReasons DEF StoredEssence, IsDone, HandlerReasons
      <4>2. h \in Active
        <5>1. h \in Selected
          BY <2>2, <4>1 DEF Selected
        <5> QED BY <5>1, SelectedType
      <4>3. h \in Stored
        BY <1>3, <2>1, <2>2, <3>1 DEF SameRecords, Stored, Finished
      <4> QED BY <3>1, <4>2, <4>3
    <3> QED BY <3>2, <3>3, OutcomeFacts
  <2> QED BY <2>3, <2>4
<1> QED BY <1>1, <1>2, <1>3, OutcomeOfOne DEF Sound

(* Whoever has finished for what will be the reason then, has finished for *)
(* what is the reason now, and something else remains to be done.          *)
LEMMA TurnLasts ==
  ASSUME Finishing, NEW r \in ended, Applies(r, Outcome), r[2] = "delete" => patch'.fin # "allow"
  PROVE  Applies(r, event.body) /\ Reason = r[2] /\ Unfinished # {}
<1>0. /\ object \in Objects /\ event.body \in Objects /\ Sound(object) /\ Sound(event.body)
      /\ Follows(event.body, object) /\ Later(r, event.body) /\ Later(r, object)
      /\ r[2] \in HandlerReasons /\ r[3] \in Nat
      /\ event.body.deleting \/ SameRecords(event.body, object)
      /\ event.body.gen \in Nat /\ object.gen \in Nat
  BY FinishingFacts DEF Objects, Bodies
<1>1. CASE r[2] = "delete"
  <2>1. event.body.deleting
    BY <1>0, <1>1 DEF Later
  <2>2. Reason = "delete" /\ event.body.finalizer
    BY <2>1, FinishingReasons
  <2>3. Unfinished # {}
    BY <1>1, <2>1, <2>2, FinishingPatch DEF ReleasesNow
  <2> QED BY <1>1, <2>1, <2>2, <2>3 DEF Applies, ReasonOf
<1>2. CASE r[2] = "create"
  <2>1. ~Outcome.deleting /\ Outcome.diffbase = 0
    BY <1>2 DEF Applies, ReasonOf
  <2>2. ~event.body.deleting /\ ~StoredEssence /\ event.body.diffbase = 0
    BY <1>0, <2>1, OutcomeFacts, FinishingReasons DEF Follows, SameRecords
  <2>3. Reason = "create"
    BY <2>2, FinishingReasons
  <2>4. ~IsDone
    BY <2>2, FinishingReasons DEF StoredEssence
  <2> QED BY <1>2, <2>2, <2>3, <2>4 DEF Applies, ReasonOf, IsDone, HandlerReasons
<1>3. CASE r[2] = "update"
  <2>1. /\ ~Outcome.deleting /\ Outcome.diffbase # 0 /\ Outcome.diffbase # Outcome.essence
        /\ Outcome.gen = r[3]
    BY <1>3 DEF Applies, ReasonOf
  <2>2. object.gen = r[3] /\ r[3] <= event.body.gen /\ event.body.gen <= object.gen
    BY <1>0, <2>1, OutcomeFacts DEF Later, Follows
  <2>3. event.body.gen = object.gen /\ event.body.essence = object.essence /\ ~event.body.deleting
    BY <1>0, <2>1, <2>2, OutcomeFacts DEF Follows
  <2>4. /\ ~StoredEssence /\ event.body.diffbase = Outcome.diffbase
        /\ event.body.diffbase # event.body.essence
    BY <1>0, <2>1, <2>3, OutcomeFacts DEF SameRecords
  <2>5. Reason = "update"
    BY <2>1, <2>3, <2>4, FinishingReasons
  <2>6. ~IsDone
    BY <2>4 DEF StoredEssence
  <2> QED BY <1>3, <2>1, <2>2, <2>3, <2>4, <2>5, <2>6 DEF Applies, ReasonOf, IsDone, HandlerReasons
<1>4. r[2] # "resume"
  BY DEF Applies, ReasonOf
<1> QED BY <1>0, <1>1, <1>2, <1>3, <1>4 DEF HandlerReasons

(* The record of a deletion handler does not count when the object is      *)
(* allowed to go.                                                          *)
LEMMA FinishingCounts ==
  ASSUME Finishing, NEW r \in ended, Counts(r)'
  PROVE  Counts(r) /\ (r[2] = "delete" => patch'.fin # "allow")
<1>1. ClusterOK /\ NothingAhead /\ MemoryOK
  BY DEF Finishing, Base, TInv, Types
<1>2. Deciding
  BY DEF Finishing, Deciding
<1>3. phase' = "patching"
  BY FinishingFacts
<1> QED BY <1>1, <1>2, <1>3, CountsKept DEF Counts, Allows

(* Nobody's record that counts is purged too early.                        *)
LEMMA OutcomeSafe ==
  ASSUME Finishing, NEW r \in ended, Counts(r)'
  PROVE  Safe(r, Outcome)
<1> SUFFICES ASSUME Applies(r, Outcome) PROVE IsKept(r, Outcome.progress)
  BY DEF Safe
<1>1. Counts(r) /\ Applies(r, event.body) /\ Reason = r[2] /\ Unfinished # {} /\ r[1] \in Handlers
  BY FinishingCounts, TurnLasts, FinishingFacts
<1>2. IsKept(r, state)
  BY <1>1, FinishingFacts DEF Finishing, InHandling
<1>3. \/ Outcome.progress[r[1]] = state[r[1]]
      \/ Outcome.progress[r[1]] = object.progress[r[1]] /\ state[r[1]] = event.body.progress[r[1]]
  BY <1>1, <1>2, OutcomeUnfinished DEF IsKept
<1>4. CASE Outcome.progress[r[1]] = state[r[1]]
  BY <1>1, <1>2, <1>4, OutcomeFacts DEF IsKept
<1>5. CASE Outcome.progress[r[1]] = object.progress[r[1]] /\ state[r[1]] = event.body.progress[r[1]]
  <2>1. CASE SameRecords(event.body, object)
    BY <1>1, <1>2, <1>5, <2>1, OutcomeFacts DEF IsKept, SameRecords
  <2>2. CASE event.body.deleting
    <3>1. r[2] = "delete" /\ object.deleting /\ object.finalizer
      BY <1>1, <2>2, FinishingReasons, FinishingFacts DEF Follows, Sound, Blocked
    <3>2. Applies(r, object)
      BY <3>1 DEF Applies, ReasonOf
    <3>3. r[1] \notin Exempt
      BY <1>2, <1>5 DEF Exempt, Unsaved, IsKept
    <3>4. Fit(object)
      BY DEF Finishing, Knowledge
    <3>5. IsKept(r, object.progress)
      BY <1>1, <3>2, <3>3, <3>4 DEF Fit, Safe
    <3> QED BY <1>1, <1>5, <3>5, OutcomeFacts DEF IsKept
  <2> QED BY <2>1, <2>2, FinishingFacts
<1> QED BY <1>3, <1>4, <1>5

(* Nor the records of those who have resumed.                              *)
LEMMA OutcomeResumed ==
  ASSUME Finishing, ~memory'.handled, ~Outcome.deleting, NEW h \in Resumes
  PROVE  Finished(Outcome.progress[h])
<1>1. ~memory.handled /\ ~IsDone
  BY FinishingIsRemembered DEF Finishing, Base, TInv, Types
<1>2. ~event.body.deleting /\ SameRecords(event.body, object)
  BY OutcomeFacts, FinishingFacts DEF Follows
<1>3. h \in DOMAIN state /\ Finished(state[h]) /\ h \in OnlyResuming
  BY <1>1, <1>2, FinishingFacts DEF Finishing, InHandling, Resumes
<1>4. Reason \in HandlerReasons
  <2>1. DOMAIN state = IF Reason \in HandlerReasons THEN Stored \cup Active ELSE {}
    BY FinishingFacts DEF Finishing, Base, HandlingShape
  <2> QED BY <1>3, <2>1
<1>5. Unfinished # {}
  BY <1>1, <1>4 DEF IsDone
<1>6. memory.listed /\ \E r \in ended : r[1] = h /\ r[2] \in {"update", "resume"}
  BY DEF Finishing, Base, MemoryShape, Resumes
<1>7. event.body.diffbase # 0
  BY <1>6, FinishingFacts DEF Later
<1>8. Reason \in {"update", "resume"}
  BY <1>2, <1>4, <1>7, FinishingReasons DEF HandlerReasons
<1>9. h \in Active
  <2>1. h \in Resuming /\ IsInitial
    BY <1>1, <1>3, <1>6 DEF OnlyResuming, IsInitial
  <2>2. h \in Selected
    BY <1>8, <2>1 DEF Selected
  <2> QED BY <2>2, SelectedType
<1>10. state[h].purpose = Reason
  BY <1>3, <1>9, FinishingFacts DEF Finishing, Base, HandlingShape
<1>11. Outcome.progress[h] = state[h]
  BY <1>2, <1>3, <1>5, <1>10, OutcomeUnfinished DEF SameRecords
<1> QED BY <1>3, <1>11

-----------------------------------------------------------------------------
(* So the patches that are decided upon are right.                         *)

(* If there is nothing to store, then nobody who has finished now will be  *)
(* wanted again for what is on its way.                                    *)
LEMMA NotWantedAgain ==
  ASSUME Finishing, Unfinished = {}, IsDone, ~StoredEssence, NEW r \in ended, Counts(r)',
         NEW x \in Objects, Follows(event.body, x), x.deleting \/ SameRecords(x, object)
  PROVE  ~Applies(r, x)
<1> SUFFICES ASSUME Applies(r, x) PROVE FALSE
  OBVIOUS
<1>1. /\ event.body.essence = event.body.diffbase
      /\ event.body.essence # 0 /\ event.body \in Objects
      /\ Later(r, event.body) /\ r[2] \in HandlerReasons /\ r[3] \in Nat
      /\ x.gen \in Nat /\ event.body.gen \in Nat
  BY FinishingReasons, FinishingFacts DEF StoredEssence, Objects, Bodies
<1>2. CASE event.body.deleting
  <2>1. x.deleting /\ event.body.finalizer
    BY <1>2, FinishingReasons DEF Follows
  <2>2. r[2] = "delete"
    BY <1>1, <2>1 DEF Applies, ReasonOf, HandlerReasons
  <2>3. patch'.fin = "allow"
    BY <1>2, <2>1, FinishingPatch DEF ReleasesNow
  <2> QED BY <2>2, <2>3, FinishingCounts
<1>3. CASE ~event.body.deleting
  <2>1. r[2] \in {"create", "update"} /\ ~x.deleting
    BY <1>1, <1>3 DEF Applies, ReasonOf, Later, HandlerReasons
  <2>2. x.diffbase # 0
    BY <1>1 DEF Follows
  <2>3. r[2] = "update" /\ x.gen = r[3] /\ x.diffbase # x.essence
    BY <2>1, <2>2 DEF Applies, ReasonOf
  <2>4. x.gen = event.body.gen
    BY <1>1, <2>3 DEF Follows, Later
  <2>5. x.essence = event.body.essence
    BY <2>4 DEF Follows
  <2>6. x.diffbase = event.body.diffbase
    BY <1>3, <2>1, FinishingFacts DEF SameRecords
  <2> QED BY <1>1, <2>3, <2>5, <2>6
<1> QED BY <1>2, <1>3

(* A patch with nothing to merge is of a cycle in which all is done.       *)
LEMMA NothingToStore ==
  ASSUME Finishing, ~HasMerge(patch'), Unsaved # {}
  PROVE  Unfinished = {} /\ IsDone /\ ~StoredEssence
<1>1. PICK h \in Unsaved : TRUE
  OBVIOUS
<1>2. h \in Altered /\ h \in DOMAIN state
  BY <1>1 DEF Unsaved, Altered
<1>3. h \in Active
  BY <1>2, FinishingFacts DEF Finishing, Base, HandlingShape, Altered
<1>4. DOMAIN patch'.progress = {} /\ patch'.diffbase = 0
  BY DEF HasMerge
<1>5. ~StoredEssence
  BY <1>4, FinishingPatch, FinishingReasons
<1>6. IsDone
  <2> SUFFICES ASSUME ~IsDone PROVE FALSE
    OBVIOUS
  <2>1. h \in DOMAIN patch'.progress
    BY <1>2, <1>3, FinishingPatch
  <2> QED BY <1>4, <2>1
<1> QED BY <1>5, <1>6 DEF IsDone

(* An essence is stored when all the handlers have finished since the one  *)
(* before.                                                                 *)
LEMMA StoredIsSeen ==
  ASSUME Finishing, patch'.diffbase # 0, ~event.body.deleting
  PROVE  patch'.diffgen <= object.gen /\ SeenBy(patch', object.diffgen)
<1>1. StoredEssence /\ patch'.diffgen = event.body.gen
  BY FinishingPatch
<1>2. /\ event.body.gen <= object.gen /\ object.diffgen = event.body.diffgen
  BY FinishingFacts DEF Follows, SameRecords
<1>3. ASSUME NEW h \in AlwaysChanging
      PROVE  \E r \in ended : r[1] = h /\ object.diffgen < r[3] /\ r[3] <= patch'.diffgen
  <2>1. Reason \in {"create", "update"}
    BY <1>1, FinishingReasons DEF StoredEssence, IsDone, HandlerReasons
  <2>2. h \in Selected
    BY <2>1 DEF Selected, AlwaysChanging
  <2>3. h \in Active /\ h \in DOMAIN state
    <3>1. PlanIsActive /\ phase = "handling"
      BY FinishingFacts DEF Finishing, Base, TInv
    <3> QED BY <2>2, <3>1, SelectedType DEF PlanIsActive
  <2>4. Finished(state[h])
    BY <1>1, <2>3 DEF StoredEssence, IsDone, Unfinished
  <2>5. EndedSince(h, event.body.diffgen)
    BY <2>3, <2>4, FinishingFacts DEF Finishing, InHandling
  <2>6. \A r \in ended : r[3] <= event.body.gen
    BY FinishingFacts DEF Later
  <2> QED BY <1>1, <1>2, <2>5, <2>6 DEF EndedSince
<1> QED BY <1>1, <1>2, <1>3 DEF SeenBy

(* The patch of a finished handling is right.                              *)
LEMMA FinishingFits ==
  ASSUME Finishing
  PROVE  InPatching'
<1>0. UNCHANGED <<object, event, state, ended, resumed, excused, wire, backlog, alive>>
  BY FinishingFacts
<1>1. PICK m : m = Outcome
  OBVIOUS
<1>a. Merged(object, patch)' = m
  BY <1>0, <1>1 DEF Outcome
<1>2. Resumes' = Resumes /\ Unsaved' = Unsaved /\ InFlight' = InFlight
  BY <1>0 DEF Resumes, Unsaved, InFlight, Elements
<1>3. Limit' = Limit
  BY FinishingFacts DEF Limit
<1>4. Sound(m)'
  BY <1>0, <1>1, OutcomeSound, SoundLater
<1>5. Fits(m)'
  <2>1. \A r \in ended' : Counts(r)' => Safe(r, m)
    BY <1>0, <1>1, OutcomeSafe
  <2>2. event'.body.deleting => AllDelete(m.progress)
    BY <1>0, <1>1, OutcomeOfDeletion
  <2>3. ~memory'.handled /\ ~m.deleting => \A h \in Resumes' : Finished(m.progress[h])
    BY <1>1, <1>2, OutcomeResumed
  <2> QED BY <1>4, <2>1, <2>2, <2>3 DEF Fits, Safe, Applies, IsKept, ReasonOf, AllDelete
<1>b. Fits(Merged(object, patch))'
  BY <1>5, <1>a
<1>6. ASSUME ~HasMerge(patch')
      PROVE  /\ \A r \in ended' : r[1] \in Unsaved' /\ Counts(r)' =>
                  /\ ~Applies(r, object')
                  /\ \A e \in InFlight' : e.body.version >= Limit' => ~Applies(r, e.body)
             /\ ~memory'.handled => Resumes' \cap Unsaved' = {}
  <2> SUFFICES ASSUME Unsaved # {}
      PROVE  /\ \A r \in ended : Counts(r)' =>
                  /\ ~Applies(r, object)
                  /\ \A e \in InFlight : Relevant(e.body) => ~Applies(r, e.body)
             /\ memory'.handled
    BY <1>0, <1>2, <1>3 DEF Relevant
  <2>1. Unfinished = {} /\ IsDone /\ ~StoredEssence
    BY <1>6, NothingToStore
  <2>2. memory'.handled
    BY <2>1, FinishingIsRemembered DEF Finishing, Base, TInv, Types
  <2>3. object \in Objects /\ Follows(event.body, object) /\ SameRecords(object, object)
    BY FinishingFacts DEF SameRecords
  <2>4. \A e \in InFlight : Relevant(e.body) =>
           e.body \in Objects /\ Follows(event.body, e.body) /\ (e.body.deleting \/ SameRecords(e.body, object))
    <3>1. \A e \in InFlight : Relevant(e.body) => Known(e.body)
      BY DEF Finishing, Knowledge, Fit
    <3>2. \A e \in InFlight : e.body \in Objects
      BY InFlightTypes DEF Finishing, Base, TInv, Types
    <3>3. \A e \in InFlight : Follows(event.body, e.body)
      BY FinishingFacts DEF Finishing, Base, Ordered
    <3> QED BY <3>1, <3>2, <3>3 DEF Known
  <2> QED BY <2>1, <2>2, <2>3, <2>4, NotWantedAgain
<1>7. patch'.diffbase # 0 /\ ~event'.body.deleting =>
         patch'.diffgen <= object'.gen /\ SeenBy(patch', object'.diffgen)
  BY <1>0, StoredIsSeen
<1> QED BY <1>0, <1>b, <1>6, <1>7 DEF InPatching, Relevant, HasMerge, SeenBy, Applies, ReasonOf

(* A cycle without handlers touches nothing but the finalizer.             *)
LEMMA FinalizerOnlyMerged ==
  ASSUME NEW o \in Objects, NEW p, IsPatch(p), FinalizerOnly(p)
  PROVE  /\ Merged(o, p) \in Objects
         /\ Merged(o, p).gen = o.gen /\ Merged(o, p).version = o.version /\ Merged(o, p).essence = o.essence
         /\ Merged(o, p).deleting = o.deleting /\ Merged(o, p).finalizer = o.finalizer
         /\ SameRecords(Merged(o, p), o)
<1>1. Merged(o, p).progress = o.progress
  <2>1. o.progress = [h \in Handlers |-> o.progress[h]]
    BY DEF Objects, Bodies
  <2>2. DOMAIN p.progress = {}
    BY DEF FinalizerOnly, NoProgress
  <2> QED BY <2>1, <2>2, MergedType
<1> QED BY <1>1, MergedType, MergedMore DEF FinalizerOnly, SameRecords

(* The patch of a cycle without handlers is right.                         *)
LEMMA SkippingFits ==
  ASSUME Base, Knowledge, SkipHandlers, event.type # "DELETED", alive
  PROVE  InPatching'
<1>0. /\ ClusterOK /\ MemoryOK /\ NothingAhead /\ EventOK
      /\ object \in Objects /\ phase = "detecting" /\ Sound(object)
      /\ Fit(object)
  BY DEF Base, TInv, Types, ClusterOK, SkipHandlers, AllSound, Knowledge
<1>1. /\ UNCHANGED <<object, event, state, ended, resumed, excused, wire, backlog, alive, memory>>
      /\ phase' = "patching" /\ IsPatch(patch') /\ FinalizerOnly(patch')
  <2>1. event \in Events
    BY <1>0 DEF EventOK
  <2>2. IsPatch(patch)' /\ UNCHANGED <<event, state>> /\ phase' = "patching"
    BY <1>0, <2>1, SkippingDecides
  <2>3. UNCHANGED <<object, wire, backlog, alive, memory, ended, resumed, excused>>
    BY DEF SkipHandlers, clusterVars, historyVars
  <2> QED BY <1>0, <2>2, <2>3, SkippedPatch DEF FinalizerOnly, IsPatch, IsPart
<1>a. PICK m : m = Merged(object, patch')
  OBVIOUS
<1>2. /\ m \in Objects
      /\ m.gen = object.gen /\ m.version = object.version /\ m.essence = object.essence
      /\ m.deleting = object.deleting /\ m.finalizer = object.finalizer
      /\ SameRecords(m, object)
  BY <1>0, <1>1, <1>a, FinalizerOnlyMerged
<1>3. Merged(object, patch)' = m
  BY <1>1, <1>a
<1>4. state = NoProgress /\ Exempt = {}
  BY <1>0 DEF Base, ResultShape, Resting, Early, Exempt
<1>5. Unsaved' = {}
  BY <1>1, <1>4 DEF Unsaved, NoProgress
<1>6. Sound(m)'
  <2>1. Sound(m)
    BY <1>0, <1>2 DEF Sound, SameRecords, Blocked
  <2> QED BY <1>1, <2>1, SoundLater
<1>7. \A r \in ended' : Counts(r)' => Safe(r, m)
  <2> SUFFICES ASSUME NEW r \in ended, Counts(r)' PROVE Safe(r, m)
    BY <1>1
  <2>1. Counts(r)
    BY <1>0, CountsKept DEF Deciding
  <2>2. Safe(r, object)
    BY <1>0, <1>4, <2>1 DEF Fit
  <2> QED BY <1>2, <2>2 DEF Safe, Applies, ReasonOf, IsKept, SameRecords
<1>8. ~memory'.handled /\ ~m.deleting => \A h \in Resumes' : Finished(m.progress[h])
  BY <1>0, <1>1, <1>2, <1>4 DEF Fit, Resumes, SameRecords
<1>9. Fits(m)'
  BY <1>1, <1>6, <1>7, <1>8 DEF Fits, Safe, Applies, ReasonOf, IsKept, FinalizerOnly
<1>b. Fits(Merged(object, patch))'
  BY <1>3, <1>9
<1> QED BY <1>1, <1>b, <1>5 DEF InPatching, FinalizerOnly

-----------------------------------------------------------------------------
(* The patch remains right while others edit and delete the object.        *)

LEMMA MergedFollows ==
  ASSUME NEW a \in Objects, NEW b \in Objects, NEW p, IsPatch(p), Follows(a, b), SameRecords(b, a)
  PROVE  /\ Merged(a, p) \in Objects /\ Merged(b, p) \in Objects
         /\ Follows(Merged(a, p), Merged(b, p)) /\ SameRecords(Merged(a, p), Merged(b, p))
<1> DEFINE m == Merged(a, p)
           n == Merged(b, p)
           Of(o) == [h \in Handlers |-> IF h \in DOMAIN p.progress THEN p.progress[h] ELSE o.progress[h]]
<1>1. /\ m \in Objects /\ m.version = a.version /\ m.gen = a.gen /\ m.deleting = a.deleting
      /\ m.progress = Of(a)
      /\ n \in Objects /\ n.version = b.version /\ n.gen = b.gen /\ n.deleting = b.deleting
      /\ n.progress = Of(b)
  BY MergedType
<1>2. Of(a) = Of(b) /\ a.diffbase = b.diffbase /\ a.diffgen = b.diffgen
  BY DEF SameRecords
<1>3. /\ m.essence = a.essence /\ n.essence = b.essence
      /\ m.diffbase = n.diffbase /\ m.diffgen = n.diffgen
  BY <1>2, MergedMore
<1>4. a.version = b.version => m = n
  BY DEF Follows
<1> HIDE DEF m, n, Of
<1>5. SameRecords(m, n)
  BY <1>1, <1>2, <1>3 DEF SameRecords
<1>6. Follows(m, n)
  BY <1>1, <1>3, <1>4 DEF Follows
<1> QED BY <1>1, <1>5, <1>6 DEF m, n

LEMMA PatchingOutside ==
  ASSUME NoHaste, Base, InPatching, Next, Outside, phase = "patching", alive, alive'
  PROVE  InPatching'
<1>0. ClusterOK /\ MemoryOK /\ NothingAhead /\ object \in Objects /\ IsPatch(patch)
  BY DEF Base, TInv, Types, ClusterOK, CycleOK
<1>1. UNCHANGED <<phase, event, memory, ended, resumed, state, patch>>
  BY OutsideLeaves
<1>2. object' \in Objects /\ Follows(object, object') /\ SameRecords(object', object) /\ ~Merging
  <2>1. ~Merging
    BY <1>1 DEF Merging, PatchMerge, NoPatchMerge
  <2> QED BY <2>1, ObjectLater
<1>3. PICK m : m = Merged(object, patch)
  OBVIOUS
<1>4. PICK n : n = Merged(object', patch)
  OBVIOUS
<1>5. Fits(m)
  BY <1>3 DEF InPatching
<1>6. m \in Objects /\ n \in Objects /\ Follows(m, n) /\ SameRecords(m, n)
  BY <1>0, <1>2, <1>3, <1>4, MergedFollows
<1>7. Blocked(n) /\ Blocked(object)
  <2>1. Blocked(object')
    BY <1>0, ObjectFollows DEF Base, AllSound, Sound, TInv, Types
  <2> QED BY <1>0, <1>2, <1>4, <2>1, MergedType DEF Blocked, Base, AllSound, Sound
<1>8. ASSUME NEW r \in ended
      PROVE  r[2] \in HandlerReasons /\ r[3] \in Nat /\ Later(r, m) /\ Later(r, object)
  <2>1. r[2] \in HandlerReasons /\ r[3] \in Nat /\ Later(r, object)
    BY <1>0, EndedIsSeen DEF Base, AfterEnded
  <2>2. m.gen = object.gen /\ m.deleting = object.deleting
    BY <1>0, <1>3, MergedType
  <2>3. object.diffbase # 0 => m.diffbase # 0
    BY <1>0, <1>3, MergedMore
  <2> QED BY <2>1, <2>2, <2>3 DEF Later
<1>9. \A r \in ended : Counts(r)' => Counts(r)
  BY <1>0, CountsKept
<1>10. Resumes' \subseteq Resumes
  BY <1>1, OutsideLeaves, Constants DEF Resumes, OnlyResuming
<1>11. Sound(n)'
  BY <1>1, <1>5, <1>6, <1>7, SoundFollows DEF Fits
<1>12. \A r \in ended : Counts(r)' => Safe(r, n)
  <2> SUFFICES ASSUME NEW r \in ended, Counts(r)', Applies(r, n) PROVE IsKept(r, n.progress)
    BY DEF Safe
  <2>1. Applies(r, m)
    BY <1>5, <1>6, <1>8, AppliesEarlier DEF Fits, Sound, SameRecords
  <2>2. IsKept(r, m.progress)
    BY <1>5, <1>9, <2>1 DEF Fits, Safe
  <2> QED BY <1>6, <2>2 DEF SameRecords
<1>13. /\ event.body.deleting /\ ~FinalizerOnly(patch) => AllDelete(n.progress)
       /\ ~memory.handled /\ ~n.deleting => \A h \in Resumes' : Finished(n.progress[h])
  BY <1>5, <1>6, <1>10 DEF Fits, SameRecords, Follows
<1>14. Fits(n)'
  BY <1>1, <1>11, <1>12, <1>13 DEF Fits, Safe, Applies, ReasonOf, IsKept, AllDelete, FinalizerOnly
<1>15. Merged(object, patch)' = n
  BY <1>1, <1>4
<1>16. ASSUME NEW r \in ended, NEW b \in Objects, Follows(object, b), SameRecords(b, object),
              ~Applies(r, object)
       PROVE  ~Applies(r, b)
  BY <1>0, <1>7, <1>8, <1>16, AppliesEarlier DEF SameRecords
<1>17. ASSUME ~HasMerge(patch)
       PROVE  /\ \A r \in ended : r[1] \in Unsaved /\ Counts(r)' =>
                   /\ ~Applies(r, object')
                   /\ \A e \in InFlight' : e.body.version >= Limit' => ~Applies(r, e.body)
              /\ ~memory.handled => Resumes' \cap Unsaved = {}
  <2>1. ASSUME NEW r \in ended, r[1] \in Unsaved, Counts(r)'
        PROVE  /\ ~Applies(r, object')
               /\ \A e \in InFlight' : e.body.version >= Limit' => ~Applies(r, e.body)
    <3>1. ~Applies(r, object) /\ \A e \in InFlight : Relevant(e.body) => ~Applies(r, e.body)
      BY <1>9, <1>17, <2>1 DEF InPatching
    <3>2. ~Applies(r, object')
      BY <1>2, <1>16, <3>1
    <3> QED BY <3>1, <3>2, RelevantLater DEF Base
  <2>2. ~memory.handled => Resumes \cap Unsaved = {}
    BY <1>17 DEF InPatching
  <2> QED BY <1>10, <2>1, <2>2
<1>18. Unsaved' = Unsaved
  BY <1>1 DEF Unsaved
<1>19. patch.diffbase # 0 /\ ~event.body.deleting =>
         patch.diffgen <= object'.gen /\ SeenBy(patch, object'.diffgen)
  <2>1. /\ object.gen <= object'.gen /\ object'.diffgen = object.diffgen
        /\ object.gen \in Nat /\ object'.gen \in Nat /\ patch.diffgen \in Nat
    BY <1>0, <1>2 DEF Follows, SameRecords, Objects, Bodies, IsPatch
  <2> QED BY <2>1 DEF InPatching
<1>20. Fits(Merged(object, patch))'
  BY <1>14, <1>15
<1> QED BY <1>1, <1>20, <1>17, <1>18, <1>19 DEF InPatching, Relevant, Applies, ReasonOf, SeenBy,
           HasMerge

(* All together.                                                           *)
LEMMA InPatchingLater ==
  ASSUME NoHaste, Base, Knowledge, InHandling, InPatching, Next
  PROVE  InPatching'
<1> SUFFICES ASSUME alive', phase' = "patching" PROVE InPatching'
  BY DEF InPatching
<1>1. alive
  BY ObjectFollows DEF Base, TInv, Types
<1>2. CASE Outside /\ phase = "patching"
  BY <1>1, <1>2, PatchingOutside
<1>3. CASE SkipHandlers /\ event.type # "DELETED"
  BY <1>1, <1>3, SkippingFits
<1>4. CASE FinishHandling /\ event.type # "DELETED"
  BY <1>1, <1>4, FinishingFits DEF Finishing
<1> QED BY <1>2, <1>3, <1>4, PhaseSteps DEF Deciding

-----------------------------------------------------------------------------
(* What is known, when the patch reaches the object.                       *)

LEMMA NothingMerged ==
  ASSUME NEW p, IsPatch(p), ~HasMerge(p)
  PROVE  FinalizerOnly(p)
<1>1. p.progress \in [{} -> Records]
  BY DEF HasMerge, IsPatch, IsPart
<1>2. p.progress = NoProgress
  BY <1>1 DEF NoProgress
<1> QED BY <1>2 DEF FinalizerOnly, HasMerge

(* The object has the records of the outcome.                              *)
LEMMA MergedObject ==
  ASSUME TInv, Merging, Next
  PROVE  /\ object' \in Objects /\ object'.gen = object.gen /\ object'.essence = object.essence
         /\ object'.deleting = object.deleting /\ object'.finalizer = object.finalizer
         /\ SameRecords(object', Merged(object, patch))
         /\ phase = "patching" /\ phase' = "finalizing"
         /\ UNCHANGED <<event, patch, state, memory, expected, deadline, ended, resumed, excused, alive>>
<1>0. ClusterOK /\ CycleOK /\ object \in Objects /\ IsPatch(patch)
  BY DEF TInv, Types, ClusterOK, CycleOK
<1>1. CASE NoPatchMerge
  <2>1. FinalizerOnly(patch)
    BY <1>0, <1>1, NothingMerged DEF NoPatchMerge
  <2>2. SameRecords(Merged(object, patch), object)
    BY <1>0, <2>1, FinalizerOnlyMerged
  <2> QED BY <1>0, <1>1, <2>2 DEF NoPatchMerge, clusterVars, streamVars, historyVars, SameRecords
<1>2. CASE PatchMerge
  <2>1. UNCHANGED <<event, patch, state, memory, expected, deadline, ended, resumed, excused>>
        /\ phase = "patching" /\ phase' = "finalizing"
    BY <1>2 DEF PatchMerge, streamVars, historyVars
  <2>2. (Merged(object, patch) = object /\ UNCHANGED clusterVars) \/ Commit(Merged(object, patch))
    BY <1>2 DEF PatchMerge
  <2>3. CASE Merged(object, patch) = object /\ UNCHANGED clusterVars
    BY <1>0, <2>1, <2>3 DEF SameRecords, clusterVars
  <2>4. CASE Commit(Merged(object, patch))
    BY <1>0, <2>1, <2>4, MergeCommits
  <2> QED BY <2>2, <2>3, <2>4
<1> QED BY <1>1, <1>2 DEF Merging

(* It is fit, since the outcome of the patch was.                          *)
LEMMA MergedFits ==
  ASSUME Base, InPatching, Merging, Next, alive
  PROVE  /\ Fit(object)'
         /\ Exempt' = {} /\ Resumes' = Resumes
         /\ \A r \in ended : Counts(r)' <=> Counts(r)
<1>0. TInv /\ object \in Objects /\ IsPatch(patch)
  BY DEF Base, TInv, Types, ClusterOK, CycleOK
<1>1. /\ object' \in Objects /\ object'.gen = object.gen /\ object'.essence = object.essence
      /\ object'.deleting = object.deleting /\ object'.finalizer = object.finalizer
      /\ SameRecords(object', Merged(object, patch)) /\ phase = "patching" /\ phase' = "finalizing"
      /\ UNCHANGED <<event, patch, state, memory, expected, deadline, ended, resumed, excused, alive>>
  BY <1>0, MergedObject
<1>2. PICK m : m = Merged(object, patch)
  OBVIOUS
<1>3. Fits(m) /\ SameRecords(object', m)
  BY <1>1, <1>2 DEF InPatching
<1>4. /\ m.gen = object.gen /\ m.essence = object.essence /\ m.deleting = object.deleting
      /\ m.finalizer = object.finalizer
  BY <1>0, <1>2, MergedType, MergedMore
<1>5. Exempt' = {} /\ Resumes' = Resumes /\ \A r \in ended : Counts(r)' <=> Counts(r)
  BY <1>1 DEF Exempt, Resumes, Counts, Allows
<1>6. Known(object)'
  BY DEF Known, SameRecords
<1>7. \A r \in ended : Counts(r) => Safe(r, object')
  BY <1>1, <1>3, <1>4 DEF Fits, Safe, Applies, ReasonOf, IsKept, SameRecords
<1>8. ~memory.handled /\ ~object'.deleting => \A h \in Resumes : Finished(object'.progress[h])
  BY <1>1, <1>3, <1>4 DEF Fits, SameRecords
<1>9. Fit(object)'
  BY <1>1, <1>5, <1>6, <1>7, <1>8 DEF Fit, Safe, Applies, ReasonOf, IsKept
<1> QED BY <1>5, <1>9

(* Nothing is known of the other events any more, or it is as before.      *)
LEMMA MergedApart ==
  ASSUME Base, Knowledge, InPatching, Merging, Next, alive,
         NEW e \in InFlight, Relevant(e.body), ~(PatchMerge /\ patch.fin = "keep")
  PROVE  Fit(e.body)'
<1>0. TInv /\ object \in Objects /\ IsPatch(patch) /\ Fit(e.body)
  BY DEF Base, TInv, Types, ClusterOK, CycleOK, Knowledge
<1>1. /\ object' \in Objects /\ SameRecords(object', Merged(object, patch)) /\ phase = "patching"
      /\ UNCHANGED <<event, patch, state, memory, ended, resumed, excused, alive>>
  BY <1>0, MergedObject
<1>2. Exempt' = {} /\ Resumes' = Resumes /\ \A r \in ended : Counts(r)' <=> Counts(r)
  BY MergedFits
<1>3. PICK m : m = Merged(object, patch)
  OBVIOUS
<1>4. Fits(m) /\ SameRecords(object', m) /\ m = Merged(object, patch)
  BY <1>1, <1>3 DEF InPatching
<1>5. FinalizerOnly(patch) => Known(e.body)'
  <2> SUFFICES ASSUME FinalizerOnly(patch) PROVE Known(e.body)'
    OBVIOUS
  <2>1. SameRecords(object', object)
    BY <1>0, <1>4, FinalizerOnlyMerged DEF SameRecords
  <2> QED BY <1>0, <2>1, KnownLater DEF Fit
<1>6. CASE state = NoProgress /\ FinalizerOnly(patch)
  <2>1. Exempt = {}
    BY <1>6 DEF Exempt, Unsaved, NoProgress
  <2> QED BY <1>0, <1>1, <1>2, <1>5, <1>6, <2>1 DEF Fit, Safe, Applies, ReasonOf, IsKept
<1>7. CASE ~HasMerge(patch)
  <2>1. FinalizerOnly(patch) /\ Exempt = Unsaved
    BY <1>0, <1>1, <1>7, NothingMerged DEF Exempt
  <2>2. \A r \in ended : r[1] \in Unsaved /\ Counts(r) => ~Applies(r, e.body)
    BY <1>1, <1>7 DEF InPatching
  <2>3. ~memory.handled => Resumes \cap Unsaved = {}
    BY <1>1, <1>7 DEF InPatching
  <2>4. \A r \in ended : Counts(r) => Safe(r, e.body)
    BY <1>0, <2>1, <2>2 DEF Fit, Safe
  <2>5. ~memory.handled /\ ~e.body.deleting => \A h \in Resumes : Finished(e.body.progress[h])
    BY <1>0, <2>1, <2>3 DEF Fit
  <2> QED BY <1>1, <1>2, <1>5, <2>1, <2>4, <2>5 DEF Fit, Safe, Applies, ReasonOf, IsKept
<1>8. CASE event.body.deleting /\ patch.fin = "allow"
  <2>1. e.body.deleting
    BY <1>1, <1>8 DEF Base, Ordered, Follows
  <2>2. Known(e.body)'
    <3>1. CASE FinalizerOnly(patch)
      BY <1>5, <3>1
    <3>2. CASE ~FinalizerOnly(patch)
      <4>1. AllDelete(object'.progress)
        BY <1>4, <1>8, <3>2 DEF Fits, SameRecords, AllDelete
      <4> QED BY <2>1, <4>1 DEF Known, AllDelete
    <3> QED BY <3>1, <3>2
  <2>3. ASSUME NEW r \in ended, Counts(r) PROVE ~Applies(r, e.body)
    <3>1. r[2] \in HandlerReasons
      BY <1>0, EndedIsSeen DEF TInv, Types
    <3>2. r[2] # "delete"
      BY <1>1, <1>8, <2>3 DEF Counts, Allows
    <3> QED BY <2>1, <3>1, <3>2 DEF Applies, ReasonOf, HandlerReasons
  <2> QED BY <1>1, <1>2, <2>1, <2>2, <2>3 DEF Fit, Safe, Applies, ReasonOf
<1>9. patch.fin \in {"keep", "block", "allow"}
  BY <1>0 DEF IsPatch, Functions
<1>10. (PatchMerge /\ patch.fin # "keep") \/ ~HasMerge(patch)
  BY DEF Merging, NoPatchMerge
<1> QED BY <1>1, <1>6, <1>7, <1>8, <1>9, <1>10 DEF Base, PatchShape

(* In the steps of the patching.                                           *)
LEMMA MergingKnows ==
  ASSUME NoHaste, Base, Knowledge, InPatching, Merging, Next
  PROVE  Knowledge'
<1> SUFFICES ASSUME alive' PROVE Knowledge'
  BY DEF Knowledge
<1>0. TInv /\ ClusterOK /\ CycleOK /\ StreamOK
  BY DEF Base, TInv, Types
<1>1. /\ phase = "patching" /\ phase' = "finalizing" /\ alive
      /\ UNCHANGED <<event, patch, expected, deadline, alive>>
  BY <1>0, MergedObject
<1>2. Fit(object)'
  BY <1>1, MergedFits
<1>3. \A e \in InFlight' : e \in InFlight \/ e.body = object'
  BY <1>0, InFlightMoves
<1>4. ASSUME NEW e \in InFlight', e.body.version >= Limit' PROVE Fit(e.body)'
  <2>1. CASE e.body = object'
    BY <1>2, <2>1 DEF Fit
  <2>2. CASE PatchMerge /\ patch.fin = "keep" /\ e.body # object'
    <3>1. Ordered' /\ ClusterOK'
      BY <1>0, OrderedLater, WireMoves DEF Base
    <3>2. e.body \in Objects
      <4>1. StreamOK'
        BY <1>0, NextStream
      <4>2. e \in Events
        BY <3>1, <4>1 DEF InFlight, Elements, ClusterOK, StreamOK
      <4> QED BY <4>2 DEF Events
    <3>3. result' = object'.version /\ object'.version \in Nat /\ e.body.version \in Nat
      BY <2>2, <3>1, <3>2 DEF PatchMerge, ClusterOK, Objects, Bodies
    <3>4. object'.version # 0 => Limit' = object'.version
      BY <1>1, <2>2, <3>3 DEF Limit
    <3>5. Follows(e.body, object')
      BY <3>1 DEF Ordered
    <3>6. e.body.version <= object'.version /\ (e.body.version = object'.version => e.body = object')
      BY <3>5 DEF Follows
    <3> QED BY <1>4, <2>2, <3>3, <3>4, <3>6
  <2>3. CASE ~(PatchMerge /\ patch.fin = "keep") /\ e \in InFlight
    <3>1. Limit' = Limit
      <4>1. NoPatchMerge => result' = 0
        <5>1. result = 0
          BY <1>1 DEF Base, ResultShape
        <5> QED BY <5>1 DEF NoPatchMerge
      <4> QED BY <1>1, <2>3, <4>1 DEF Limit, Merging
    <3> QED BY <1>1, <1>4, <2>3, <3>1, MergedApart DEF Relevant
  <2> QED BY <1>3, <2>1, <2>2, <2>3
<1> QED BY <1>1, <1>2, <1>4 DEF Knowledge, Relevant, Early

-----------------------------------------------------------------------------
(* The invariant, and what follows from it.                                *)

LEMMA InitKnows == Init => KInv
<1> SUFFICES ASSUME Init PROVE KInv
  OBVIOUS
<1>1. TInv
  BY InitTypes
<1>2. PICK t \in {"listed", "changed"} : wire = <<Event(t, object)>>
  BY DEF Init
<1>3. backlog = <<>> /\ ended = {} /\ resumed = {} /\ phase = "idle" /\ memory = Forgotten /\ alive
      /\ patch = NoPatch /\ state = NoProgress /\ result = 0 /\ expected = 0 /\ deadline = "none"
  BY DEF Init
<1>4. Elements(wire) = {Event(t, object)} /\ Elements(backlog) = {}
  BY <1>2, <1>3, ShortElements
<1>5. \A e \in InFlight : e.body = object /\ e.type # "DELETED"
  BY <1>4 DEF InFlight, Event
<1>6. PICK x, d, f : object = NewObject(x, d, f)
  BY DEF Init
<1>7. Follows(object, object)
  BY <1>1, FollowsItself, SeenObjects DEF TInv, Types, ClusterOK
<1>8. Ordered /\ Latest
  <2>1. Sorted(wire) /\ Sorted(backlog) /\ wire[Len(wire)] = Event(t, object) /\ wire # <<>>
    BY <1>2, <1>3, SortedShort
  <2> QED BY <1>3, <1>4, <1>5, <1>7, <2>1 DEF Ordered, Latest, Early, Event
<1>9. Goodbye /\ AfterEnded /\ MemoryShape /\ ResultShape /\ HandlingShape /\ PatchShape
  BY <1>1, <1>3, <1>5 DEF Goodbye, AfterEnded, MemoryShape, ResultShape, HandlingShape, PatchShape,
     Forgotten, TInv, Types, StreamOK
<1>10. AllSound
  <2>1. Sound(object)
    <3>1. ~object.deleting /\ object.diffgen = 0 /\ object.gen = 1
          /\ \A h \in Handlers : object.progress[h] = NoRecord
      BY <1>6 DEF NewObject
    <3>2. AlwaysChanging \subseteq Handlers
      BY Constants DEF AlwaysChanging
    <3> QED BY <3>1, <3>2 DEF Sound, Blocked, OneOf, NoRecord, Finished
  <2> QED BY <1>3, <1>5, <2>1 DEF AllSound
<1>11. Knowledge
  <2>1. Fit(object)
    BY <1>3 DEF Fit, Known, SameRecords, Resumes
  <2> QED BY <1>3, <1>5, <2>1 DEF Knowledge, Early
<1> QED BY <1>1, <1>3, <1>8, <1>9, <1>10, <1>11 DEF KInv, Base, InHandling, InPatching

LEMMA NextKnows ==
  ASSUME NoHaste, KInv, [Next]_vars
  PROVE  KInv'
<1>1. CASE Next
  <2>1. TInv'
    BY NextTypes DEF KInv, Base
  <2>2. Ordered' /\ Latest' /\ Goodbye' /\ AfterEnded' /\ AllSound' /\ MemoryShape' /\ ResultShape'
        /\ HandlingShape' /\ PatchShape'
    BY <1>1, OrderedLater, LatestLater, GoodbyeLater, AfterEndedLater, AllSoundLater,
       MemoryShapeLater,
       ResultLater, HandlingLater, PatchShapeLater DEF KInv, Base
  <2>3. Knowledge'
    BY <1>1, KnowledgeLater, MergingKnows DEF KInv
  <2>4. InHandling' /\ InPatching'
    BY <1>1, InHandlingLater, InPatchingLater DEF KInv
  <2> QED BY <2>1, <2>2, <2>3, <2>4 DEF KInv, Base
<1>2. CASE UNCHANGED vars
  <2>1. UNCHANGED <<object, alive, wire, backlog, memory, expected, deadline, phase, event, patch, plan,
                    state, fresh, result, ended, resumed, excused>>
    BY <1>2 DEF vars
  <2>2. TInv'
    BY NextTypes DEF KInv, Base
  <2>3. Ordered' /\ Latest' /\ Goodbye' /\ AfterEnded'
    BY <2>1 DEF KInv, Base, Ordered, Latest, Goodbye, AfterEnded, InFlight
  <2>4. AllSound'
    BY <2>1 DEF KInv, Base, AllSound, Sound, EndedSince, InFlight
  <2>5. Exempt' = Exempt /\ Resumes' = Resumes /\ Limit' = Limit /\ InFlight' = InFlight
        /\ Unsaved' = Unsaved
    BY <2>1 DEF Exempt, Unsaved, Resumes, Limit, InFlight
  <2>6. \A r : Counts(r)' <=> Counts(r)
    BY <2>1 DEF Counts, Allows
  <2>7. MemoryShape' /\ ResultShape'
    BY <2>1 DEF KInv, Base, MemoryShape, ResultShape
  <2>8. HandlingShape' /\ PatchShape'
    <3>1. UNCHANGED <<Reason, IsInitial, Selected, Active, Stored, Extras, Purged, HasCause, PatchOnEntry>>
      BY <2>1, CauseKept
    <3>2. PatchShape'
      BY <2>1 DEF KInv, Base, PatchShape
    <3>3. HandlingShape'
      BY <2>1, <3>1 DEF KInv, Base, HandlingShape
    <3> QED BY <3>2, <3>3
  <2>9. Knowledge'
    BY <2>1, <2>5, <2>6 DEF KInv, Knowledge, Fit, Known, Safe, Relevant
  <2>10. InHandling'
    BY <2>1, <2>5, <2>6 DEF KInv, InHandling, Known, EndedSince
  <2>11. InPatching'
    BY <2>1, <2>5, <2>6 DEF KInv, InPatching, Fits, Relevant, Sound, EndedSince, SeenBy
  <2> QED BY <2>2, <2>3, <2>4, <2>7, <2>8, <2>9, <2>10, <2>11 DEF KInv, Base
<1> QED BY <1>1, <1>2

LEMMA AlwaysKnows == NoHaste => (Spec => []KInv)
<1> SUFFICES ASSUME NoHaste PROVE Spec => []KInv
  OBVIOUS
<1>1. Init => KInv
  BY InitKnows
<1>2. KInv /\ [Next]_vars => KInv'
  BY NextKnows
<1> QED BY <1>1, <1>2, PTL DEF Spec

(* All the records in the object are of one purpose: when the cause        *)
(* changes, those of the selected handlers are re-purposed, and any others *)
(* are purged by the same patch (State.with_purpose() and State.store(),   *)
(* processing.process_changing_cause()).                                   *)
THEOREM RecordsAreOfOnePurpose ==
  ASSUME NoHaste
  PROVE  Spec => []OnePurpose
<1>1. KInv => OnePurpose
  BY DEF KInv, Base, AllSound, Sound, OneOf, OnePurpose
<1> QED BY <1>1, AlwaysKnows, PTL

(* Whoever is run now has not finished for what applies now.               *)
LEMMA RunningAgain ==
  ASSUME KInv, Next, alive, NEW h \in Handlers, Ran(h)
  PROVE  /\ h \in Active /\ h \in DOMAIN state /\ ~Finished(state[h])
         /\ event \in Events /\ event.type # "DELETED" /\ Blocked(event.body)
         /\ \A r \in ended : r[2] \in HandlerReasons /\ Later(r, event.body)
         /\ \A r \in ended : r[1] = h /\ Counts(r) => ~Applies(r, event.body)
<1>1. TInv /\ phase = "handling" /\ h \in plan
  BY DEF KInv, Base, Ran
<1>2. h \in Active /\ h \in DOMAIN state /\ ~Finished(state[h])
  BY <1>1 DEF KInv, Base, TInv, PlanIsActive, HandlingShape
<1>3. event \in Events /\ event.type # "DELETED" /\ Blocked(event.body)
  BY <1>1 DEF KInv, Base, TInv, Types, EventOK, Goodbye, AllSound, Sound
<1>4. \A r \in ended : r[2] \in HandlerReasons /\ Later(r, event.body)
  BY <1>1, EndedIsSeen DEF KInv, Base, TInv, Types, AfterEnded
<1>5. \A r \in ended : Counts(r) /\ Applies(r, event.body) => IsKept(r, state)
  BY <1>1 DEF KInv, InHandling
<1> QED BY <1>2, <1>3, <1>4, <1>5 DEF IsKept

(* No handler is run again for a creation or a change for which it has     *)
(* finished, although the operator sees its own patches late: a cycle does *)
(* not start before the version of the last patch is seen (the consistency *)
(* tracking of queueing.worker() and the version returned by               *)
(* patch_and_check()), and starts from the records that are there. Except  *)
(* for those whose records were lost by a crash or with a failed request.  *)
THEOREM ChangesAreNotRepeated ==
  ASSUME NoHaste
  PROVE  Spec => ChangeIsNotRepeated
<1> DEFINE A == \A h \in Handlers :
                  Ran(h) /\ alive /\ h \notin excused /\ Reason \in {"create", "update"} =>
                    \A r \in ended : (r[1] = h /\ r[2] = Reason) =>
                                       (Reason = "update" /\ r[3] # event.body.gen)
<1>1. KInv /\ [Next]_vars => [A]_vars
  <2> SUFFICES ASSUME KInv, Next, NEW h \in Handlers, Ran(h), alive, h \notin excused,
                      Reason \in {"create", "update"}, NEW r \in ended, r[1] = h, r[2] = Reason
               PROVE  Reason = "update" /\ r[3] # event.body.gen
    OBVIOUS
  <2>1. event \in Events /\ event.type # "DELETED" /\ Counts(r) /\ ~Applies(r, event.body)
    BY RunningAgain DEF Counts
  <2> QED BY <2>1, ReasonsSeen, Constants DEF Applies, ReasonOf, Events, Objects, Bodies
<1> HIDE DEF A
<1>3. Spec => [][A]_vars
  BY <1>1, AlwaysKnows, PTL DEF Spec
<1> QED BY <1>3 DEF A, ChangeIsNotRepeated

(* The same for a deletion, when the finalizer's removal meets a conflict  *)
(* and is left over to the next cycle: the records are purged by then, but *)
(* the function on the finalizer is remembered, and no handler is run      *)
(* until it is applied (remaining_patch of the memory).                    *)
THEOREM DeletionsAreNotRepeated ==
  ASSUME NoHaste
  PROVE  Spec => DeletionIsNotRepeated
<1> DEFINE A == \A h \in Handlers : Ran(h) /\ alive /\ h \notin excused /\ Reason = "delete" =>
                  ~ \E r \in ended : r[1] = h /\ r[2] = "delete"
<1>1. KInv /\ [Next]_vars => [A]_vars
  <2> SUFFICES ASSUME KInv, Next, NEW h \in Handlers, Ran(h), alive, h \notin excused, Reason = "delete",
                      NEW r \in ended, r[1] = h, r[2] = "delete"
               PROVE  FALSE
    OBVIOUS
  <2>1. event \in Events /\ event.type # "DELETED" /\ (Counts(r) => ~Applies(r, event.body))
    BY RunningAgain
  <2>2. ~Allows
    BY DEF KInv, Base, HandlingShape, Ran, Allows
  <2> QED BY <2>1, <2>2, ReasonsSeen DEF Counts, Applies, ReasonOf
<1> HIDE DEF A
<1>3. Spec => [][A]_vars
  BY <1>1, AlwaysKnows, PTL DEF Spec
<1> QED BY <1>3 DEF A, DeletionIsNotRepeated

(* A handler that is only for resuming is run to its end at most once in   *)
(* the operator's lifetime, though the object is seen again and again: by  *)
(* its record until all the handlers are done, and by fully_handled_once   *)
(* since then.                                                             *)
THEOREM ResumedAtMostOnce ==
  ASSUME NoHaste
  PROVE  Spec => ResumedOnce
<1> DEFINE A == \A h \in OnlyResuming : Ran(h) /\ alive /\ h \notin excused => h \notin resumed
<1>1. KInv /\ [Next]_vars => [A]_vars
  <2> SUFFICES ASSUME KInv, Next, NEW h \in OnlyResuming, Ran(h), alive, h \notin excused, h \in resumed
               PROVE  FALSE
    OBVIOUS
  <2>1. h \in Handlers
    BY Constants DEF OnlyResuming
  <2>2. event \in Events /\ event.type # "DELETED" /\ h \in Active /\ ~Finished(state[h])
    BY <2>1, RunningAgain
  <2>3. Reason \in {"update", "resume"} /\ IsInitial
    BY <2>2, OnlyResumingRuns
  <2>4. ~memory.handled /\ ~event.body.deleting
    BY <2>2, <2>3, ReasonsSeen DEF IsInitial
  <2> QED BY <2>2, <2>4 DEF KInv, InHandling, Resumes, Ran
<1> HIDE DEF A
<1>3. Spec => [][A]_vars
  BY <1>1, AlwaysKnows, PTL DEF Spec
<1> QED BY <1>3 DEF A, ResumedOnce

(* No essence is stored as the last handled before every handler both for  *)
(* creation and for updates has finished since the previous one was        *)
(* stored, for an essence not newer than it: neither an edit that comes    *)
(* between the event and the patch, nor records left from another cause    *)
(* leave one of them out.                                                  *)
THEOREM LastHandledWasSeen ==
  ASSUME NoHaste
  PROVE  Spec => LastHandledIsSeen
<1> DEFINE A == object'.diffgen # object.diffgen /\ ~object.deleting =>
                  \A h \in AlwaysChanging : \E r \in ended :
                    r[1] = h /\ object.diffgen < r[3] /\ r[3] <= object'.diffgen
<1>1. KInv /\ [Next]_vars => [A]_vars
  <2> SUFFICES ASSUME KInv, Next, object'.diffgen # object.diffgen, ~object.deleting
               PROVE  \A h \in AlwaysChanging : \E r \in ended :
                        r[1] = h /\ object.diffgen < r[3] /\ r[3] <= object'.diffgen
    BY DEF vars
  <2>1. TInv /\ ClusterOK /\ CycleOK /\ object \in Objects /\ IsPatch(patch)
    BY DEF KInv, Base, TInv, Types, ClusterOK, CycleOK
  <2>2. PatchMerge
    BY <2>1, RecordsKept DEF SameRecords
  <2>3. phase = "patching" /\ alive /\ SameRecords(object', Merged(object, patch))
    BY <2>1, <2>2, MergedObject DEF Merging, PatchMerge
  <2>4. patch.diffbase # 0 /\ object'.diffgen = patch.diffgen
    BY <2>1, <2>3, MergedMore DEF SameRecords
  <2>5. ~event.body.deleting
    BY <2>3 DEF KInv, Base, Ordered, Follows
  <2> QED BY <2>3, <2>4, <2>5 DEF KInv, InPatching, SeenBy
<1> HIDE DEF A
<1>3. Spec => [][A]_vars
  BY <1>1, AlwaysKnows, PTL DEF Spec
<1> QED BY <1>3 DEF A, LastHandledIsSeen

-----------------------------------------------------------------------------
(* The worker does not rest with work undone.                              *)

(* Nothing is lost but by a crash of the operator, after which it lists    *)
(* the object again: no request, no event, no consistency timeout; and no  *)
(* on-event handler puts into every patch what is in the object already,   *)
(* so that the patch changes nothing and makes no event.                   *)
Undisturbed == Troubles \subseteq {"crash"} /\ ~Spying

(* Without failures, there is no throttling.                               *)
Untroubled ==
  /\ ~throttled /\ phase \notin {"throttled", "backoff"}
  /\ ~patch.spied

(* What is seen of the object: as it is, as it will be, as it was.         *)
Trail == {object} \cup {e.body : e \in InFlight} \cup (IF phase = "idle" THEN {} ELSE {event.body})

(* Only what came last is as new as the object.                            *)
Newest ==
  alive =>
    /\ \A i \in 1 .. Len(backlog) : backlog[i].body.version = object.version
                                      => i = Len(backlog) /\ wire = <<>>
    /\ \A i \in 1 .. Len(wire) : wire[i].body.version = object.version => i = Len(wire)
    /\ phase # "idle" /\ event.body.version = object.version
         => wire = <<>> /\ backlog = <<>> /\ event.body = object

(* Nobody but the operator changes the finalizer, and it adds one only when*)
(* nothing older is on its way: so it never sees it come, only go.         *)
OnceFree ==
  alive => \A a, b \in Trail : a.version <= b.version /\ ~a.finalizer => ~b.finalizer

(* Without deletion handlers, it is removed once, and by who has seen all. *)
NeverBlocked ==
  Deleting = {} /\ alive => \A a \in Trail : a.finalizer = object.finalizer

(* Only an object with handlers to retry is touched: its finalizer is as   *)
(* the handlers need it. Otherwise a function on the finalizer would be    *)
(* made along with a merge-patch which removes the dummy.                  *)
NeededFinalizer(b) == b.finalizer = (Deleting # {})

Touched ==
  \A a \in Trail : a.dummy => NeededFinalizer(a)

(* A function on the finalizer has something to do for all that is seen;   *)
(* one that has not, because it was done already, is a cycle lost.         *)
ToBeBlocked ==
  /\ alive /\ memory.remaining = "block" => \A a \in Trail : ~a.finalizer
  /\ alive /\ patch.fin = "block" => ~event.body.finalizer /\ ~HasMerge(patch)
  /\ Deleting = {} => memory.remaining # "block" /\ patch.fin # "block"

ToBeFreed ==
  Deleting = {} /\ alive =>
    /\ memory.remaining = "allow" => object.finalizer
    /\ patch.fin = "allow" => event.body.finalizer /\ ~HasMerge(patch)

(* What is awaited is on its way; since then, the finalizer is as it is.   *)
Awaited ==
  alive =>
    /\ deadline # "over"
    /\ deadline = "ahead" => \E e \in InFlight : e.body.version = expected
    /\ result # 0 => \E e \in InFlight : e.body.version = result
    /\ \A a \in Trail : a.version >= expected => a.finalizer = object.finalizer

(* There are delays only of handlers, for an object with its finalizer.    *)
Delayed ==
  alive /\ (\/ phase \in {"handling", "sleeping", "touching"}
            \/ phase \in {"patching", "finalizing"} /\ delay # "none")
    => /\ HasCause
       /\ event.body.finalizer = object.finalizer

(* A patch with a function on the finalizer also removes the dummy; the    *)
(* function is for the event or, after the merge, for its response, behind *)
(* which there is an event on its way.                                     *)
PatchIsFit ==
  /\ phase \notin {"patching", "finalizing"} => patch.fin = "keep"
  /\ phase \in {"patching", "finalizing"} =>
       /\ patch.fin # "keep" /\ event.body.dummy => patch.undummy
       /\ patch.fin # "keep" /\ ~event.body.deleting => FinalizerOnly(patch)
  /\ phase = "finalizing" =>
       /\ ~HasMerge(patch) => fresh = event.body
       /\ Follows(fresh, object)
       /\ alive /\ HasMerge(patch) => /\ fresh.finalizer = object.finalizer
                                      /\ wire # <<>> \/ backlog # <<>>
       /\ patch.undummy => ~fresh.dummy

(* If the operator sees the object as it is, there is something to do, or  *)
(* all is done: a merge-patch changes the object and so makes an event, an *)
(* operation on the finalizer too, a delay ends in a touch.                *)
InSync == alive /\ wire = <<>> /\ backlog = <<>>
Ops(fin, b) == (fin = "allow" /\ b.finalizer) \/ (fin = "block" /\ ~b.finalizer)
SettledOrDelayed == Settled \/ (IsEmpty(patch) /\ delay # "none")

AtRest ==
  InSync =>
    /\ phase = "idle" => Settled
    /\ phase # "idle" => event.body = object
    /\ phase = "patching" /\ HasMerge(patch) => Merged(object, patch) # object
    /\ phase \in {"patching", "finalizing"} /\ ~HasMerge(patch) /\ ~Ops(patch.fin, object)
         => SettledOrDelayed

RInv == /\ Untroubled /\ Newest /\ OnceFree /\ NeverBlocked /\ Touched /\ ToBeBlocked
        /\ ToBeFreed /\ Awaited /\ Delayed /\ PatchIsFit /\ AtRest

Calm == Undisturbed /\ Base /\ RInv

-----------------------------------------------------------------------------
(* What happens when only the operator crashes.                            *)

LEMMA CalmOnly ==
  ASSUME Undisturbed
  PROVE  /\ ~Relist /\ ~PatchRepeated /\ ~RequestFails
         /\ ConsistencyTimeout => wire = <<>> /\ backlog = <<>>
<1>1. "relist" \notin Troubles /\ "loss" \notin Troubles /\ "failure" \notin Troubles /\ "haste" \notin Troubles
  BY DEF Undisturbed
<1> QED BY <1>1 DEF Relist, PatchRepeated, RequestFails, ConsistencyTimeout, Befalls

LEMMA CalmTypes ==
  ASSUME Base
  PROVE  /\ TInv /\ ClusterOK /\ StreamOK /\ MemoryOK /\ EventOK /\ CycleOK
         /\ object \in Objects /\ object.version \in Nat /\ IsPatch(patch)
         /\ wire \in Seq(Events) /\ backlog \in Seq(Events)
         /\ phase # "idle" => event \in Events /\ event.body \in Objects
BY SeenObjects DEF Base, TInv, Types, ClusterOK, StreamOK, EventOK, CycleOK, Objects, Bodies

(* The object gets a new version by a commit only.                         *)
Growing ==
  /\ UNCHANGED <<backlog, alive>> /\ object'.version = object.version + 1
  /\ Event("changed", object') \in Events
  /\ wire' = Append(wire, Event("changed", object'))
  /\ InFlight' = InFlight \cup {Event("changed", object')}

LEMMA Grown ==
  ASSUME ClusterOK, NEW o \in Objects, Commit(o), o.version = object.version, UNCHANGED backlog
  PROVE  Growing
<1>1. /\ object' \in Objects /\ object'.version = o.version + 1
      /\ wire' = Append(wire, Event("changed", object')) /\ alive' = alive
  BY CommitChanges
<1>2. Event("changed", object') \in Events
  BY <1>1 DEF Event, Events
<1>3. Elements(wire)' = Elements(wire) \cup {Event("changed", object')}
  BY <1>1, <1>2, AppendElements DEF ClusterOK
<1>4. Elements(backlog)' = Elements(backlog)
  BY DEF Elements
<1> QED BY <1>1, <1>2, <1>3, <1>4 DEF Growing, InFlight

LEMMA GrownMerging ==
  ASSUME ClusterOK, CycleOK, Commit(Merged(object, patch)), UNCHANGED backlog
  PROVE  Growing
<1>1. Merged(object, patch) \in Objects /\ Merged(object, patch).version = object.version
  BY MergedType DEF ClusterOK, CycleOK
<1> QED BY <1>1, Grown

LEMMA CalmSteps ==
  ASSUME Undisturbed, Base, Next, alive'
  PROVE  /\ alive
         /\ \/ UNCHANGED <<object, wire, backlog>> /\ ~TakeEvent
            \/ Arrive \/ Crash \/ TakeEvent
            \/ Growing
<1>0. ClusterOK /\ CycleOK /\ backlog \in Seq(Events)
  BY CalmTypes
<1>1. alive
  BY <1>0, ObjectFollows
<1>2. ASSUME NEW o, Similar(o), Commit(o), UNCHANGED backlog PROVE Growing
  BY <1>0, <1>2, Grown DEF Similar
<1>3. UNCHANGED backlog /\ Commit(Merged(object, patch)) => Growing
  BY <1>0, GrownMerging
<1>4. ~Remove
  BY DEF Remove
<1> QED BY <1>0, <1>1, <1>2, <1>3, <1>4, StreamSteps, CalmOnly

(* What is seen is what was seen, or the object as it is.                  *)
LEMMA TrailIsSeen ==
  ASSUME Base
  PROVE  /\ \A a \in Trail : a \in Objects /\ a.version \in Nat /\ Follows(a, object) /\ a.version <= object.version
         /\ object \in Trail /\ (phase # "idle" => event.body \in Trail)
         /\ \A e \in InFlight : e.body \in Trail
<1>1. \A e \in InFlight : e.body \in Objects /\ Follows(e.body, object)
  BY CalmTypes, InFlightTypes DEF Base, Ordered
<1>2. object \in Objects /\ Follows(object, object)
  BY CalmTypes, FollowsItself, SeenObjects
<1>3. phase # "idle" => event.body \in Objects /\ Follows(event.body, object)
  BY CalmTypes DEF Base, Ordered
<1>4. \A a \in Trail : a \in Objects /\ Follows(a, object)
  BY <1>1, <1>2, <1>3 DEF Trail
<1> QED BY <1>4 DEF Trail, Follows, Objects, Bodies

LEMMA TrailLater ==
  ASSUME Base, Next
  PROVE  \A a \in Trail' : a \in Trail \/ a = object'
<1>1. \A e \in InFlight' : e \in InFlight \/ e.body = object'
  BY CalmTypes, InFlightMoves
<1>2. phase' # "idle" => (event'.body \in Trail \/ event'.body = object')
  <2>1. CASE TakeEvent
    <3>1. event' \in InFlight
      BY <2>1, CalmTypes, TakingTakes
    <3> QED BY <3>1 DEF Trail
  <2>2. CASE event' = event /\ phase # "idle"
    BY <2>2 DEF Trail
  <2> QED BY <2>1, <2>2, EventSteps
<1> QED BY <1>1, <1>2 DEF Trail

(* After a crash, all that is on its way is the object.                    *)
LEMMA TrailAfterCrash ==
  ASSUME Crash, alive
  PROVE  /\ wire' = <<Event("listed", object)>> /\ backlog' = <<>> /\ UNCHANGED <<object, alive>>
         /\ Trail' = {object'} /\ phase' = "idle"
<1>1. /\ wire' = <<Event("listed", object)>> /\ backlog' = <<>> /\ UNCHANGED <<object, alive>>
      /\ phase' = "idle"
  BY DEF Crash, Listing
<1>2. InFlight' = {Event("listed", object)}
  BY <1>1, ShortElements DEF InFlight
<1>3. Event("listed", object).body = object'
  BY <1>1 DEF Event
<1> QED BY <1>1, <1>2, <1>3 DEF Trail

-----------------------------------------------------------------------------
LEMMA NewestLater ==
  ASSUME Calm, Next
  PROVE  Newest'
<1> SUFFICES ASSUME alive'
    PROVE  /\ \A i \in 1 .. Len(backlog') : backlog'[i].body.version = object'.version
                                             => i = Len(backlog') /\ wire' = <<>>
           /\ \A i \in 1 .. Len(wire') : wire'[i].body.version = object'.version => i = Len(wire')
           /\ phase' # "idle" /\ event'.body.version = object'.version
                => wire' = <<>> /\ backlog' = <<>> /\ event'.body = object'
  BY DEF Newest
<1>0. /\ alive /\ wire \in Seq(Events) /\ backlog \in Seq(Events)
      /\ Len(wire) \in Nat /\ Len(backlog) \in Nat
  BY CalmSteps, CalmTypes DEF Calm
<1>n. /\ \A i \in 1 .. Len(backlog) : backlog[i].body.version = object.version
                                      => i = Len(backlog) /\ wire = <<>>
      /\ \A i \in 1 .. Len(wire) : wire[i].body.version = object.version => i = Len(wire)
      /\ phase # "idle" /\ event.body.version = object.version
         => wire = <<>> /\ backlog = <<>> /\ event.body = object
  BY <1>0 DEF Calm, RInv, Newest
<1>1. CASE UNCHANGED <<object, wire, backlog>> /\ ~TakeEvent
  BY <1>n, <1>1, EventSteps
<1>2. CASE Arrive
  <2>1. /\ wire # <<>> /\ backlog' = Append(backlog, Head(wire)) /\ wire' = Tail(wire)
        /\ UNCHANGED <<object, phase, event>>
    BY <1>2 DEF Arrive, cycleVars
  <2>2. /\ Len(backlog') = Len(backlog) + 1 /\ backlog'[Len(backlog) + 1] = wire[1]
        /\ \A i \in 1 .. Len(backlog) : backlog'[i] = backlog[i]
        /\ Len(wire) > 0 /\ Len(wire') = Len(wire) - 1 /\ wire' \in Seq(Events)
        /\ \A i \in 1 .. Len(wire) - 1 : wire'[i] = wire[i + 1]
    BY <1>0, <2>1
  <2>3. Len(wire') = 0 => wire' = <<>>
    BY <2>2
  <2>4. ASSUME NEW i \in 1 .. Len(backlog'), backlog'[i].body.version = object'.version
        PROVE  i = Len(backlog') /\ wire' = <<>>
    <3>1. CASE i = Len(backlog) + 1
      <4>1. wire[1].body.version = object.version /\ 1 \in 1 .. Len(wire)
        BY <1>0, <2>1, <2>2, <2>4, <3>1
      <4>2. 1 = Len(wire)
        BY <1>n, <4>1
      <4> QED BY <2>2, <2>3, <3>1, <4>2
    <3>2. CASE i \in 1 .. Len(backlog)
      BY <1>n, <2>1, <2>2, <2>4, <3>2
    <3> QED BY <1>0, <2>2, <3>1, <3>2
  <2>5. ASSUME NEW i \in 1 .. Len(wire'), wire'[i].body.version = object'.version
        PROVE  i = Len(wire')
    <3>1. i + 1 \in 1 .. Len(wire) /\ wire'[i] = wire[i + 1]
      BY <1>0, <2>2
    <3>2. i + 1 = Len(wire)
      BY <1>n, <2>1, <2>5, <3>1
    <3> QED BY <1>0, <2>2, <3>2
  <2> QED BY <1>n, <2>1, <2>4, <2>5
<1>3. CASE Crash
  <2>1. wire' = <<Event("listed", object)>> /\ backlog' = <<>> /\ phase' = "idle"
    BY <1>0, <1>3, TrailAfterCrash
  <2>2. Len(wire') = 1 /\ Len(backlog') = 0
    BY <2>1
  <2> QED BY <2>1, <2>2
<1>4. CASE TakeEvent
  <2>1. /\ backlog # <<>> /\ event' = backlog[1] /\ backlog' = Tail(backlog)
        /\ wire' = wire /\ object' = object
    BY <1>0, <1>4 DEF TakeEvent, clusterVars
  <2>2. /\ Len(backlog) > 0 /\ Len(backlog') = Len(backlog) - 1 /\ backlog' \in Seq(Events)
        /\ \A i \in 1 .. Len(backlog) - 1 : backlog'[i] = backlog[i + 1]
    BY <1>0, <2>1
  <2>3. Len(backlog') = 0 => backlog' = <<>>
    BY <2>2
  <2>4. ASSUME NEW i \in 1 .. Len(backlog'), backlog'[i].body.version = object'.version
        PROVE  i = Len(backlog') /\ wire' = <<>>
    <3>1. i + 1 \in 1 .. Len(backlog) /\ backlog'[i] = backlog[i + 1]
      BY <1>0, <2>2
    <3>2. i + 1 = Len(backlog) /\ wire = <<>>
      BY <1>n, <2>1, <2>4, <3>1
    <3>3. i = Len(backlog')
      BY <1>0, <2>2, <3>1, <3>2
    <3> QED BY <2>1, <3>2, <3>3
  <2>5. ASSUME event'.body.version = object'.version
        PROVE  wire' = <<>> /\ backlog' = <<>> /\ event'.body = object'
    <3>1. 1 = Len(backlog) /\ wire = <<>>
      <4>1. 1 \in 1 .. Len(backlog) /\ backlog[1].body.version = object.version
        BY <1>0, <2>1, <2>2, <2>5
      <4> QED BY <1>n, <4>1
    <3>2. Follows(backlog[1].body, object)
      BY <1>0, <2>2 DEF Calm, Base, Ordered, InFlight, Elements
    <3> QED BY <2>1, <2>2, <2>3, <2>5, <3>1, <3>2 DEF Follows
  <2>6. ASSUME NEW i \in 1 .. Len(wire'), wire'[i].body.version = object'.version
        PROVE  i = Len(wire')
    <3>1. i \in 1 .. Len(wire) /\ wire[i].body.version = object.version
      BY <2>1, <2>6
    <3> QED BY <1>n, <2>1, <3>1
  <2> QED BY <2>4, <2>5, <2>6
<1>5. CASE Growing
  <2>1. /\ backlog' = backlog /\ object'.version = object.version + 1
        /\ wire' = Append(wire, Event("changed", object'))
    BY <1>5 DEF Growing
  <2>2. /\ \A i \in 1 .. Len(backlog) : backlog[i].body.version <= object.version
        /\ \A i \in 1 .. Len(wire) : wire[i].body.version <= object.version
        /\ phase # "idle" => event.body.version <= object.version
    BY TrailIsSeen DEF Calm, Base, Ordered, InFlight, Elements, Follows
  <2>3. phase' # "idle" => event' = event /\ phase # "idle"
    <3>1. ~TakeEvent
      <4>1. object.version \in Nat
        BY CalmTypes DEF Calm
      <4>2. TakeEvent => object' = object
        BY DEF TakeEvent, clusterVars
      <4> QED BY <2>1, <4>1, <4>2
    <3> QED BY <3>1, EventSteps
  <2>4. object.version \in Nat
    BY CalmTypes DEF Calm
  <2>5. /\ Len(wire') = Len(wire) + 1
        /\ \A i \in 1 .. Len(wire) : wire'[i] = wire[i]
    BY <1>0, <2>1
  <2> QED BY <1>0, <2>1, <2>2, <2>3, <2>4, <2>5
<1> QED BY <1>1, <1>2, <1>3, <1>4, <1>5, CalmSteps DEF Calm

-----------------------------------------------------------------------------
(* What the patch is.                                                      *)

LEMMA PatchSteps ==
  ASSUME Next
  PROVE  \/ UNCHANGED patch \/ (patch' = NoPatch /\ phase' = "idle")
         \/ StartHandling \/ Deciding
<1>1. Outside => UNCHANGED patch
  BY OutsideKeeps
<1>2. Ending => patch' = NoPatch /\ phase' = "idle"
  BY DEF Ending, SkipThrottled, BackoffIsOver, AwakenedByEvents, SkipHandlers, FinishHandling,
         Apply, NoPatchJSON, SleepOrEnd, PatchJSON, PatchConflict, PatchRepeated, PatchNotFound,
         AwakenedInSleep, Touch, EndCycle, ResetCycle
<1>3. Proceeding => UNCHANGED patch
  BY ProceedingKeeps
<1>4. Running \/ Merging \/ TakeEvent => UNCHANGED patch
  BY DEF Running, RunHandler, Merging, PatchMerge, NoPatchMerge, TakeEvent
<1>5. Crash => patch' = NoPatch /\ phase' = "idle"
  BY DEF Crash, ResetCycle
<1> QED BY <1>1, <1>2, <1>3, <1>4, <1>5, NextByCycle

LEMMA EntryFully ==
  ASSUME Undisturbed, MemoryOK
  PROVE  /\ IsPatch(PatchOnEntry) /\ ~PatchOnEntry.spied /\ ~PatchOnEntry.undummy
         /\ PatchOnEntry.progress = NoProgress /\ PatchOnEntry.diffbase = 0
         /\ PatchOnEntry.fin = (IF Blocks THEN "block" ELSE IF Frees THEN "allow" ELSE memory.remaining)
         /\ IsEmpty(PatchOnEntry) <=> PatchOnEntry.fin = "keep"
<1>1. /\ ~PatchOnEntry.spied /\ ~PatchOnEntry.undummy
      /\ PatchOnEntry.progress = NoProgress /\ PatchOnEntry.diffbase = 0
      /\ PatchOnEntry.fin = (IF Blocks THEN "block" ELSE IF Frees THEN "allow" ELSE memory.remaining)
  BY DEF PatchOnEntry, NoPatch, Undisturbed
<1>2. DOMAIN NoProgress = {}
  BY DEF NoProgress
<1> QED BY <1>1, <1>2, EntryType DEF IsEmpty, HasMerge

LEMMA SkippedFully ==
  ASSUME Undisturbed, MemoryOK, event.type # "DELETED", SkipHandlers
  PROVE  /\ UNCHANGED <<event, object, alive, wire, backlog, memory>>
         /\ phase = "detecting" /\ phase' = "patching" /\ delay' = "none"
         /\ FinalizerOnly(patch') /\ ~patch'.spied
         /\ patch'.fin = PatchOnEntry.fin
         /\ patch'.undummy = (patch'.fin # "keep" /\ event.body.dummy)
         /\ HasMerge(patch') <=> patch'.undummy
<1>1. /\ patch' = [PatchOnEntry EXCEPT !.undummy = ~IsEmpty(PatchOnEntry) /\ event.body.dummy]
      /\ UNCHANGED <<event, object, alive, wire, backlog, memory>>
      /\ phase = "detecting" /\ phase' = "patching" /\ delay' = "none"
  BY DEF SkipHandlers, Apply, clusterVars
<1>2. /\ patch'.progress = NoProgress /\ patch'.diffbase = 0 /\ ~patch'.spied
      /\ patch'.fin = PatchOnEntry.fin
      /\ patch'.undummy = (~IsEmpty(PatchOnEntry) /\ event.body.dummy)
  BY <1>1, EntryFully DEF IsPatch
<1>3. DOMAIN NoProgress = {}
  BY DEF NoProgress
<1> QED BY <1>1, <1>2, <1>3, EntryFully DEF FinalizerOnly, HasMerge

LEMMA PurgedSpied ==
  ASSUME NEW p, IsPatch(p)
  PROVE  /\ Purge(p).spied = p.spied /\ StoreProgress(p).spied = p.spied
         /\ StoreEssence(p).spied = p.spied /\ Release(p).spied = p.spied
BY DEF IsPatch, Purge, StoreProgress, StoreEssence, Release

LEMMA FinishedFully ==
  ASSUME CycleOK, event \in Events, event.type # "DELETED", FinishHandling
  PROVE  /\ UNCHANGED <<event, object, alive, wire, backlog>>
         /\ phase = "handling" /\ phase' = "patching" /\ delay' = Delay
         /\ patch'.spied = patch.spied
         /\ patch'.undummy => event.body.dummy
         /\ patch'.fin # "keep" /\ event.body.dummy => patch'.undummy
<1> DEFINE p1 == StoreProgress(patch)
           p2 == StoreEssence(p1)
           p3 == Release(p2)
<1>1. IsPatch(patch)
  BY DEF CycleOK
<1>2. IsPatch(p1) /\ p1.spied = patch.spied
  <2>1. IsPatch(StoreProgress(patch))
    BY <1>1, StoreProgressType DEF CycleOK
  <2>2. StoreProgress(patch).spied = patch.spied
    BY <1>1, PurgedSpied
  <2> QED BY <2>1, <2>2
<1> HIDE DEF p1
<1>3. IsPatch(p2) /\ p2.spied = p1.spied
  BY <1>2, StoreEssenceType, PurgedSpied
<1> HIDE DEF p2
<1>4. IsPatch(p3) /\ p3.spied = p2.spied
  BY <1>3, ReleaseType, PurgedSpied
<1> HIDE DEF p3
<1>5. /\ patch' = [p3 EXCEPT !.undummy = ~IsEmpty(p3) /\ event.body.dummy] /\ delay' = Delay
      /\ UNCHANGED <<event, object, alive, wire, backlog>>
      /\ phase = "handling" /\ phase' = "patching"
  BY DEF FinishHandling, Apply, clusterVars, p1, p2, p3
<1>6. patch'.fin = p3.fin /\ patch'.spied = p3.spied
      /\ patch'.undummy = (~IsEmpty(p3) /\ event.body.dummy)
  BY <1>4, <1>5 DEF IsPatch
<1>7. p3.fin # "keep" => ~IsEmpty(p3)
  BY DEF IsEmpty
<1> QED BY <1>2, <1>3, <1>4, <1>5, <1>6, <1>7

LEMMA UntroubledLater ==
  ASSUME Calm, Next
  PROVE  Untroubled'
<1>1. ~Relist /\ ~PatchRepeated /\ ~RequestFails /\ ~throttled
      /\ phase \notin {"throttled", "backoff"} /\ ~patch.spied
      /\ CycleOK /\ MemoryOK /\ EventOK
  BY CalmOnly, CalmTypes DEF Calm, RInv, Untroubled
<1>2. ~throttled'
  <2>1. UNCHANGED throttled \/ throttled' = FALSE
    BY <1>1 DEF Next, Operator, Time, Trouble, TakeEvent, WorkerExits, SkipThrottled, ThrottlingIsOver,
       BackoffIsOver, WaitForConsistency, SkipHandlers, AwakenedByEvents, StartHandling, RunHandler,
       FinishHandling, PatchMerge, NoPatchMerge, NoPatchJSON, PatchJSON, PatchConflict, PatchNotFound,
       AwakenedInSleep, SleepIsOver, Touch, ConsistencyTimeout, DelayIsOver, Arrive, Edit,
       RequestDeletion, Crash
  <2> QED BY <1>1, <2>1
<1>3. phase' \notin {"throttled", "backoff"}
  <2>1. Outside => UNCHANGED phase
    BY OutsideKeeps
  <2>2. Ending => phase' = "idle"
    BY PatchSteps DEF Ending, SkipThrottled, BackoffIsOver, AwakenedByEvents, SkipHandlers, FinishHandling,
         Apply, NoPatchJSON, SleepOrEnd, PatchJSON, PatchConflict, PatchRepeated, PatchNotFound,
         AwakenedInSleep, Touch, EndCycle, ResetCycle
  <2>3. Proceeding => phase' \in {"detecting", "inconsistent", "sleeping", "touching"}
    BY <1>1 DEF Proceeding, ThrottlingIsOver, WaitForConsistency, SleepIsOver, NoPatchJSON, SleepOrEnd
  <2>4. TakeEvent => phase' = "detecting"
    BY <1>1 DEF TakeEvent
  <2>5. Deciding \/ Running \/ Merging \/ StartHandling \/ Crash
          => phase' \in {"patching", "handling", "finalizing", "idle"}
    BY DEF Deciding, SkipHandlers, FinishHandling, Apply, Running, RunHandler, Merging, PatchMerge,
       NoPatchMerge, StartHandling, Crash
  <2> QED BY <1>1, <2>1, <2>2, <2>3, <2>4, <2>5, NextByCycle
<1>4. ~patch'.spied
  <2>1. ~NoPatch.spied
    BY DEF NoPatch
  <2>2. StartHandling => ~patch'.spied
    BY <1>1, EntryFully, PurgedSpied DEF StartHandling, Calm
  <2>3. Deciding => ~patch'.spied
    BY <1>1, SkippedFully, FinishedFully DEF Deciding, Calm, EventOK, FinishHandling
  <2> QED BY <1>1, <2>1, <2>2, <2>3, PatchSteps
<1> QED BY <1>2, <1>3, <1>4 DEF Untroubled

-----------------------------------------------------------------------------
(* The finalizer.                                                          *)

LEMMA FinalizerBy ==
  ASSUME Calm, Next, alive'
  PROVE  object'.finalizer = object.finalizer \/ PatchJSON
<1>1. object \in Objects /\ ClusterOK /\ CycleOK /\ ~Relist /\ ~PatchRepeated /\ ~Remove
  BY CalmTypes, CalmOnly DEF Calm, Remove
<1>2. ClusterKept \/ TakeEvent \/ Arrive \/ Crash => UNCHANGED object
  BY Kept DEF TakeEvent, Arrive, Crash, clusterVars
<1>3. CASE Edit
  <2>1. PICK e \in Essences : Commit([object EXCEPT !.essence = e, !.gen = @ + 1])
    BY <1>3 DEF Edit
  <2>2. [object EXCEPT !.essence = e, !.gen = @ + 1] \in Objects
    BY <1>1, GenGrows DEF Objects, Bodies
  <2>3. [object EXCEPT !.essence = e, !.gen = @ + 1].finalizer = object.finalizer
    BY <1>1 DEF Objects, Bodies
  <2> QED BY <2>1, <2>2, <2>3, CommitChanges
<1>4. CASE RequestDeletion
  <2> DEFINE o == [object EXCEPT !.deleting = TRUE, !.gen = @ + 1]
  <2>1. Commit(o)
    BY <1>1, <1>4 DEF RequestDeletion
  <2>2. o \in Objects /\ o.finalizer = object.finalizer
    BY <1>1, GenGrows DEF Objects, Bodies
  <2> QED BY <2>1, <2>2, CommitChanges
<1>5. CASE PatchMerge
  BY <1>1, <1>5, MergeCommits DEF PatchMerge, clusterVars
<1>6. CASE Touch
  <2> DEFINE o == [object EXCEPT !.dummy = TRUE]
  <2>1. Commit(o) \/ UNCHANGED object
    BY <1>6 DEF Touch, clusterVars
  <2>2. o \in Objects /\ o.finalizer = object.finalizer
    BY <1>1 DEF Objects, Bodies
  <2> QED BY <2>1, <2>2, CommitChanges
<1> QED BY <1>1, <1>2, <1>3, <1>4, <1>5, <1>6, NextKept

LEMMA JSONSteps ==
  ASSUME Calm, PatchJSON, alive'
  PROVE  /\ alive /\ phase = "finalizing" /\ phase' = "idle" /\ HasOps /\ fresh = object
         /\ expected' = object'.version /\ memory'.remaining = "keep" /\ Growing
         /\ patch.fin = "block" => object'.finalizer
         /\ patch.fin = "allow" => ~object'.finalizer /\ ~object.deleting
         /\ patch.fin \in {"block", "allow"}
         /\ object'.dummy = object.dummy
<1>1. object \in Objects /\ ClusterOK /\ MemoryOK /\ object.version \in Nat
  BY CalmTypes DEF Calm
<1>2. /\ phase = "finalizing" /\ phase' = "idle" /\ alive /\ HasOps /\ IsAccepted /\ ApplyFinalizer
      /\ memory' = [memory EXCEPT !.remaining = "keep"] /\ UNCHANGED backlog
      /\ EndCycle(object'.version)
  BY DEF PatchJSON, EndCycle
<1>3. fresh = object
  BY <1>2 DEF IsAccepted, Calm, RInv, PatchIsFit, Follows
<1>4. patch.fin \in {"block", "allow"}
  BY <1>2 DEF HasOps
<1> DEFINE o == IF patch.fin = "block" THEN [object EXCEPT !.finalizer = TRUE]
                ELSE [object EXCEPT !.finalizer = FALSE]
<1>5. Commit(o) /\ (patch.fin = "allow" => ~object.deleting)
  BY <1>2, <1>4 DEF ApplyFinalizer, Remove
<1>6. o \in Objects /\ o.version = object.version /\ o.dummy = object.dummy
      /\ o.finalizer = (patch.fin = "block")
  BY <1>1 DEF Objects, Bodies
<1>7. object' = [o EXCEPT !.version = @ + 1]
  BY <1>5 DEF Commit
<1>8. object'.dummy = object.dummy /\ object'.finalizer = (patch.fin = "block")
      /\ object'.version = object.version + 1
  BY <1>6, <1>7 DEF Objects, Bodies
<1>9. Growing
  BY <1>1, <1>2, <1>5, <1>6, Grown
<1>10. expected' = object'.version
  BY <1>1, <1>2, <1>8 DEF EndCycle
<1>11. memory'.remaining = "keep"
  BY <1>1, <1>2 DEF MemoryOK
<1> QED BY <1>2, <1>3, <1>4, <1>5, <1>8, <1>9, <1>10, <1>11

(* Without a merge, the finalizer is changed by who has seen all.          *)
LEMMA JSONAlone ==
  ASSUME Calm, PatchJSON, alive', ~HasMerge(patch)
  PROVE  Trail' = {object'} /\ event.body = object
<1>1. alive /\ phase = "finalizing" /\ phase' = "idle" /\ fresh = object /\ Growing
  BY JSONSteps
<1>2. fresh = event.body
  BY <1>1 DEF Calm, RInv, PatchIsFit
<1>3. wire = <<>> /\ backlog = <<>>
  BY <1>1, <1>2 DEF Calm, RInv, Newest
<1>4. InFlight = {}
  BY <1>3, ShortElements DEF InFlight
<1>5. InFlight' = {Event("changed", object')} /\ Event("changed", object').body = object'
  BY <1>1, <1>4 DEF Growing, Event
<1> QED BY <1>1, <1>2, <1>5 DEF Trail

(* A step to an object with a given version.                               *)
LEMMA CalmFacts ==
  ASSUME Calm, Next
  PROVE  /\ object' \in Objects /\ object \in Objects /\ object.version \in Nat /\ object'.version \in Nat
         /\ object.version <= object'.version /\ (alive' => alive)
         /\ object \in Trail
         /\ \A a \in Trail : a \in Objects /\ a.version \in Nat /\ a.version <= object.version
         /\ \A a \in Trail : a.version = object.version => a = object
         /\ \A a \in Trail' : a \in Trail \/ a = object'
<1>1. object' \in Objects /\ object \in Objects /\ object.version \in Nat /\ Follows(object, object')
      /\ (alive' => alive)
  BY CalmTypes, ObjectFollows DEF Calm
<1>2. object'.version \in Nat
  BY <1>1 DEF Objects, Bodies
<1>3. \A a \in Trail : a \in Objects /\ a.version \in Nat /\ Follows(a, object)
  BY TrailIsSeen DEF Calm
<1>4. object \in Trail /\ \A a \in Trail' : a \in Trail \/ a = object'
  BY TrailIsSeen, TrailLater DEF Calm
<1> QED BY <1>1, <1>2, <1>3, <1>4 DEF Follows

LEMMA GoneIsKept ==
  ASSUME Calm, Next, ~alive'
  PROVE  UNCHANGED object
<1>1. /\ ClusterOK /\ CycleOK /\ object \in Objects
  BY CalmTypes DEF Calm
<1>2. CASE alive
  <2>1. ASSUME NEW o, Commit(o) PROVE FALSE
    BY <1>2, <2>1 DEF Commit
  <2>2. Arrive \/ TakeEvent \/ Crash \/ Relist \/ Remove => UNCHANGED object
    BY DEF Arrive, TakeEvent, Crash, Relist, Remove, clusterVars
  <2> QED BY <1>1, <2>1, <2>2, StreamSteps
<1>3. CASE ~alive
  BY <1>3, Kept, NextKept DEF TakeEvent, Arrive, Relist, Crash, Edit, RequestDeletion, PatchMerge,
     PatchJSON, PatchRepeated, Touch, clusterVars
<1> QED BY <1>2, <1>3

(* The dummy is put by a touch, and removed by a merge.                    *)
LEMMA DummyBy ==
  ASSUME Calm, Next, object'.dummy
  PROVE  /\ object.dummy \/ (Touch /\ alive)
         /\ PatchMerge => ~patch.undummy
<1>1. object \in Objects /\ ClusterOK /\ CycleOK /\ IsPatch(patch) /\ ~Relist /\ ~PatchRepeated
  BY CalmTypes, CalmOnly DEF Calm
<1>2. ClusterKept \/ TakeEvent \/ Arrive \/ Crash => UNCHANGED object
  BY Kept DEF TakeEvent, Arrive, Crash, clusterVars
<1>3. ASSUME NEW o \in Objects, Commit(o) PROVE o.dummy
  <2>1. object' = [o EXCEPT !.version = @ + 1]
    BY <1>3 DEF Commit
  <2> QED BY <1>3, <2>1 DEF Objects, Bodies
<1>4. CASE Edit
  <2>1. PICK e \in Essences : Commit([object EXCEPT !.essence = e, !.gen = @ + 1])
    BY <1>4 DEF Edit
  <2>2. [object EXCEPT !.essence = e, !.gen = @ + 1] \in Objects
    BY <1>1, GenGrows DEF Objects, Bodies
  <2>3. [object EXCEPT !.essence = e, !.gen = @ + 1].dummy = object.dummy
    BY <1>1 DEF Objects, Bodies
  <2>4. ~PatchMerge
    BY <1>4 DEF Edit, PatchMerge, Spend
  <2> QED BY <1>3, <2>1, <2>2, <2>3, <2>4
<1>5. CASE RequestDeletion
  <2> DEFINE o == [object EXCEPT !.deleting = TRUE, !.gen = @ + 1]
  <2>1. Commit(o) \/ UNCHANGED object
    BY <1>1, <1>5 DEF RequestDeletion, Remove
  <2>2. o \in Objects /\ o.dummy = object.dummy
    BY <1>1, GenGrows DEF Objects, Bodies
  <2> QED BY <1>3, <1>5, <2>1, <2>2 DEF RequestDeletion, PatchMerge
<1>6. CASE PatchMerge
  <2>1. Merged(object, patch) \in Objects
    BY <1>1, MergedType
  <2>2. Merged(object, patch).dummy = (object.dummy /\ ~patch.undummy)
    BY <1>1 DEF Merged, Objects, Bodies
  <2>3. Commit(Merged(object, patch)) \/ (Merged(object, patch) = object /\ UNCHANGED object)
    BY <1>6 DEF PatchMerge, clusterVars
  <2> QED BY <1>3, <2>1, <2>2, <2>3
<1>7. CASE PatchJSON
  <2>1. CASE alive'
    BY <1>7, <2>1, JSONSteps DEF PatchMerge, PatchJSON
  <2>2. CASE ~alive'
    BY <1>7, <2>2, GoneIsKept DEF PatchMerge, PatchJSON
  <2> QED BY <2>1, <2>2
<1>8. CASE Touch
  BY <1>8 DEF Touch, clusterVars, PatchMerge
<1>9. ClusterKept \/ TakeEvent \/ Arrive \/ Crash => ~PatchMerge \/ UNCHANGED object
  BY <1>2
<1> QED BY <1>1, <1>2, <1>4, <1>5, <1>6, <1>7, <1>8, NextKept

-----------------------------------------------------------------------------
LEMMA OnceFreeLater ==
  ASSUME Calm, Next
  PROVE  OnceFree'
<1> SUFFICES ASSUME alive', NEW a \in Trail', NEW b \in Trail', a.version <= b.version, ~a.finalizer
    PROVE  ~b.finalizer
  BY DEF OnceFree
<1>1. alive /\ \A x, y \in Trail : x.version <= y.version /\ ~x.finalizer => ~y.finalizer
  BY CalmFacts DEF Calm, RInv, OnceFree
<1>2. (a \in Trail \/ a = object') /\ (b \in Trail \/ b = object')
  BY CalmFacts
<1>3. CASE object'.finalizer = object.finalizer
  <2>1. CASE a \in Trail /\ b = object'
    BY <1>1, <1>3, <2>1, CalmFacts
  <2>2. CASE a = object' /\ b \in Trail
    <3>1. b.version = object.version
      BY <2>2, CalmFacts
    <3> QED BY <1>3, <2>2, <3>1, CalmFacts
  <2> QED BY <1>1, <1>2, <2>1, <2>2
<1>4. CASE PatchJSON /\ patch.fin = "allow"
  <2>1. ~object'.finalizer /\ object'.version = object.version + 1
    BY <1>4, JSONSteps DEF Growing
  <2>2. CASE a = object' /\ b \in Trail
    <3>1. b.version <= object.version
      BY <2>2, CalmFacts
    <3> QED BY <2>1, <2>2, <3>1, CalmFacts
  <2> QED BY <1>1, <1>2, <2>1, <2>2
<1>5. CASE PatchJSON /\ patch.fin = "block"
  <2>1. ~HasMerge(patch)
    BY <1>1, <1>5 DEF Calm, RInv, ToBeBlocked
  <2> QED BY <1>5, <2>1, JSONAlone
<1> QED BY <1>3, <1>4, <1>5, FinalizerBy, JSONSteps

LEMMA NeverBlockedLater ==
  ASSUME Calm, Next
  PROVE  NeverBlocked'
<1> SUFFICES ASSUME Deleting = {}, alive', NEW a \in Trail'
    PROVE  a.finalizer = object'.finalizer
  BY DEF NeverBlocked
<1>1. alive /\ \A x \in Trail : x.finalizer = object.finalizer
  BY CalmFacts DEF Calm, RInv, NeverBlocked
<1>2. CASE object'.finalizer = object.finalizer
  BY <1>1, <1>2, CalmFacts
<1>3. CASE PatchJSON
  <2>1. patch.fin # "block"
    BY DEF Calm, RInv, ToBeBlocked
  <2>2. patch.fin = "allow"
    BY <1>3, <2>1, JSONSteps
  <2>3. ~HasMerge(patch)
    BY <1>1, <2>2 DEF Calm, RInv, ToBeFreed
  <2> QED BY <1>3, <2>3, JSONAlone
<1> QED BY <1>2, <1>3, FinalizerBy

LEMMA CausesNeed ==
  ASSUME HasCause, Blocked(event.body), event.body \in Objects
  PROVE  event.body.finalizer = (Deleting # {}) /\ event.body.essence \in Matching
BY DEF HasCause, Blocks, Frees, MustBeBlocked, Blocked, Objects, Bodies

LEMMA TouchedLater ==
  ASSUME Calm, Next
  PROVE  Touched'
<1> SUFFICES ASSUME NEW a \in Trail', a.dummy
    PROVE  a.finalizer = (Deleting # {})
  BY DEF Touched, NeededFinalizer
<1>1. \A x \in Trail : x.dummy => x.finalizer = (Deleting # {})
  BY DEF Calm, RInv, Touched, NeededFinalizer
<1>2. CASE a \in Trail
  BY <1>1, <1>2
<1>3. CASE ~alive'
  BY <1>1, <1>3, GoneIsKept, CalmFacts
<1>4. CASE a = object' /\ object'.finalizer = object.finalizer /\ object.dummy
  BY <1>1, <1>4, CalmFacts
<1>5. CASE a = object' /\ alive' /\ object'.finalizer = object.finalizer /\ Touch /\ alive
  <2>1. HasCause /\ event.body.finalizer = object.finalizer
    BY <1>5 DEF Touch, Calm, RInv, Delayed
  <2>2. Blocked(event.body) /\ event.body \in Objects
    BY <1>5, CalmTypes DEF Touch, Calm, Base, AllSound, Sound
  <2> QED BY <1>5, <2>1, <2>2, CausesNeed
<1>6. CASE a = object' /\ alive' /\ PatchJSON
  <2>1. /\ alive /\ phase = "finalizing" /\ HasOps /\ fresh = object /\ object.dummy
        /\ patch.fin = "allow" => ~object.deleting
    BY <1>6, JSONSteps
  <2>2. object.finalizer = (Deleting # {})
    BY <1>1, <2>1, CalmFacts
  <2>3. patch.fin = "allow" /\ fresh.finalizer
    BY <2>1, <2>2 DEF HasOps, Calm, RInv, ToBeBlocked
  <2>4. ~patch.undummy
    BY <2>1 DEF Calm, RInv, PatchIsFit
  <2>5. ~HasMerge(patch)
    <3>1. Follows(event.body, object)
      BY <2>1 DEF Calm, Base, Ordered
    <3>2. ~event.body.deleting
      BY <2>1, <2>3, <3>1 DEF Follows
    <3>3. FinalizerOnly(patch) /\ ~patch.spied
      BY <2>1, <2>3, <3>2 DEF Calm, RInv, PatchIsFit, Untroubled
    <3> QED BY <2>4, <3>3 DEF HasMerge, FinalizerOnly, NoProgress
  <2>6. event.body = object
    BY <1>6, <2>5, JSONAlone
  <2> QED BY <2>1, <2>3, <2>4, <2>6 DEF Calm, RInv, PatchIsFit
<1> QED BY <1>2, <1>3, <1>4, <1>5, <1>6, CalmFacts, FinalizerBy, DummyBy

(* What remains of the patch is remembered after a conflict only.          *)
LEMMA RemainingSteps ==
  ASSUME Calm, Next
  PROVE  \/ memory'.remaining \in {memory.remaining, "keep"}
         \/ PatchConflict /\ memory'.remaining = patch.fin
<1>1. MemoryOK /\ ~PatchRepeated
  BY CalmTypes, CalmOnly DEF Calm
<1>2. \A x \in Functions : [memory EXCEPT !.remaining = x].remaining = x
  BY <1>1 DEF MemoryOK
<1>3. \A x \in BOOLEAN : [memory EXCEPT !.handled = x].remaining = memory.remaining
  BY <1>1 DEF MemoryOK
<1>4. \A t : Recalled(memory, t).remaining \in {memory.remaining, "keep"} /\ Forgotten.remaining = "keep"
  BY <1>1 DEF MemoryOK, Recalled, Forgotten
<1>5. TakeEvent \/ Crash => memory'.remaining \in {memory.remaining, "keep"}
  BY <1>4 DEF TakeEvent, Crash
<1>6. FinishHandling => memory'.remaining = memory.remaining
  BY <1>1, FinishingIsRemembered
<1>7. NoPatchJSON \/ PatchJSON \/ PatchNotFound => memory'.remaining = "keep"
  BY <1>2 DEF NoPatchJSON, PatchJSON, PatchNotFound, Functions
<1>8. PatchConflict => memory'.remaining = patch.fin
  <2>1. HasOps => patch.fin \in Functions
    BY DEF HasOps, Functions
  <2> QED BY <1>2, <2>1 DEF PatchConflict
<1>9. WorkerExits \/ SkipThrottled \/ ThrottlingIsOver \/ BackoffIsOver
      \/ WaitForConsistency \/ SkipHandlers \/ AwakenedByEvents \/ StartHandling
      \/ (\E h \in Handlers, status \in {"success", "failure", "retry"} : RunHandler(h, status))
      \/ NoPatchMerge \/ AwakenedInSleep \/ SleepIsOver \/ RequestFails
      \/ ConsistencyTimeout \/ (\E h \in Handlers : DelayIsOver(h))
      \/ Arrive \/ Relist \/ Edit \/ RequestDeletion \/ PatchMerge \/ Touch
        => UNCHANGED memory
  BY DEF WorkerExits, SkipThrottled, ThrottlingIsOver, BackoffIsOver, WaitForConsistency, SkipHandlers,
     AwakenedByEvents, StartHandling, RunHandler, NoPatchMerge, AwakenedInSleep, SleepIsOver, RequestFails,
     ConsistencyTimeout, DelayIsOver, Arrive, Relist, Edit, RequestDeletion, PatchMerge, Touch
<1> QED BY <1>1, <1>5, <1>6, <1>7, <1>8, <1>9, NextKept DEF ClusterKept

(* What is left when the worker decides on the patch.                      *)
LEMMA DecidedFin ==
  ASSUME Calm, alive, Deciding
  PROVE  /\ UNCHANGED <<event, object, alive, wire, backlog>> /\ phase \in {"detecting", "handling"}
         /\ phase' = "patching" /\ IsPatch(patch')
         /\ \/ SkipHandlers /\ patch'.fin = PatchOnEntry.fin
            \/ /\ FinishHandling /\ phase = "handling"
               /\ patch'.fin = IF ReleasesNow THEN "allow" ELSE "keep"
<1>1. MemoryOK /\ CycleOK /\ EventOK /\ HandlingShape
  BY CalmTypes DEF Calm, Base
<1>2. CASE SkipHandlers /\ event.type # "DELETED"
  <2>1. event \in Events
    BY <1>1, <1>2 DEF SkipHandlers, EventOK
  <2> QED BY <1>1, <1>2, <2>1, SkippedFully, SkippingDecides DEF Calm
<1>3. CASE FinishHandling /\ event.type # "DELETED"
  <2>1. event \in Events
    BY <1>1, <1>3 DEF FinishHandling, EventOK
  <2> QED BY <1>1, <1>3, <2>1, FinishedFully, FinishedPatch, FinishingDecides
<1> QED BY <1>2, <1>3 DEF Deciding

LEMMA StartedFin ==
  ASSUME Calm, StartHandling
  PROVE  patch'.fin = "keep" /\ phase' = "handling"
<1>1. MemoryOK /\ CycleOK /\ EventOK /\ HandlingShape /\ event \in Events
  BY CalmTypes DEF Calm, Base, StartHandling, EventOK
<1> QED BY <1>1, StartingStarts, EntryKeeps

LEMMA IdleFin ==
  ASSUME Calm, Next
  PROVE  phase' \notin {"patching", "finalizing"} => patch'.fin = "keep"
<1>1. phase \notin {"patching", "finalizing"} => patch.fin = "keep"
  BY DEF Calm, RInv, PatchIsFit
<1>2. CASE UNCHANGED patch
  <2>1. CASE phase \notin {"patching", "finalizing"}
    BY <1>1, <1>2, <2>1
  <2>2. CASE phase \in {"patching", "finalizing"} /\ phase' \notin {"patching", "finalizing"}
    <3>1. ~Outside /\ ~Running /\ ~Merging /\ ~TakeEvent /\ ~StartHandling /\ ~Deciding
      BY <2>2, OutsideKeeps DEF Running, RunHandler, Merging, PatchMerge, NoPatchMerge, TakeEvent,
         StartHandling, Deciding, SkipHandlers, FinishHandling
    <3>2. Proceeding => IsEmpty(patch)
      BY <2>2, CalmOnly DEF Proceeding, ThrottlingIsOver, WaitForConsistency, SleepIsOver, Calm
    <3>3. CASE Proceeding
      BY <1>2, <3>2, <3>3 DEF IsEmpty
    <3>4. CASE Ending \/ Crash
      <4>1. patch' = NoPatch
        BY <3>4 DEF Crash, ResetCycle, Ending, SkipThrottled, BackoffIsOver, AwakenedByEvents, SkipHandlers,
           FinishHandling, Apply, NoPatchJSON, SleepOrEnd, PatchJSON, PatchConflict, PatchRepeated,
           PatchNotFound, AwakenedInSleep, Touch, EndCycle
      <4> QED BY <4>1 DEF NoPatch
    <3> QED BY <3>1, <3>3, <3>4, NextByCycle
  <2> QED BY <2>1, <2>2
<1>3. CASE patch' = NoPatch
  BY <1>3 DEF NoPatch
<1>4. StartHandling => patch'.fin = "keep"
  BY StartedFin
<1>5. Deciding => phase' = "patching"
  BY DEF Deciding, SkipHandlers, FinishHandling, Apply
<1> QED BY <1>2, <1>3, <1>4, <1>5, PatchSteps

-----------------------------------------------------------------------------
LEMMA ToBeBlockedLater ==
  ASSUME Calm, Next
  PROVE  ToBeBlocked'
<1>0. /\ alive /\ memory.remaining = "block" => \A a \in Trail : ~a.finalizer
      /\ alive /\ patch.fin = "block" => ~event.body.finalizer /\ ~HasMerge(patch)
      /\ Deleting = {} => memory.remaining # "block" /\ patch.fin # "block"
  BY DEF Calm, RInv, ToBeBlocked
<1>t. MemoryOK /\ (alive' => alive)
  BY CalmTypes, CalmFacts DEF Calm
<1>1. ASSUME alive', memory'.remaining = "block", NEW a \in Trail' PROVE ~a.finalizer
  <2>1. \A x \in Trail : ~x.finalizer
    <3>1. CASE memory.remaining = "block"
      BY <1>0, <1>1, <1>t, <3>1
    <3>2. CASE PatchConflict /\ patch.fin = "block"
      <4>1. ~event.body.finalizer /\ phase = "finalizing"
        BY <1>0, <1>1, <1>t, <3>2 DEF PatchConflict
      <4>2. /\ event.body \in Trail /\ Follows(event.body, object)
            /\ \A e \in InFlight : Follows(event.body, e.body)
        BY <4>1, TrailIsSeen DEF Calm, Base, Ordered
      <4>3. event.body \in Objects /\ event.body.version \in Nat
        BY <4>2, CalmFacts
      <4>4. \A x \in Trail : event.body.version <= x.version
        BY <4>2, <4>3 DEF Trail, Follows
      <4> QED BY <1>1, <1>t, <4>1, <4>2, <4>4 DEF Calm, RInv, OnceFree
    <3> QED BY <1>1, <3>1, <3>2, RemainingSteps
  <2>2. ~PatchJSON
    BY <1>1, JSONSteps
  <2>3. ~object'.finalizer
    BY <1>1, <2>1, <2>2, CalmFacts, FinalizerBy
  <2> QED BY <2>1, <2>3, CalmFacts
<1>2. ASSUME alive', patch'.fin = "block" PROVE ~event'.body.finalizer /\ ~HasMerge(patch')
  <2>1. phase' \in {"patching", "finalizing"}
    BY <1>2, IdleFin
  <2>2. CASE UNCHANGED patch
    <3>1. event' = event
      <4>1. ~TakeEvent
        BY <2>1 DEF TakeEvent
      <4> QED BY <2>1, <4>1, EventSteps
    <3> QED BY <1>0, <1>2, <1>t, <2>2, <3>1
  <2>3. CASE SkipHandlers /\ event.type # "DELETED"
    <3>1. /\ UNCHANGED event /\ phase = "detecting" /\ patch'.fin = PatchOnEntry.fin
          /\ HasMerge(patch') <=> (patch'.fin # "keep" /\ event.body.dummy)
      BY <1>t, <2>3, SkippedFully DEF Calm
    <3>2. event.body \in Trail
      BY <3>1, TrailIsSeen DEF Calm
    <3>3. Deleting # {} /\ ~event.body.finalizer
      <4>1. CASE Blocks
        BY <4>1 DEF Blocks, MustBeBlocked
      <4>2. CASE memory.remaining = "block"
        BY <1>0, <1>2, <1>t, <3>2, <4>2
      <4>3. Blocks \/ memory.remaining = "block"
        BY <1>2, <1>t, <3>1, EntryType
      <4> QED BY <4>1, <4>2, <4>3
    <3>4. ~event.body.dummy
      BY <3>2, <3>3 DEF Calm, RInv, Touched, NeededFinalizer
    <3> QED BY <3>1, <3>3, <3>4
  <2>4. CASE Deciding /\ ~SkipHandlers
    BY <1>2, <1>t, <2>4, DecidedFin
  <2> QED BY <1>2, <2>1, <2>2, <2>3, <2>4, PatchSteps, StartedFin DEF Deciding, NoPatch
<1>3. ASSUME Deleting = {} PROVE memory'.remaining # "block" /\ patch'.fin # "block"
  <2>1. memory'.remaining # "block"
    BY <1>0, <1>3, RemainingSteps
  <2>2. PatchOnEntry.fin # "block"
    BY <1>0, <1>3, <1>t, EntryType DEF Blocks, MustBeBlocked
  <2>3. Deciding => patch'.fin # "block"
    <3>1. CASE SkipHandlers /\ event.type # "DELETED"
      BY <1>t, <2>2, <3>1, SkippedFully DEF Calm
    <3>2. CASE FinishHandling /\ event.type # "DELETED"
      <4>1. event \in Events /\ CycleOK /\ HandlingShape
        BY <3>2, CalmTypes DEF Calm, Base, FinishHandling, EventOK
      <4> QED BY <3>2, <4>1, FinishedPatch
    <3> QED BY <3>1, <3>2 DEF Deciding
  <2> QED BY <1>0, <1>3, <2>1, <2>3, PatchSteps, StartedFin DEF NoPatch
<1> QED BY <1>1, <1>2, <1>3 DEF ToBeBlocked

LEMMA ToBeFreedLater ==
  ASSUME Calm, Next
  PROVE  ToBeFreed'
<1> SUFFICES ASSUME Deleting = {}, alive'
    PROVE  /\ memory'.remaining = "allow" => object'.finalizer
           /\ patch'.fin = "allow" => event'.body.finalizer /\ ~HasMerge(patch')
  BY DEF ToBeFreed
<1>0. /\ alive /\ MemoryOK
      /\ memory.remaining = "allow" => object.finalizer
      /\ patch.fin = "allow" => event.body.finalizer /\ ~HasMerge(patch)
      /\ \A a \in Trail : a.finalizer = object.finalizer
  BY CalmTypes, CalmFacts DEF Calm, RInv, ToBeFreed, NeverBlocked
<1>1. ASSUME memory'.remaining = "allow" PROVE object'.finalizer
  <2>1. object.finalizer
    <3>1. CASE PatchConflict /\ patch.fin = "allow"
      <4>1. event.body \in Trail /\ event.body.finalizer
        BY <1>0, <3>1, TrailIsSeen DEF PatchConflict, Calm
      <4> QED BY <1>0, <4>1
    <3> QED BY <1>0, <1>1, <3>1, RemainingSteps
  <2>2. ~PatchJSON
    BY <1>1, JSONSteps
  <2> QED BY <2>1, <2>2, FinalizerBy
<1>2. ASSUME patch'.fin = "allow" PROVE event'.body.finalizer /\ ~HasMerge(patch')
  <2>1. phase' \in {"patching", "finalizing"}
    BY <1>2, IdleFin
  <2>2. CASE UNCHANGED patch
    <3>1. event' = event
      <4>1. ~TakeEvent
        BY <2>1 DEF TakeEvent
      <4> QED BY <2>1, <4>1, EventSteps
    <3> QED BY <1>0, <1>2, <2>2, <3>1
  <2>3. CASE SkipHandlers /\ event.type # "DELETED"
    <3>1. /\ UNCHANGED event /\ phase = "detecting" /\ patch'.fin = PatchOnEntry.fin
          /\ HasMerge(patch') <=> (patch'.fin # "keep" /\ event.body.dummy)
      BY <1>0, <2>3, SkippedFully DEF Calm
    <3>2. event.body \in Trail
      BY <3>1, TrailIsSeen DEF Calm
    <3>3. event.body.finalizer
      <4>1. Frees \/ memory.remaining = "allow"
        BY <1>0, <1>2, <3>1, EntryType
      <4> QED BY <1>0, <3>2, <4>1 DEF Frees
    <3>4. ~event.body.dummy
      BY <3>2, <3>3 DEF Calm, RInv, Touched, NeededFinalizer
    <3> QED BY <3>1, <3>3, <3>4
  <2>4. CASE Deciding /\ ~SkipHandlers
    <3>1. event.body.finalizer /\ phase = "handling"
      BY <1>0, <1>2, <2>4, DecidedFin DEF ReleasesNow
    <3>2. HasCause
      BY <1>0, <3>1 DEF Calm, RInv, Delayed
    <3> QED BY <3>1, <3>2 DEF HasCause, Frees, MustBeBlocked
  <2> QED BY <1>2, <2>1, <2>2, <2>3, <2>4, PatchSteps, StartedFin DEF Deciding, NoPatch
<1> QED BY <1>1, <1>2

(* What is expected, and since when.                                       *)
LEMMA ExpectedSteps ==
  ASSUME Calm, Next, alive'
  PROVE  \/ UNCHANGED <<expected, deadline>> /\ ~Crash
         \/ TakeEvent /\ expected' = 0 /\ deadline' = "none" /\ expected = Head(backlog).body.version
         \/ Crash
         \/ /\ phase = "finalizing" /\ result # 0 /\ expected' = result /\ deadline' = "ahead"
            /\ UNCHANGED <<object, alive, wire, backlog>>
         \/ Growing /\ expected' = object'.version /\ deadline' = "ahead"
<1>0. /\ alive /\ ~Relist /\ ~PatchRepeated /\ ~RequestFails /\ object.version \in Nat
      /\ deadline # "over" /\ (deadline = "ahead" => InFlight # {})
      /\ ClusterOK /\ StreamOK /\ object \in Objects
  BY CalmFacts, CalmOnly, CalmTypes DEF Calm, RInv, Awaited
<1>1. ~ConsistencyTimeout /\ ~WorkerExits
  <2>1. ~ConsistencyTimeout
    <3>1. ASSUME ConsistencyTimeout PROVE FALSE
      <4>1. wire = <<>> /\ backlog = <<>> /\ deadline = "ahead"
        BY <3>1, CalmOnly DEF Calm, ConsistencyTimeout
      <4>2. InFlight = {}
        BY <4>1, ShortElements DEF InFlight
      <4> QED BY <1>0, <4>1, <4>2
    <3> QED BY <3>1
  <2> QED BY <1>0, <2>1 DEF WorkerExits
<1>2. ClusterKept => UNCHANGED <<object, alive, wire, backlog>>
  BY Kept
<1>3. Arrive \/ Edit \/ RequestDeletion \/ PatchMerge => UNCHANGED <<expected, deadline>>
  BY DEF Arrive, Edit, RequestDeletion, PatchMerge, streamVars
<1>4. CASE TakeEvent
  BY <1>4 DEF TakeEvent
<1>5. CASE PatchJSON
  <2>1. Growing /\ expected' = object'.version /\ object'.version # 0
    BY <1>0, <1>5, JSONSteps DEF Growing
  <2>2. deadline' = "ahead"
    BY <1>5, <2>1 DEF PatchJSON, EndCycle
  <2> QED BY <2>1, <2>2
<1>6. CASE Touch
  <2> DEFINE o == [object EXCEPT !.dummy = TRUE]
  <2>1. Commit(o) /\ EndCycle(object'.version) /\ UNCHANGED backlog
    BY <1>0, <1>6 DEF Touch
  <2>2. o \in Objects /\ o.version = object.version
    BY <1>0 DEF Objects, Bodies
  <2> HIDE DEF o
  <2>3. Growing
    BY <1>0, <2>1, <2>2, Grown
  <2>4. object'.version # 0
    BY <1>0, <2>3 DEF Growing
  <2> QED BY <2>1, <2>3, <2>4 DEF EndCycle
<1>7. CASE ClusterKept
  <2>1. CASE UNCHANGED <<expected, deadline>>
    BY <2>1
  <2>2. CASE (NoPatchJSON \/ PatchConflict) /\ EndCycle(result)
    <3>1. phase = "finalizing" /\ UNCHANGED <<object, alive, wire, backlog>>
      BY <1>2, <1>7, <2>2 DEF NoPatchJSON, PatchConflict
    <3> QED BY <2>2, <3>1 DEF EndCycle
  <2>3. EndCycle(0) => UNCHANGED <<expected, deadline>>
    BY DEF EndCycle
  <2>4. WaitForConsistency \/ ThrottlingIsOver \/ StartHandling \/ NoPatchMerge \/ SleepIsOver
        \/ (\E h \in Handlers, status \in {"success", "failure", "retry"} : RunHandler(h, status))
        \/ (\E h \in Handlers : DelayIsOver(h))
          => UNCHANGED <<expected, deadline>>
    BY DEF WaitForConsistency, ThrottlingIsOver, StartHandling, NoPatchMerge, SleepIsOver, RunHandler,
       DelayIsOver, streamVars
  <2>5. SkipThrottled \/ BackoffIsOver \/ AwakenedByEvents \/ PatchNotFound \/ AwakenedInSleep
          => EndCycle(0)
    BY DEF SkipThrottled, BackoffIsOver, AwakenedByEvents, PatchNotFound, AwakenedInSleep
  <2>6. SkipHandlers \/ FinishHandling => UNCHANGED <<expected, deadline>>
    BY <2>3 DEF SkipHandlers, FinishHandling, Apply
  <2>7. NoPatchJSON => UNCHANGED <<expected, deadline>> \/ EndCycle(result)
    BY DEF NoPatchJSON, SleepOrEnd
  <2>8. PatchConflict => EndCycle(result)
    BY DEF PatchConflict
  <2> QED BY <1>0, <1>1, <1>7, <2>1, <2>2, <2>3, <2>4, <2>5, <2>6, <2>7, <2>8 DEF ClusterKept
<1> QED BY <1>0, <1>3, <1>4, <1>5, <1>6, <1>7, NextKept

LEMMA FlightLater ==
  ASSUME Calm, Next, alive', NEW e \in InFlight
  PROVE  e \in InFlight' \/ Crash \/ (TakeEvent /\ e = Head(backlog))
<1>0. wire \in Seq(Events) /\ backlog \in Seq(Events) /\ Len(wire) \in Nat /\ Len(backlog) \in Nat
  BY CalmTypes DEF Calm
<1>1. CASE UNCHANGED <<object, wire, backlog>>
  BY <1>1 DEF InFlight, Elements
<1>2. CASE Growing
  BY <1>2 DEF Growing
<1>3. CASE Arrive
  <2>1. /\ wire # <<>> /\ backlog' = Append(backlog, wire[1]) /\ wire' = Tail(wire)
    BY <1>0, <1>3 DEF Arrive
  <2>2. Elements(backlog)' = Elements(backlog) \cup {wire[1]}
    <3>1. wire[1] \in Events
      BY <1>0, <2>1
    <3> QED BY <1>0, <2>1, <3>1, AppendElements
  <2>3. CASE e \in Elements(backlog)
    BY <2>2, <2>3 DEF InFlight
  <2>4. CASE e \in Elements(wire)
    <3>1. PICK i \in 1 .. Len(wire) : e = wire[i]
      BY <2>4 DEF Elements
    <3>2. CASE i = 1
      BY <2>2, <3>1, <3>2 DEF InFlight
    <3>3. CASE i # 1
      <4>1. i - 1 \in 1 .. Len(Tail(wire)) /\ Tail(wire)[i - 1] = wire[i]
        BY <1>0, <2>1, <3>3
      <4> QED BY <2>1, <3>1, <4>1 DEF InFlight, Elements
    <3> QED BY <3>2, <3>3
  <2> QED BY <2>3, <2>4 DEF InFlight
<1>4. CASE TakeEvent
  <2>1. /\ backlog # <<>> /\ backlog' = Tail(backlog) /\ wire' = wire /\ Head(backlog) = backlog[1]
    BY <1>0, <1>4 DEF TakeEvent, clusterVars
  <2>2. CASE e \in Elements(wire)
    BY <2>1, <2>2 DEF InFlight, Elements
  <2>3. CASE e \in Elements(backlog)
    <3>1. PICK i \in 1 .. Len(backlog) : e = backlog[i]
      BY <2>3 DEF Elements
    <3>2. CASE i = 1
      BY <1>4, <2>1, <3>1, <3>2
    <3>3. CASE i # 1
      <4>1. i - 1 \in 1 .. Len(Tail(backlog)) /\ Tail(backlog)[i - 1] = backlog[i]
        BY <1>0, <2>1, <3>3
      <4> QED BY <2>1, <3>1, <4>1 DEF InFlight, Elements
    <3> QED BY <3>2, <3>3
  <2> QED BY <2>2, <2>3 DEF InFlight
<1> QED BY <1>1, <1>2, <1>3, <1>4, CalmSteps DEF Calm

LEMMA LastInFlight ==
  ASSUME Calm, alive, wire # <<>> \/ backlog # <<>>
  PROVE  \E e \in InFlight : e.body = object
<1>0. wire \in Seq(Events) /\ backlog \in Seq(Events)
  BY CalmTypes DEF Calm
<1>1. CASE wire # <<>>
  <2>1. wire[Len(wire)].body = object /\ Len(wire) \in 1 .. Len(wire)
    BY <1>0, <1>1 DEF Calm, Base, Latest
  <2> QED BY <2>1 DEF InFlight, Elements
<1>2. CASE wire = <<>> /\ backlog # <<>>
  <2>1. backlog[Len(backlog)].body = object /\ Len(backlog) \in 1 .. Len(backlog)
    BY <1>0, <1>2 DEF Calm, Base, Latest
  <2> QED BY <2>1 DEF InFlight, Elements
<1> QED BY <1>1, <1>2

LEMMA AwaitedLater ==
  ASSUME Calm, Next, Base'
  PROVE  Awaited'
<1> SUFFICES ASSUME alive'
    PROVE  /\ deadline' # "over"
           /\ deadline' = "ahead" => \E e \in InFlight' : e.body.version = expected'
           /\ result' # 0 => \E e \in InFlight' : e.body.version = result'
           /\ \A a \in Trail' : a.version >= expected' => a.finalizer = object'.finalizer
  BY DEF Awaited
<1>0. /\ alive /\ deadline # "over"
      /\ deadline = "ahead" => \E e \in InFlight : e.body.version = expected
      /\ result # 0 => \E e \in InFlight : e.body.version = result
      /\ \A a \in Trail : a.version >= expected => a.finalizer = object.finalizer
  BY CalmFacts DEF Calm, RInv, Awaited
<1>t. /\ TInv /\ StreamOK /\ ResultShape /\ expected \in Int /\ result \in Nat
      /\ deadline = "none" <=> expected = 0
  BY CalmTypes DEF Calm, Base, StreamOK, CycleOK, Never
<1>e. \A e \in InFlight : e.body.version \in Nat
  BY CalmTypes, InFlightTypes DEF Calm, Objects, Bodies
<1>n. Growing => Event("changed", object') \in InFlight' /\ Event("changed", object').body = object'
  BY DEF Growing, Event
<1>1. deadline' # "over"
  <2>1. CASE Crash
    BY <2>1 DEF Crash
  <2> QED BY <1>0, <2>1, ExpectedSteps
<1>2. ASSUME deadline' = "ahead" PROVE \E e \in InFlight' : e.body.version = expected'
  <2>1. CASE UNCHANGED <<expected, deadline>> /\ ~Crash
    <3>1. PICK e \in InFlight : e.body.version = expected
      BY <1>0, <1>2, <2>1
    <3>2. CASE e \in InFlight'
      BY <2>1, <3>1, <3>2
    <3>3. CASE TakeEvent /\ e = Head(backlog)
      <4>1. expected # 0
        BY <1>2, <1>t, <2>1
      <4> QED BY <1>2, <3>1, <3>3, <4>1 DEF TakeEvent
    <3> QED BY <2>1, <3>2, <3>3, FlightLater
  <2>2. CASE Crash
    BY <1>2, <2>2 DEF Crash
  <2>3. CASE /\ phase = "finalizing" /\ result # 0 /\ expected' = result /\ deadline' = "ahead"
             /\ UNCHANGED <<object, alive, wire, backlog>>
    BY <1>0, <2>3 DEF InFlight, Elements
  <2>4. CASE Growing /\ expected' = object'.version /\ deadline' = "ahead"
    BY <1>n, <2>4
  <2> QED BY <1>2, <2>1, <2>2, <2>3, <2>4, ExpectedSteps
<1>3. ASSUME result' # 0 PROVE \E e \in InFlight' : e.body.version = result'
  <2>1. CASE UNCHANGED result
    <3>1. PICK e \in InFlight : e.body.version = result
      BY <1>0, <1>3, <2>1
    <3>2. ~Crash /\ ~TakeEvent
      BY <1>3, <1>t, <2>1 DEF Crash, ResetCycle, TakeEvent, ResultShape
    <3> QED BY <2>1, <3>1, <3>2, FlightLater
  <2>2. CASE PatchMerge
    <3>1. result' = object'.version
      BY <2>2 DEF PatchMerge
    <3>2. CASE Merged(object, patch) = object
      <4>1. UNCHANGED <<object, alive, wire, backlog>> /\ phase = "patching" /\ HasMerge(patch)
        BY <2>2, <3>2 DEF PatchMerge, clusterVars, streamVars
      <4>2. wire # <<>> \/ backlog # <<>>
        BY <1>0, <3>2, <4>1 DEF Calm, RInv, AtRest, InSync
      <4>3. \E e \in InFlight : e.body = object
        BY <1>0, <4>2, LastInFlight
      <4> QED BY <3>1, <4>1, <4>3 DEF InFlight, Elements
    <3>3. CASE Merged(object, patch) # object
      <4>1. Commit(Merged(object, patch)) /\ UNCHANGED backlog
        BY <2>2, <3>3 DEF PatchMerge, streamVars
      <4>2. Growing
        BY <4>1, GrownMerging, CalmTypes DEF Calm
      <4> QED BY <1>n, <3>1, <4>2
    <3> QED BY <3>2, <3>3
  <2>3. UNCHANGED result \/ result' = 0 \/ PatchMerge
    <3>1. Outside \/ Proceeding => UNCHANGED result
      BY OutsideKeeps, ProceedingKeeps
    <3>2. Ending \/ Crash => result' = 0
      BY DEF Crash, ResetCycle, Ending, SkipThrottled, BackoffIsOver, AwakenedByEvents, SkipHandlers,
         FinishHandling, Apply, NoPatchJSON, SleepOrEnd, PatchJSON, PatchConflict, PatchRepeated,
         PatchNotFound, AwakenedInSleep, Touch, EndCycle
    <3>3. Deciding \/ Running \/ NoPatchMerge \/ StartHandling \/ TakeEvent => UNCHANGED result
      BY DEF Deciding, SkipHandlers, FinishHandling, Apply, Running, RunHandler, NoPatchMerge, StartHandling,
         TakeEvent
    <3> QED BY <3>1, <3>2, <3>3, NextByCycle DEF Merging
  <2> QED BY <1>3, <2>1, <2>2, <2>3
<1>4. ASSUME NEW a \in Trail', a.version >= expected' PROVE a.finalizer = object'.finalizer
  <2>0. a \in Trail \/ a = object'
    BY CalmFacts
  <2>1. CASE Growing /\ expected' = object'.version
    <3>1. ASSUME a \in Trail PROVE FALSE
      BY <1>4, <2>1, <3>1, CalmFacts DEF Growing
    <3> QED BY <2>0, <3>1
  <2>2. CASE Crash
    BY <1>0, <2>2, TrailAfterCrash
  <2>3. CASE ~PatchJSON /\ (UNCHANGED expected \/ (expected' = result /\ result # 0))
    <3>1. expected <= expected'
      BY <1>t, <2>3 DEF ResultShape
    <3>2. object'.finalizer = object.finalizer
      BY <2>3, FinalizerBy
    <3>3. a \in Trail => a.version >= expected
      BY <1>4, <1>t, <2>3, <3>1, CalmFacts
    <3> QED BY <1>0, <2>0, <3>2, <3>3
  <2>4. CASE TakeEvent /\ expected = Head(backlog).body.version
    <3>1. event' = Head(backlog) /\ phase' # "idle" /\ object' = object
      BY <2>4, TakingTakes, <1>t DEF TakeEvent, clusterVars
    <3>2. /\ Follows(event'.body, object')
          /\ \A e \in InFlight' : Follows(event'.body, e.body)
      BY <3>1 DEF Base, Ordered
    <3>3. event'.body.version <= a.version
      <4>1. event' \in Events
        BY <2>4, <1>t, TakingTakes
      <4>2. event'.body.version <= event'.body.version
        BY <1>t, <4>1, SeenObjects DEF Objects, Bodies
      <4> QED BY <3>2, <4>2 DEF Trail, Follows
    <3>4. a \in Trail
      BY <2>0, <3>1, CalmFacts
    <3> QED BY <1>0, <2>4, <3>1, <3>3, <3>4
  <2>5. PatchJSON => Growing /\ expected' = object'.version
    BY JSONSteps
  <2> QED BY <2>1, <2>2, <2>3, <2>4, <2>5, ExpectedSteps
<1> QED BY <1>1, <1>2, <1>3, <1>4

LEMMA DelaySteps ==
  ASSUME Next
  PROVE  /\ Outside \/ Running \/ Merging \/ Proceeding => UNCHANGED delay
         /\ SkipHandlers /\ event.type # "DELETED" => delay' = "none"
<1>1. Outside => UNCHANGED delay
  BY DEF Outside, Arrive, Relist, Edit, RequestDeletion, DelayIsOver, ConsistencyTimeout, WorkerExits, cycleVars
<1>2. Running \/ Merging => UNCHANGED delay
  BY DEF Running, RunHandler, Merging, PatchMerge, NoPatchMerge
<1>3. Proceeding => UNCHANGED delay
  BY DEF Proceeding, ThrottlingIsOver, WaitForConsistency, SleepIsOver, RequestFails, NoPatchJSON,
     SleepOrEnd, cycleVars
<1> QED BY <1>1, <1>2, <1>3 DEF SkipHandlers, Apply

LEMMA DelayedLater ==
  ASSUME Calm, Next
  PROVE  Delayed'
<1> SUFFICES ASSUME alive', \/ phase' \in {"handling", "sleeping", "touching"}
                            \/ phase' \in {"patching", "finalizing"} /\ delay' # "none"
    PROVE  HasCause' /\ event'.body.finalizer = object'.finalizer
  BY DEF Delayed
<1>0. /\ alive /\ ~throttled /\ phase # "throttled" /\ ~RequestFails
      /\ (\/ phase \in {"handling", "sleeping", "touching"}
          \/ phase \in {"patching", "finalizing"} /\ delay # "none")
           => HasCause /\ event.body.finalizer = object.finalizer
  BY CalmFacts, CalmOnly DEF Calm, RInv, Delayed, Untroubled
<1>1. event' = event /\ phase # "idle"
  <2>1. ~TakeEvent
    BY DEF TakeEvent
  <2> QED BY <2>1, EventSteps
<1>2. object'.finalizer = object.finalizer
  <2>1. ~PatchJSON
    BY JSONSteps
  <2> QED BY <2>1, FinalizerBy
<1>3. HasCause' = HasCause
  BY <1>1 DEF HasCause, Blocks, Frees, MustBeBlocked
<1>4. HasCause /\ event.body.finalizer = object.finalizer
  <2>1. CASE Outside
    BY <1>0, <2>1, OutsideKeeps, DelaySteps
  <2>2. CASE Ending \/ Crash
    <3>1. phase' = "idle"
      BY <2>2 DEF Crash, ResetCycle, Ending, SkipThrottled, BackoffIsOver, AwakenedByEvents, SkipHandlers,
         FinishHandling, Apply, NoPatchJSON, SleepOrEnd, PatchJSON, PatchConflict, PatchRepeated,
         PatchNotFound, AwakenedInSleep, Touch, EndCycle
    <3> QED BY <3>1
  <2>3. CASE Proceeding
    BY <1>0, <2>3 DEF Proceeding, ThrottlingIsOver, WaitForConsistency, SleepIsOver, NoPatchJSON, SleepOrEnd
  <2>4. CASE Deciding
    <3>1. CASE SkipHandlers /\ event.type # "DELETED"
      <4>1. delay' = "none" /\ phase' = "patching"
        BY <3>1, DelaySteps DEF SkipHandlers, Apply
      <4> QED BY <4>1
    <3>2. CASE FinishHandling
      BY <1>0, <3>2 DEF FinishHandling
    <3> QED BY <2>4, <3>1, <3>2 DEF Deciding
  <2>5. CASE Running
    BY <1>0, <2>5 DEF Running, RunHandler
  <2>6. CASE Merging
    <3>1. phase = "patching" /\ phase' = "finalizing" /\ delay' = delay
      BY <2>6, DelaySteps DEF Merging, PatchMerge, NoPatchMerge
    <3> QED BY <1>0, <3>1
  <2>7. CASE StartHandling
    <3>1. deadline # "over"
      BY <1>0 DEF Calm, RInv, Awaited
    <3>2. event.type # "DELETED"
      BY <1>0, <1>1 DEF Calm, Base, Goodbye
    <3>3. HasCause /\ IsConsistent
      BY <2>7, <3>1 DEF StartHandling
    <3>4. deadline = "none"
      <4>1. Reason # "gone"
        BY <3>2 DEF Reason
      <4> QED BY <3>3, <4>1 DEF IsConsistent
    <3>5. expected = 0
      BY <3>4, CalmTypes DEF Calm, StreamOK
    <3>6. event.body \in Trail
      BY <1>1, TrailIsSeen DEF Calm
    <3>7. event.body.version >= 0
      BY <3>6, CalmFacts
    <3> QED BY <1>0, <3>3, <3>5, <3>6, <3>7 DEF Calm, RInv, Awaited
  <2>8. ~TakeEvent
    BY DEF TakeEvent
  <2> QED BY <2>1, <2>2, <2>3, <2>4, <2>5, <2>6, <2>7, <2>8, NextByCycle
<1> QED BY <1>1, <1>2, <1>3, <1>4

LEMMA PatchIsFitLater ==
  ASSUME Calm, Next
  PROVE  PatchIsFit'
<1>0. /\ CycleOK /\ EventOK /\ ClusterOK /\ MemoryOK /\ object \in Objects /\ IsPatch(patch)
  BY CalmTypes DEF Calm
<1>n. /\ phase \in {"patching", "finalizing"} =>
           /\ patch.fin # "keep" /\ event.body.dummy => patch.undummy
           /\ patch.fin # "keep" /\ ~event.body.deleting => FinalizerOnly(patch)
      /\ phase = "finalizing" =>
           /\ ~HasMerge(patch) => fresh = event.body
           /\ Follows(fresh, object)
           /\ alive /\ HasMerge(patch) => /\ fresh.finalizer = object.finalizer
                                          /\ wire # <<>> \/ backlog # <<>>
           /\ patch.undummy => ~fresh.dummy
  BY DEF Calm, RInv, PatchIsFit
<1>1. phase' \notin {"patching", "finalizing"} => patch'.fin = "keep"
  BY IdleFin
<1>2. ASSUME phase' \in {"patching", "finalizing"}
      PROVE  /\ patch'.fin # "keep" /\ event'.body.dummy => patch'.undummy
             /\ patch'.fin # "keep" /\ ~event'.body.deleting => FinalizerOnly(patch')
  <2>1. CASE Outside \/ Merging
    <3>1. UNCHANGED <<event, patch>> /\ phase \in {"patching", "finalizing"}
      BY <1>2, <2>1, OutsideKeeps DEF Merging, PatchMerge, NoPatchMerge
    <3> QED BY <1>n, <3>1
  <2>2. CASE SkipHandlers /\ event.type # "DELETED"
    BY <1>0, <2>2, SkippedFully DEF Calm
  <2>3. CASE FinishHandling /\ event.type # "DELETED"
    <3>1. event \in Events /\ HandlingShape
      BY <1>0, <2>3 DEF FinishHandling, EventOK, Calm, Base
    <3>2. patch'.fin = (IF ReleasesNow THEN "allow" ELSE "keep")
      BY <1>0, <2>3, <3>1, FinishedPatch
    <3> QED BY <1>0, <2>3, <3>1, <3>2, FinishedFully DEF ReleasesNow
  <2> QED BY <1>2, <2>1, <2>2, <2>3, PhaseSteps DEF Deciding
<1>3. ASSUME phase' = "finalizing"
      PROVE  /\ ~HasMerge(patch') => fresh' = event'.body
             /\ Follows(fresh', object')
             /\ alive' /\ HasMerge(patch') => /\ fresh'.finalizer = object'.finalizer
                                              /\ wire' # <<>> \/ backlog' # <<>>
             /\ patch'.undummy => ~fresh'.dummy
  <2>1. CASE PatchMerge
    <3>1. fresh' = object' /\ UNCHANGED <<event, patch>> /\ HasMerge(patch)
      BY <2>1 DEF PatchMerge
    <3>2. Follows(object', object')
      BY CalmFacts, FollowsItself, SeenObjects
    <3>3. object'.dummy => ~patch.undummy
      BY <2>1, DummyBy
    <3>4. ASSUME alive' PROVE wire' # <<>> \/ backlog' # <<>>
      <4>1. CASE Merged(object, patch) = object
        <5>1. UNCHANGED <<object, alive, wire, backlog>> /\ phase = "patching"
          BY <2>1, <4>1 DEF PatchMerge, clusterVars, streamVars
        <5> QED BY <3>1, <3>4, <4>1, <5>1 DEF Calm, RInv, AtRest, InSync
      <4>2. CASE Merged(object, patch) # object
        <5>1. wire' = Append(wire, Event("changed", object')) /\ wire \in Seq(Events)
              /\ Event("changed", object') \in Events
          BY <1>0, <2>1, <4>2, GrownMerging DEF PatchMerge, streamVars, ClusterOK, Growing
        <5> QED BY <5>1
      <4> QED BY <4>1, <4>2
    <3> QED BY <3>1, <3>2, <3>3, <3>4
  <2>2. CASE NoPatchMerge
    <3>1. /\ fresh' = event.body /\ UNCHANGED <<event, patch, object>> /\ ~HasMerge(patch)
          /\ phase # "idle"
      BY <2>2 DEF NoPatchMerge, clusterVars
    <3>2. Follows(event.body, object)
      BY <3>1 DEF Calm, Base, Ordered
    <3> QED BY <3>1, <3>2 DEF HasMerge
  <2>3. CASE Outside /\ phase = "finalizing"
    <3>1. UNCHANGED <<event, patch, fresh>>
      BY <2>3, OutsideKeeps
    <3>2. Follows(fresh, object')
      <4>1. fresh \in Seen
        BY <1>0 DEF CycleOK
      <4> QED BY <1>0, <1>n, <2>3, <4>1, FollowsLater
    <3>3. ASSUME alive', HasMerge(patch)
          PROVE  fresh.finalizer = object'.finalizer /\ (wire' # <<>> \/ backlog' # <<>>)
      <4>1. object'.finalizer = object.finalizer /\ alive
        <5>1. ~PatchJSON
          BY <1>3, <3>3, JSONSteps
        <5> QED BY <3>3, <5>1, FinalizerBy, CalmFacts
      <4>2. wire' # <<>> \/ backlog' # <<>>
        <5>1. wire \in Seq(Events) /\ backlog \in Seq(Events) /\ (wire # <<>> \/ backlog # <<>>)
          BY <1>n, <2>3, <3>3, <4>1, CalmTypes DEF Calm
        <5>2. ~TakeEvent
          BY <1>3 DEF TakeEvent
        <5>3. Arrive => backlog' # <<>>
          BY <5>1 DEF Arrive
        <5>4. Growing => wire' # <<>>
          BY <5>1 DEF Growing
        <5>5. ~Crash
          BY <1>3 DEF Crash
        <5> QED BY <3>3, <5>1, <5>2, <5>3, <5>4, <5>5, CalmSteps DEF Calm
      <4> QED BY <1>n, <2>3, <3>3, <4>1, <4>2
    <3> QED BY <1>n, <2>3, <3>1, <3>2, <3>3
  <2> QED BY <1>3, <2>1, <2>2, <2>3, PhaseSteps DEF Merging
<1> QED BY <1>1, <1>2, <1>3 DEF PatchIsFit

(* What is in the patch changes the object it is made for.                 *)
LEMMA FinishedRecordsDiffer ==
  ASSUME Base, alive, FinishHandling, event.type # "DELETED", NEW h \in DOMAIN patch'.progress
  PROVE  h \in Handlers /\ patch'.progress[h] # event.body.progress[h]
<1>1. /\ event \in Events /\ event.body \in Objects /\ CycleOK /\ EventOK /\ HandlingShape /\ phase = "handling"
      /\ IsPart(state)
  BY CalmTypes DEF Base, FinishHandling, EventOK, CycleOK
<1>2. /\ patch'.progress = (IF Active = {} THEN patch.progress
                            ELSE IF IsDone THEN Purged
                            ELSE [g \in Altered \cup DOMAIN patch.progress |->
                                    IF g \in Altered THEN state[g] ELSE patch.progress[g]])
  BY <1>1, FinishedPatch
<1>3. patch.progress = IF Extras THEN Purged ELSE NoProgress
  BY <1>1 DEF HandlingShape
<1>4. \A g \in DOMAIN Purged : g \in Handlers /\ Purged[g] # event.body.progress[g]
  BY DEF Purged, Stored, NoRecord
<1>5. DOMAIN NoProgress = {}
  BY DEF NoProgress
<1>6. \A g \in DOMAIN patch.progress : g \in Handlers /\ patch.progress[g] # event.body.progress[g]
  BY <1>3, <1>4, <1>5
<1>7. \A g \in Altered : g \in Handlers /\ state[g] # event.body.progress[g]
  BY <1>1 DEF Altered, IsPart
<1>8. CASE Active = {}
  BY <1>2, <1>6, <1>8
<1>9. CASE Active # {} /\ IsDone
  BY <1>2, <1>4, <1>9
<1>10. CASE Active # {} /\ ~IsDone
  <2> DEFINE both == [g \in Altered \cup DOMAIN patch.progress |->
                        IF g \in Altered THEN state[g] ELSE patch.progress[g]]
  <2>1. patch'.progress = both
    BY <1>2, <1>10
  <2>2. h \in Altered \cup DOMAIN patch.progress
    BY <2>1
  <2>3. both[h] = IF h \in Altered THEN state[h] ELSE patch.progress[h]
    BY <2>2
  <2> QED BY <1>6, <1>7, <2>1, <2>2, <2>3
<1> QED BY <1>8, <1>9, <1>10

LEMMA DecidedMergeChanges ==
  ASSUME Calm, alive, Deciding, event.body = object, HasMerge(patch')
  PROVE  Merged(object, patch') # object
<1>1. /\ object \in Objects /\ MemoryOK /\ CycleOK /\ EventOK /\ HandlingShape /\ ~patch.spied
      /\ IsPatch(patch')
  BY CalmTypes, DecidedFin DEF Calm, Base, RInv, Untroubled
<1>2. Merged(object, patch').dummy = (object.dummy /\ ~patch'.undummy)
  BY <1>1 DEF Merged, Objects, Bodies
<1>3. CASE patch'.undummy
  <2>1. object.dummy
    <3>1. CASE SkipHandlers /\ event.type # "DELETED"
      BY <1>1, <1>3, <3>1, SkippedFully DEF Calm
    <3>2. CASE FinishHandling /\ event.type # "DELETED"
      <4>1. event \in Events
        BY <1>1, <3>2 DEF FinishHandling, EventOK
      <4> QED BY <1>1, <1>3, <3>2, <4>1, FinishedFully
    <3> QED BY <3>1, <3>2 DEF Deciding
  <2> QED BY <1>2, <1>3, <2>1
<1>4. CASE ~patch'.undummy
  <2>1. FinishHandling /\ event.type # "DELETED"
    <3>1. CASE SkipHandlers /\ event.type # "DELETED"
      BY <1>1, <1>4, <3>1, SkippedFully DEF Calm
    <3> QED BY <3>1 DEF Deciding
  <2>2. event \in Events
    BY <1>1, <2>1 DEF FinishHandling, EventOK
  <2>3. ~patch'.spied
    BY <1>1, <2>1, <2>2, FinishedFully
  <2>4. CASE patch'.diffbase # 0
    <3>1. patch'.diffbase = event.body.essence /\ event.body.essence # event.body.diffbase
      BY <1>1, <2>1, <2>2, <2>4, FinishedPatch DEF StoredEssence
    <3>2. Merged(object, patch').diffbase = patch'.diffbase
      BY <1>1, <2>4, MergedMore
    <3> QED BY <3>1, <3>2
  <2>5. CASE DOMAIN patch'.progress # {}
    <3>1. PICK h \in DOMAIN patch'.progress : TRUE
      BY <2>5
    <3>2. h \in Handlers /\ patch'.progress[h] # object.progress[h]
      BY <2>1, FinishedRecordsDiffer DEF Calm
    <3>3. Merged(object, patch').progress[h] = patch'.progress[h]
      BY <1>1, <3>1, <3>2, MergedType
    <3> QED BY <3>2, <3>3
  <2> QED BY <1>4, <2>3, <2>4, <2>5 DEF HasMerge
<1> QED BY <1>3, <1>4

(* There are no handlers to run: then the finalizer is all there is to do. *)
LEMMA SkippedRests ==
  ASSUME Calm, Next, alive, wire = <<>>, backlog = <<>>, event.body = object,
         SkipHandlers, event.type # "DELETED", ~Ops(patch'.fin, object)
  PROVE  Settled'
<1>1. /\ object \in Objects /\ MemoryOK /\ UNCHANGED <<object, memory>> /\ patch'.fin = PatchOnEntry.fin
      /\ phase = "detecting" /\ Blocked(object)
  BY CalmTypes, SkippedFully DEF Calm, Base, AllSound, Sound
<1>2. InFlight = {}
  BY ShortElements DEF InFlight
<1>3. IsConsistent
  BY <1>2 DEF Calm, RInv, Awaited, IsConsistent, Base, TInv, Types, StreamOK
<1>4. PatchOnEntry.fin = IF Blocks THEN "block" ELSE IF Frees THEN "allow" ELSE memory.remaining
  BY <1>1, EntryType
<1>5. ~Blocks /\ ~Frees
  BY <1>1, <1>4 DEF Ops, Blocks, Frees
<1>6. object \in Trail
  BY CalmFacts
<1>7. memory.remaining # "block"
  BY <1>1, <1>4, <1>5, <1>6 DEF Ops, Calm, RInv, ToBeBlocked
<1>8. memory.remaining = "allow" => ~object.finalizer /\ Deleting # {}
  BY <1>1, <1>4, <1>5 DEF Ops, Calm, RInv, ToBeFreed
<1>9. object.essence \notin Matching
  <2>1. CASE memory.remaining = "allow"
    BY <1>1, <1>5, <1>8, <2>1 DEF Blocks, MustBeBlocked, Blocked, Objects, Bodies
  <2>2. CASE memory.remaining = "keep"
    BY <1>3, <1>5, <2>2 DEF SkipHandlers, HasCause
  <2> QED BY <1>1, <1>7, <2>1, <2>2 DEF MemoryOK, Functions
<1>10. ~object.finalizer
  BY <1>5, <1>9 DEF Frees, MustBeBlocked
<1>11. ~object.deleting
  BY <1>1, <1>10 DEF Blocked
<1>12. object.finalizer = (object.essence \in Matching /\ Deleting # {})
  BY <1>1, <1>9, <1>10 DEF Objects, Bodies
<1> QED BY <1>1, <1>9, <1>11, <1>12 DEF Settled

(* The handlers are done, for which there is something to store.           *)
LEMMA FinishedRests ==
  ASSUME Calm, Next, alive, wire = <<>>, backlog = <<>>, event.body = object,
         FinishHandling, event.type # "DELETED", ~HasMerge(patch'), ~Ops(patch'.fin, object)
  PROVE  Settled' \/ (IsEmpty(patch') /\ delay' # "none")
<1>1. /\ object \in Objects /\ MemoryOK /\ CycleOK /\ EventOK /\ HandlingShape /\ event \in Events
      /\ UNCHANGED <<object, event>> /\ delay' = Delay /\ phase = "handling" /\ Blocked(object)
      /\ Essences \subseteq Nat \ {0}
  <2>1. /\ object \in Objects /\ MemoryOK /\ CycleOK /\ EventOK /\ HandlingShape /\ event \in Events
        /\ Blocked(object)
    BY CalmTypes DEF Calm, Base, AllSound, Sound, FinishHandling, EventOK
  <2> QED BY <2>1, FinishedFully, Constants
<1>2. /\ patch'.fin = IF ReleasesNow THEN "allow" ELSE "keep"
      /\ patch'.diffbase = IF StoredEssence THEN event.body.essence ELSE 0
  BY <1>1, FinishedPatch
<1>3. HasCause
  BY <1>1 DEF Calm, RInv, Delayed
<1>4. object.finalizer = (Deleting # {}) /\ object.essence \in Matching
  BY <1>1, <1>3, CausesNeed
<1>5. CASE Unfinished # {}
  <2>1. Delay # "none" /\ ~ReleasesNow
    BY <1>5 DEF Delay, ReleasesNow
  <2> QED BY <1>1, <1>2, <2>1 DEF IsEmpty
<1>6. CASE Unfinished = {}
  <2>1. ~object.deleting
    <3>1. object.deleting => ReleasesNow
      BY <1>1, <1>6 DEF ReleasesNow, Blocked
    <3> QED BY <1>1, <1>2, <3>1 DEF Ops, Blocked
  <2>2. object.essence # 0
    BY <1>1 DEF Objects, Bodies
  <2>3. ~StoredEssence
    BY <1>2, <2>2 DEF HasMerge
  <2>4. object.diffbase = object.essence
    <3>1. ASSUME object.diffbase # object.essence PROVE FALSE
      <4>1. Reason \in HandlerReasons
        BY <2>1, <3>1 DEF Reason, HandlerReasons
      <4> QED BY <1>6, <2>3, <3>1, <4>1 DEF StoredEssence, IsDone
    <3> QED BY <3>1
  <2>5. memory'.listed = memory.listed /\ memory'.handled = (memory.handled \/ IsDone)
    BY <1>1, FinishingIsRemembered
  <2>6. memory.listed => memory'.handled
    <3>1. CASE IsInitial
      <4>1. Reason = "resume"
        BY <2>1, <2>2, <2>4, <3>1 DEF Reason
      <4> QED BY <1>6, <2>5, <4>1 DEF IsDone, HandlerReasons
    <3> QED BY <2>5, <3>1 DEF IsInitial
  <2> QED BY <1>1, <1>4, <2>1, <2>4, <2>5, <2>6 DEF Settled
<1> QED BY <1>5, <1>6

LEMMA SettledKept ==
  ASSUME Settled, UNCHANGED object, MemoryOK, Outside \/ NoPatchJSON \/ NoPatchMerge
  PROVE  Settled'
<1>1. memory'.listed = memory.listed /\ memory'.handled = memory.handled
  <2>1. Outside \/ NoPatchMerge => UNCHANGED memory
    BY OutsideKeeps DEF NoPatchMerge
  <2>2. NoPatchJSON => memory' = [memory EXCEPT !.remaining = "keep"]
    BY DEF NoPatchJSON
  <2> QED BY <2>1, <2>2 DEF MemoryOK
<1> QED BY <1>1 DEF Settled

(* Nothing is on its way, and the worker rests.                            *)
LEMMA RestingLater ==
  ASSUME Calm, Next, ~TakeEvent, alive, alive', InSync, UNCHANGED <<object, wire, backlog>>, phase' = "idle"
  PROVE  Settled'
<1>1. /\ MemoryOK /\ (phase # "idle" => event.body = object)
      /\ phase = "idle" => Settled
      /\ phase \in {"patching", "finalizing"} /\ ~HasMerge(patch) /\ ~Ops(patch.fin, object) => SettledOrDelayed
      /\ phase # "throttled" /\ phase # "backoff" /\ ~PatchRepeated /\ wire = <<>> /\ backlog = <<>>
  BY CalmTypes, CalmOnly DEF Calm, RInv, AtRest, Untroubled, InSync
<1>2. phase = "finalizing" => ~HasMerge(patch) /\ fresh = object
  <2>1. phase = "finalizing" => ~HasMerge(patch)
    BY <1>1 DEF Calm, RInv, PatchIsFit
  <2> QED BY <1>1, <2>1 DEF Calm, RInv, PatchIsFit
<1>3. ~Growing /\ ~Crash
  <2>1. Growing => object'.version = object.version + 1 /\ object.version \in Nat
    BY CalmFacts DEF Growing
  <2>2. Crash => wire' # <<>>
    BY TrailAfterCrash
  <2> QED BY <1>1, <2>1, <2>2
<1>4. CASE Outside
  BY <1>1, <1>4, OutsideKeeps, SettledKept
<1>5. CASE Ending
  <2>1. CASE NoPatchJSON /\ ~(IsEmpty(patch) /\ delay # "none")
    <3>1. phase = "finalizing" /\ ~HasOps
      BY <2>1 DEF NoPatchJSON
    <3>2. ~Ops(patch.fin, object)
      BY <1>2, <3>1 DEF HasOps, Ops
    <3>3. Settled
      BY <1>1, <1>2, <2>1, <3>1, <3>2 DEF SettledOrDelayed
    <3> QED BY <1>1, <2>1, <3>3, SettledKept
  <2>2. ~SkipThrottled /\ ~BackoffIsOver /\ ~AwakenedByEvents /\ ~AwakenedInSleep
    BY <1>1 DEF SkipThrottled, BackoffIsOver, AwakenedByEvents, AwakenedInSleep
  <2>3. ~((SkipHandlers \/ FinishHandling) /\ event.type = "DELETED")
    BY DEF SkipHandlers, FinishHandling, Calm, Base, Goodbye
  <2>4. ~PatchJSON /\ ~PatchNotFound
    BY <1>3, JSONSteps DEF PatchNotFound
  <2>5. ~PatchConflict
    <3>1. ASSUME PatchConflict PROVE FALSE
      <4>1. phase = "finalizing" /\ HasOps /\ ~IsAccepted
        BY <3>1 DEF PatchConflict
      <4>2. patch.fin = "block" /\ object.deleting
        BY <1>2, <4>1 DEF IsAccepted
      <4>3. ~object.finalizer
        BY <1>1, <4>1, <4>2 DEF Calm, RInv, ToBeBlocked
      <4>4. Blocked(object)
        BY DEF Calm, Base, AllSound, Sound
      <4> QED BY <4>2, <4>3, <4>4 DEF Blocked
    <3> QED BY <3>1
  <2>6. ~Touch
    <3>1. ASSUME Touch PROVE FALSE
      <4> DEFINE o == [object EXCEPT !.dummy = TRUE]
      <4>1. Commit(o)
        BY <3>1 DEF Touch
      <4>2. o \in Objects /\ o.version = object.version
        BY CalmFacts DEF Objects, Bodies
      <4> HIDE DEF o
      <4>3. Growing
        BY <4>1, <4>2, Grown, CalmTypes DEF Calm
      <4> QED BY <1>3, <4>3
    <3> QED BY <3>1
  <2> QED BY <1>1, <1>5, <2>1, <2>2, <2>3, <2>4, <2>5, <2>6 DEF Ending
<1>6. ~Proceeding /\ ~Deciding /\ ~Merging /\ ~StartHandling
  BY CalmOnly DEF Calm, Proceeding, ThrottlingIsOver, WaitForConsistency, SleepIsOver, NoPatchJSON, SleepOrEnd,
     Deciding, SkipHandlers, FinishHandling, Apply, Merging, PatchMerge, NoPatchMerge, StartHandling
<1>7. ~Running
  BY DEF Running, RunHandler
<1> QED BY <1>3, <1>4, <1>5, <1>6, <1>7, NextByCycle

LEMMA PatchingLater ==
  ASSUME Calm, Next, ~TakeEvent, alive, alive', InSync, UNCHANGED <<object, wire, backlog>>,
         phase' \in {"patching", "finalizing"}, ~HasMerge(patch'), ~Ops(patch'.fin, object)
  PROVE  SettledOrDelayed'
<1>1. /\ MemoryOK /\ (phase # "idle" => event.body = object) /\ wire = <<>> /\ backlog = <<>>
      /\ phase \in {"patching", "finalizing"} /\ ~HasMerge(patch) /\ ~Ops(patch.fin, object) => SettledOrDelayed
      /\ phase = "patching" /\ HasMerge(patch) => Merged(object, patch) # object
  BY CalmTypes DEF Calm, RInv, AtRest, InSync
<1>2. CASE (Outside /\ phase \in {"patching", "finalizing"}) \/ NoPatchMerge
  <2>1. UNCHANGED <<patch, delay>> /\ phase \in {"patching", "finalizing"}
    BY <1>2, OutsideKeeps, DelaySteps DEF Merging, NoPatchMerge
  <2>2. SettledOrDelayed
    BY <1>1, <2>1
  <2>3. Settled => Settled'
    BY <1>1, <1>2, SettledKept
  <2> QED BY <2>1, <2>2, <2>3 DEF SettledOrDelayed, IsEmpty
<1>3. CASE PatchMerge
  <2>1. HasMerge(patch) /\ UNCHANGED patch
    BY <1>3 DEF PatchMerge
  <2> QED BY <2>1
<1>4. CASE Deciding
  <2>1. event.body = object
    BY <1>1, <1>4, DecidedFin
  <2>2. CASE SkipHandlers /\ event.type # "DELETED"
    BY <1>1, <2>1, <2>2, SkippedRests DEF SettledOrDelayed
  <2>3. CASE FinishHandling /\ event.type # "DELETED"
    BY <1>1, <2>1, <2>3, FinishedRests DEF SettledOrDelayed
  <2> QED BY <1>4, <2>2, <2>3 DEF Deciding
<1> QED BY <1>2, <1>3, <1>4, PhaseSteps DEF Merging

LEMMA AtRestLater ==
  ASSUME Calm, Next, Base'
  PROVE  AtRest'
<1> SUFFICES ASSUME alive', wire' = <<>>, backlog' = <<>>
    PROVE  /\ phase' = "idle" => Settled'
           /\ phase' # "idle" => event'.body = object'
           /\ phase' = "patching" /\ HasMerge(patch') => Merged(object', patch') # object'
           /\ phase' \in {"patching", "finalizing"} /\ ~HasMerge(patch') /\ ~Ops(patch'.fin, object')
                => SettledOrDelayed'
  BY DEF AtRest, InSync
<1>0. /\ alive /\ wire \in Seq(Events) /\ backlog \in Seq(Events)
      /\ phase # "throttled"
  BY CalmFacts, CalmTypes DEF Calm, RInv, Untroubled
<1>1. TakeEvent \/ (~TakeEvent /\ UNCHANGED <<object, wire, backlog>>)
  <2>1. ~Growing
    BY <1>0 DEF Growing
  <2>2. ~Crash
    BY <1>0, TrailAfterCrash
  <2>3. ~Arrive
    <3>1. Arrive => Len(backlog') = Len(backlog) + 1 /\ Len(backlog) \in Nat
      BY <1>0 DEF Arrive
    <3>2. Len(backlog') = 0
      OBVIOUS
    <3> QED BY <3>1, <3>2
  <2> QED BY <2>1, <2>2, <2>3, CalmSteps DEF Calm
<1>2. CASE TakeEvent
  <2>1. phase' \in Early
    BY <1>2, CalmTypes, TakingTakes DEF Calm, Early
  <2>2. event'.body = object'
    BY <2>1 DEF Base, Latest
  <2> QED BY <2>1, <2>2 DEF Early
<1>3. CASE ~TakeEvent /\ UNCHANGED <<object, wire, backlog>>
  <2>0. /\ InSync /\ (phase # "idle" => event.body = object)
        /\ phase = "patching" /\ HasMerge(patch) => Merged(object, patch) # object
    BY <1>0, <1>3 DEF InSync, Calm, RInv, AtRest
  <2>1. phase' = "idle" => Settled'
    BY <1>0, <1>3, <2>0, RestingLater
  <2>2. phase' # "idle" => event'.body = object'
    BY <1>3, <2>0, EventSteps
  <2>3. ASSUME phase' = "patching", HasMerge(patch') PROVE Merged(object, patch') # object
    <3>1. CASE Outside /\ phase = "patching"
      BY <2>0, <2>3, <3>1, OutsideKeeps
    <3>2. CASE Deciding
      BY <1>0, <2>0, <2>3, <3>2, DecidedMergeChanges, DecidedFin
    <3> QED BY <2>3, <3>1, <3>2, PhaseSteps
  <2>4. phase' \in {"patching", "finalizing"} /\ ~HasMerge(patch') /\ ~Ops(patch'.fin, object) => SettledOrDelayed'
    BY <1>0, <1>3, <2>0, PatchingLater
  <2> QED BY <1>3, <2>1, <2>2, <2>3, <2>4
<1> QED BY <1>1, <1>2, <1>3

-----------------------------------------------------------------------------
LEMMA InitRests ==
  ASSUME Init
  PROVE  RInv
<1>1. /\ phase = "idle" /\ patch = NoPatch /\ ~throttled /\ deadline = "none" /\ expected = 0 /\ result = 0
      /\ memory = Forgotten /\ backlog = <<>>
  BY DEF Init
<1>2. /\ ~patch.spied /\ patch.fin = "keep" /\ memory.remaining = "keep"
  BY <1>1 DEF NoPatch, Forgotten
<1>3. /\ object \in Objects /\ object.version \in Nat /\ ~object.dummy
      /\ \E t \in {"listed", "changed"} : wire = <<Event(t, object)>>
  <2>1. \E e \in Essences, d \in Essences \cup {0}, f \in BOOLEAN : object = NewObject(e, d, f)
    BY DEF Init
  <2>2. object \in Objects /\ ~object.dummy
    BY <2>1, NewTypes DEF NewObject
  <2> QED BY <2>2 DEF Init, Objects, Bodies
<1>4. PICK t \in {"listed", "changed"} : wire = <<Event(t, object)>>
  BY <1>3
<1>5. InFlight = {Event(t, object)} /\ Event(t, object).body = object
  BY <1>1, <1>4, ShortElements DEF InFlight, Event
<1>6. Trail = {object}
  BY <1>1, <1>5 DEF Trail
<1>7. Newest
  BY <1>1, <1>4 DEF Newest
<1>8. OnceFree /\ NeverBlocked /\ Touched
  BY <1>3, <1>6 DEF OnceFree, NeverBlocked, Touched
<1>9. ToBeBlocked /\ ToBeFreed /\ PatchIsFit /\ Untroubled
  BY <1>1, <1>2 DEF ToBeBlocked, ToBeFreed, PatchIsFit, Untroubled
<1>10. Awaited /\ Delayed
  BY <1>1, <1>6 DEF Awaited, Delayed
<1>11. AtRest
  <2>1. wire # <<>>
    BY <1>4
  <2> QED BY <2>1 DEF AtRest, InSync
<1> QED BY <1>7, <1>8, <1>9, <1>10, <1>11 DEF RInv

LEMMA NextRests ==
  ASSUME Undisturbed, Base, RInv, [Next]_vars, Base'
  PROVE  RInv'
<1>1. CASE Next
  <2>1. Calm
    BY DEF Calm
  <2> QED BY <1>1, <2>1, UntroubledLater, NewestLater, OnceFreeLater, NeverBlockedLater, TouchedLater,
          ToBeBlockedLater, ToBeFreedLater, AwaitedLater, DelayedLater, PatchIsFitLater, AtRestLater DEF RInv
<1>2. CASE UNCHANGED vars
  <2>1. UNCHANGED <<object, alive, wire, backlog, memory, expected, deadline, throttled, phase, event, patch,
                    delay, fresh, result>>
    BY <1>2 DEF vars
  <2>2. InFlight' = InFlight /\ Trail' = Trail
    BY <2>1 DEF InFlight, Elements, Trail
  <2>3. (Untroubled /\ Newest /\ OnceFree /\ NeverBlocked /\ Touched)'
    BY <2>1, <2>2 DEF RInv, Untroubled, Newest, OnceFree, NeverBlocked, Touched
  <2>4. (ToBeBlocked /\ ToBeFreed /\ Awaited /\ PatchIsFit)'
    BY <2>1, <2>2 DEF RInv, ToBeBlocked, ToBeFreed, Awaited, PatchIsFit
  <2>5. Delayed'
    BY <2>1 DEF RInv, Delayed, HasCause, Blocks, Frees, MustBeBlocked
  <2>6. AtRest'
    BY <2>1 DEF RInv, AtRest, InSync, SettledOrDelayed, Settled, IsEmpty
  <2> QED BY <2>3, <2>4, <2>5, <2>6 DEF RInv
<1> QED BY <1>1, <1>2

(* The worker never rests with work undone: once it waits for events, and  *)
(* none is on its way, the last essence is handled, the finalizer is as    *)
(* needed, a deletion is not left, and the object is resumed. For this,    *)
(* process_resource_causes() may skip the handlers in the inconsistent     *)
(* state or with a patch left over from before, and apply() may skip the   *)
(* sleep for the retries if there is a patch, or end it with a touch.      *)
THEOREM RestsSettled ==
  ASSUME Undisturbed
  PROVE  Spec => []RestIsSettled
<1>1. NoHaste
  BY DEF Undisturbed, NoHaste
<1>2. Init => RInv
  BY InitRests
<1>3. KInv /\ KInv' /\ RInv /\ [Next]_vars => RInv'
  BY NextRests DEF KInv
<1>4. RInv => RestIsSettled
  BY DEF RInv, AtRest, InSync, RestIsSettled, Quiet
<1> QED BY <1>1, <1>2, <1>3, <1>4, AlwaysKnows, PTL DEF Spec
=============================================================================
