----------------------------- MODULE PeeringProofs -----------------------------
(***************************************************************************)
(* For any operators with any priorities and any lifetime, whoever starts, *)
(* leaves, crashes or lags, and whatever requests fail, an operator is     *)
(* paused if and only if it is outranked, no more than one is active, and  *)
(* none is forgotten while it is paused.                                   *)
(***************************************************************************)
EXTENDS Peering, TLAPS, SequenceTheorems, WellFoundedInduction

-----------------------------------------------------------------------------
(* The inductive invariant.                                                *)

(* An operator which watches has the current state of the object as the    *)
(* last of its events, or else has decided, or will, by what is current.   *)
Watching(o) == life[o] = "running" /\ worker[o] # "dead"
LastEvent(o) == inbox[o][Len(inbox[o])]

LastIsCurrent ==
  \A o \in Operators : Watching(o) /\ inbox[o] # <<>> => LastEvent(o) = status

UpToDate(o) == Watching(o) /\ inbox[o] = <<>>

(* The rivals that are still alive are known as such, though those that are *)
(* known may have died since then, but not before the alarm.               *)
RivalsAreKnown ==
  \A o \in Operators : UpToDate(o) =>
    \A p \in Operators : IsRival(o, p, status[p]) => p \in rivals[o]

RivalsAreLive ==
  \A o \in Operators :
    UpToDate(o) /\ worker[o] \in {"cleaning", "deciding", "sleeping"} =>
      \A p \in rivals[o] : p # o /\ priority[p] >= priority[o] /\ status[p] >= alarm[o]

(* What a handler is waiting for, and what it has left behind.             *)
Decided ==
  \A o \in Operators :
    /\ life[o] = "new" => worker[o] = "idle"
    /\ Watching(o) =>
         /\ worker[o] = "idle" /\ inbox[o] = <<>> => rivals[o] = {} /\ ~paused[o]
         /\ worker[o] = "sleeping" => rivals[o] # {} /\ paused[o]

IInv == TypeOK /\ LastIsCurrent /\ RivalsAreKnown /\ RivalsAreLive /\ Decided

(* As long as nobody lags, the records of those which refresh them are     *)
(* alive in the object and in all the events on their way, and nobody is   *)
(* about to clean them.                                                    *)
InPlace ==
  \A o \in Operators :
    /\ ~Alive(o) => inbox[o] = <<>>
    /\ pinger[o] = "on" => life[o] = "running"
    /\ life[o] = "new" => pinger[o] = "off" /\ due[o] = 0 /\ status[o] = NoRecord

IsShown(q) == pinger[q] = "on" \/ life[q] = "new"
NeverDead(q) ==
  /\ status[q] # 0
  /\ \A p \in Operators : /\ worker[p] = "cleaning" => q \notin dead[p]
                          /\ \A i \in 1 .. Len(inbox[p]) : inbox[p][i][q] # 0

Refreshed(q) == due[q] < Lifetime /\ (due[q] > 0 => status[q] > due[q])
InTime ==
  ~late => \A q \in Operators : IsShown(q) => Refreshed(q) /\ NeverDead(q)

TInv == InPlace /\ InTime

-----------------------------------------------------------------------------
(* The numbers.                                                            *)

(* The first deadline of several is one of them.                           *)
LEMMA LeastIsLeast ==
  ASSUME NEW S, S \subseteq Nat, S # {}
  PROVE  Least(S) \in S /\ \A y \in S : Least(S) <= y
  <1>1. PICK x \in S : \A y \in S : ~(<<y, x>> \in OpToRel(<, Nat))
    BY WFMin, NatLessThanWellFounded, Zenon
  <1>2. \A y \in S : ~(y < x)
    BY <1>1, Zenon DEF OpToRel
  <1>3. \A y \in S : x <= y
    BY <1>2
  <1> QED
    BY <1>3 DEF Least

(* Facts about the constants, for the provers.                             *)
LEMMA Constants ==
  ASSUME PeeringAssumption
  PROVE  /\ Lifetime \in Nat /\ Lifetime >= 1 /\ Mandatory \in BOOLEAN
         /\ 0 \in 0 .. Lifetime /\ 0 \in 0 .. MaxTroubles
         /\ \A n \in 0 .. MaxTroubles : n < MaxTroubles => n + 1 \in 0 .. MaxTroubles
         /\ Priorities \subseteq [Operators -> Int]
         /\ NoRecord \in Records /\ Lifetime \in Records
         /\ \A n \in Records : n \in Int /\ (n > 0 => n \in 0 .. Lifetime)
  BY DEF PeeringAssumption, Records, NoRecord

(* The time passes for a record, a timer, an event.                        *)
LEMMA Aging ==
  ASSUME PeeringAssumption
  PROVE  /\ \A n \in Records : Less(n) \in Records /\ (Less(n) = 0 => n \in {0, 1})
         /\ \A n \in 0 .. Lifetime : Less(n) \in 0 .. Lifetime
         /\ \A r \in [Operators -> Records] : Aged(r) \in [Operators -> Records]
  BY DEF PeeringAssumption, Records, NoRecord, Less, Aged

(* The next keep-alive comes within the lifetime of the record.            *)
LEMMA DurationInRange ==
  ASSUME PeeringAssumption, NEW jitter \in Jitter
  PROVE  Duration(jitter) \in 1 .. Lifetime
  <1> DEFINE shortened == Lifetime - jitter
             m == Most({1, shortened})
             l == Least({Lifetime, m})
  <1>1. shortened \in Int /\ shortened <= Lifetime /\ Lifetime \in Nat /\ Lifetime >= 1
    BY DEF PeeringAssumption
  <1>2. m \in {1, shortened} /\ m >= 1 /\ m >= shortened
    <2>1. \E x \in {1, shortened} : \A y \in {1, shortened} : x >= y
      BY <1>1
    <2> QED BY <2>1, <1>1 DEF Most
  <1>3. l \in {Lifetime, m} /\ l <= Lifetime /\ l <= m
    <2>1. \E x \in {Lifetime, m} : \A y \in {Lifetime, m} : x <= y
      BY <1>1, <1>2
    <2> QED BY <2>1, <1>1 DEF Least
  <1>4. Duration(jitter) = Most({1, l})
    BY DEF Duration
  <1>5. Most({1, l}) \in {1, l} /\ Most({1, l}) >= 1
    <2>1. \E x \in {1, l} : \A y \in {1, l} : x >= y
      BY <1>1, <1>2, <1>3
    <2> QED BY <2>1, <1>1, <1>2, <1>3 DEF Most
  <1> QED
    BY <1>1, <1>2, <1>3, <1>4, <1>5

OperatorStep(o) ==
  Start(o) \/ Leave(o) \/ Left(o) \/ Trouble(o) \/ KeepAlive(o) \/ Handle(o)

-----------------------------------------------------------------------------
(* Types.                                                                  *)

LEMMA TypeInit ==
  ASSUME PeeringAssumption, Init
  PROVE  TypeOK
  <1>1. \A o \in Operators : <<>> \in Seq([Operators -> Records])
    OBVIOUS
  <1> QED
    BY <1>1, Constants DEF Init, TypeOK

LEMMA TypeTick ==
  ASSUME PeeringAssumption, TypeOK, Tick
  PROVE  TypeOK'
  <1> USE DEF TypeOK, Tick
  <1>1. status' \in [Operators -> Records]
    BY Aging
  <1>2. inbox' \in [Operators -> Seq([Operators -> Records])]
    <2>1. ASSUME NEW o \in Operators
          PROVE  [i \in 1 .. Len(inbox[o]) |-> Aged(inbox[o][i])] \in Seq([Operators -> Records])
      <3>1. inbox[o] \in Seq([Operators -> Records])
        OBVIOUS
      <3>2. ASSUME NEW i \in 1 .. Len(inbox[o])
            PROVE  Aged(inbox[o][i]) \in [Operators -> Records]
        <4>1. inbox[o][i] \in [Operators -> Records]
          BY <3>1
        <4> QED
          BY <4>1, Aging
      <3>3. Len(inbox[o]) \in Nat
        BY <3>1
      <3> QED
        BY <3>2, <3>3
    <2> QED
      BY <2>1
  <1>3. due' \in [Operators -> 0 .. Lifetime] /\ alarm' \in [Operators -> 0 .. Lifetime]
    BY Aging
  <1>4. troubles' \in 0 .. MaxTroubles /\ late' \in BOOLEAN
    <2>1. CASE UNCHANGED <<troubles, late>>
      BY <2>1
    <2>2. CASE troubles < MaxTroubles /\ troubles' = troubles + 1 /\ late' = TRUE
      BY <2>2, Constants
    <2> QED
      BY <2>1, <2>2
  <1> QED
    BY <1>1, <1>2, <1>3, <1>4

(* What a patch does to the object and to the events.                      *)
LEMMA PatchTypes ==
  ASSUME TypeOK, NEW records \in [Operators -> Records],
         status' = records,
         \A o \in Operators : inbox'[o] \in {inbox[o], Append(inbox[o], records)},
         inbox' = [o \in Operators |-> inbox'[o]]
  PROVE  /\ status' \in [Operators -> Records]
         /\ inbox' \in [Operators -> Seq([Operators -> Records])]
  <1>1. ASSUME NEW o \in Operators
        PROVE  inbox'[o] \in Seq([Operators -> Records])
    <2>1. inbox[o] \in Seq([Operators -> Records])
      BY DEF TypeOK
    <2>2. Append(inbox[o], records) \in Seq([Operators -> Records])
      BY <2>1
    <2> QED
      BY <2>1, <2>2
  <1> QED
    BY <1>1

LEMMA Patches ==
  ASSUME NEW records
  PROVE  /\ Patch(records) =>
               /\ status' = records
               /\ \A o \in Operators : inbox'[o] \in {inbox[o], Append(inbox[o], records)}
               /\ inbox' = [o \in Operators |-> inbox'[o]]
         /\ \A o \in Operators : PatchOwn(o, records) =>
               /\ status' = [status EXCEPT ![o] = records]
               /\ \A p \in Operators :
                    inbox'[p] \in {inbox[p], Append(inbox[p], [status EXCEPT ![o] = records])}
               /\ inbox' = [p \in Operators |-> inbox'[p]]
  BY DEF Patch, PatchOwn

LEMMA TypeStep ==
  ASSUME PeeringAssumption, TypeOK, NEW o \in Operators, OperatorStep(o)
  PROVE  TypeOK'
  <1> USE Constants DEF TypeOK
  <1>1. CASE Start(o)
    <2>1. <<status>> \in Seq([Operators -> Records])
      OBVIOUS
    <2> QED
      BY <1>1, <2>1 DEF Start
  <1>2. CASE Leave(o)
    BY <1>2 DEF Leave
  <1>3. CASE Left(o)
    BY <1>3 DEF Left
  <1>4. CASE Crash(o)
    BY <1>4 DEF Crash
  <1>5. CASE Ping(o)
    <2> DEFINE records == [status EXCEPT ![o] = Lifetime]
    <2>1. records \in [Operators -> Records]
      OBVIOUS
    <2>2. PatchOwn(o, Lifetime)
      BY <1>5 DEF Ping
    <2>3. /\ status' \in [Operators -> Records]
          /\ inbox' \in [Operators -> Seq([Operators -> Records])]
      BY <2>1, <2>2, Patches, PatchTypes
    <2>4. due' \in [Operators -> 0 .. Lifetime]
      BY <1>5, DurationInRange DEF Ping
    <2> QED
      BY <1>5, <2>3, <2>4 DEF Ping
  <1>6. CASE PingFails(o)
    BY <1>6 DEF PingFails
  <1>7. CASE Remove(o)
    <2> DEFINE records == [status EXCEPT ![o] = NoRecord]
    <2>1. records \in [Operators -> Records]
      OBVIOUS
    <2>2. Patch(records)
      BY <1>7 DEF Remove
    <2>3. /\ status' \in [Operators -> Records]
          /\ inbox' \in [Operators -> Seq([Operators -> Records])]
      BY <2>1, <2>2, Patches, PatchTypes
    <2> QED
      BY <1>7, <2>3 DEF Remove
  <1>8. CASE TakeEvent(o)
    <2> DEFINE seen == Head(inbox[o])
               blockers == {p \in Operators : IsRival(o, p, seen[p])}
    <2>1. seen \in [Operators -> Records] /\ Tail(inbox[o]) \in Seq([Operators -> Records])
      BY <1>8 DEF TakeEvent
    <2>2. ASSUME blockers # {}
          PROVE  Least({seen[p] : p \in blockers}) \in 0 .. Lifetime
      <3>1. \A p \in blockers : seen[p] \in 0 .. Lifetime
        BY <2>1 DEF IsRival, IsLive
      <3>2. {seen[p] : p \in blockers} \subseteq Nat /\ {seen[p] : p \in blockers} # {}
        BY <3>1, <2>2
      <3>3. Least({seen[p] : p \in blockers}) \in {seen[p] : p \in blockers}
        BY <3>2, LeastIsLeast
      <3> QED
        BY <3>1, <3>3
    <2>3. alarm' \in [Operators -> 0 .. Lifetime]
      BY <1>8, <2>2 DEF TakeEvent
    <2>4. inbox' \in [Operators -> Seq([Operators -> Records])]
      BY <1>8, <2>1 DEF TakeEvent
    <2>5. /\ dead' \in [Operators -> SUBSET Operators]
          /\ rivals' \in [Operators -> SUBSET Operators]
      BY <1>8 DEF TakeEvent
    <2> QED
      BY <1>8, <2>3, <2>4, <2>5 DEF TakeEvent
  <1>9. CASE Clean(o)
    <2> DEFINE records == [p \in Operators |-> IF p \in dead[o] THEN NoRecord ELSE status[p]]
    <2>1. records \in [Operators -> Records]
      OBVIOUS
    <2>2. Patch(records)
      BY <1>9 DEF Clean
    <2>3. /\ status' \in [Operators -> Records]
          /\ inbox' \in [Operators -> Seq([Operators -> Records])]
      BY <2>1, <2>2, Patches, PatchTypes
    <2> QED
      BY <1>9, <2>3 DEF Clean
  <1>10. CASE Decide(o)
    BY <1>10 DEF Decide, IsOutranked
  <1>11. CASE Expire(o)
    BY <1>11 DEF Expire
  <1>12. CASE Touch(o)
    <2> DEFINE records == [status EXCEPT ![o] = Lifetime]
    <2>1. records \in [Operators -> Records]
      OBVIOUS
    <2>2. PatchOwn(o, Lifetime)
      BY <1>12 DEF Touch
    <2>3. /\ status' \in [Operators -> Records]
          /\ inbox' \in [Operators -> Seq([Operators -> Records])]
      BY <2>1, <2>2, Patches, PatchTypes
    <2> QED
      BY <1>12, <2>3 DEF Touch
  <1>13. CASE HandlerFails(o)
    BY <1>13 DEF HandlerFails
  <1> QED
    BY <1>1, <1>2, <1>3, <1>4, <1>5, <1>6, <1>7, <1>8, <1>9, <1>10, <1>11, <1>12, <1>13
    DEF OperatorStep, Trouble, KeepAlive, Handle

-----------------------------------------------------------------------------
(* The operators and the events.                                           *)

(* The last event remains the last one until it is taken.                  *)
LEMMA NextEvents ==
  ASSUME NEW S, NEW s \in Seq(S), NEW e \in S
  PROVE  /\ Append(s, e) # <<>> /\ Append(s, e)[Len(Append(s, e))] = e
         /\ s # <<>> /\ Tail(s) # <<>> => Tail(s)[Len(Tail(s))] = s[Len(s)]
         /\ s # <<>> /\ Tail(s) = <<>> => Head(s) = s[Len(s)]
  <1>1. Append(s, e) # <<>> /\ Append(s, e)[Len(Append(s, e))] = e
    <2>1. Len(Append(s, e)) = Len(s) + 1 /\ Len(s) \in Nat
      OBVIOUS
    <2> QED
      BY <2>1
  <1>2. ASSUME s # <<>>
        PROVE  /\ Tail(s) # <<>> => Tail(s)[Len(Tail(s))] = s[Len(s)]
               /\ Tail(s) = <<>> => Head(s) = s[Len(s)]
    <2>1. /\ Tail(s) \in Seq(S) /\ Len(Tail(s)) = Len(s) - 1 /\ Len(s) \in Nat /\ Len(s) >= 1
          /\ \A i \in 1 .. Len(Tail(s)) : Tail(s)[i] = s[i + 1]
          /\ Head(s) = s[1]
      BY <1>2, EmptySeq, HeadTailProperties
    <2>2. ASSUME Tail(s) # <<>> PROVE Len(Tail(s)) >= 1
      BY <2>1, <2>2, EmptySeq
    <2>3. Tail(s) # <<>> => Tail(s)[Len(Tail(s))] = s[Len(s)]
      <3>1. ASSUME Tail(s) # <<>>
            PROVE  Len(Tail(s)) \in 1 .. Len(Tail(s)) /\ Len(Tail(s)) + 1 = Len(s)
        BY <2>1, <2>2, <3>1
      <3> QED
        BY <2>1, <3>1
    <2>4. ASSUME Tail(s) = <<>> PROVE Head(s) = s[Len(s)]
      <3>1. Len(Tail(s)) = 0 /\ Len(Tail(s)) = Len(s) - 1 /\ Len(s) \in Nat
        BY <2>1, <2>4, EmptySeq
      <3>2. Len(s) = 1
        BY <3>1
      <3> QED
        BY <2>1, <3>2
    <2> QED
      BY <2>3, <2>4
  <1> QED
    BY <1>1, <1>2

(* Those who watch see every change of the object.                         *)
LEMMA PatchIsSeen ==
  ASSUME TypeOK, LastIsCurrent, NEW records \in [Operators -> Records], Patch(records),
         NEW q \in Operators, Watching(q)
  PROVE  /\ inbox'[q] # <<>> => inbox'[q][Len(inbox'[q])] = status'
         /\ inbox'[q] = <<>> => status' = status /\ inbox[q] = <<>>
  <1>1. inbox[q] \in Seq([Operators -> Records])
    BY DEF TypeOK
  <1>2. CASE records = status
    BY <1>2 DEF Patch, LastIsCurrent, LastEvent
  <1>3. CASE records # status
    <2>1. inbox'[q] = Append(inbox[q], records) /\ status' = records
      BY <1>3 DEF Patch, Watching
    <2> QED
      BY <1>1, <2>1, NextEvents
  <1> QED
    BY <1>2, <1>3

LEMMA PatchOwnIsSeen ==
  ASSUME TypeOK, NEW o \in Operators, NEW record \in Records, PatchOwn(o, record),
         NEW q \in Operators, Watching(q)
  PROVE  inbox'[q] # <<>> /\ inbox'[q][Len(inbox'[q])] = status'
  <1>1. inbox[q] \in Seq([Operators -> Records])
    BY DEF TypeOK
  <1>2. status' = [status EXCEPT ![o] = record] /\ status' \in [Operators -> Records]
    BY DEF PatchOwn, TypeOK
  <1>3. inbox'[q] = Append(inbox[q], status')
    BY <1>2 DEF PatchOwn, Watching
  <1> QED
    BY <1>1, <1>2, <1>3, NextEvents

(* Whatever an operator does, the others that watch are up to date only if *)
(* they have been, and nothing has changed.                                *)
Unaffected(q) ==
  /\ Watching(q)
  /\ inbox'[q] = <<>> => inbox[q] = <<>> /\ status' = status
  /\ inbox'[q] # <<>> => inbox'[q][Len(inbox'[q])] = status'

LEMMA EventsStep ==
  ASSUME PeeringAssumption, TypeOK, LastIsCurrent, NEW o \in Operators, OperatorStep(o),
         NEW q \in Operators, Watching(q)'
  PROVE  \/ Unaffected(q)
         \/ q = o /\ (Start(o) \/ TakeEvent(o))
  <1> USE Constants DEF TypeOK, Unaffected, Watching
  <1>1. CASE Start(o)
    <2>1. CASE q # o
      BY <1>1, <2>1 DEF Start, LastIsCurrent, LastEvent
    <2> QED
      BY <1>1, <2>1
  <1>2. CASE Leave(o) \/ Left(o) \/ Crash(o)
    <2>1. q # o /\ Watching(q) /\ inbox'[q] = inbox[q] /\ status' = status
      BY <1>2 DEF Leave, Left, Crash
    <2> QED
      BY <2>1 DEF LastIsCurrent, LastEvent
  <1>3. CASE Ping(o) \/ Touch(o)
    <2>1. PatchOwn(o, Lifetime) /\ Watching(q)
      BY <1>3 DEF Ping, Touch
    <2> QED
      BY <2>1, PatchOwnIsSeen
  <1>4. CASE PingFails(o) \/ Decide(o) \/ Expire(o) \/ HandlerFails(o)
    <2>1. Watching(q) /\ inbox'[q] = inbox[q] /\ status' = status
      BY <1>4 DEF PingFails, Decide, Expire, HandlerFails
    <2> QED
      BY <2>1 DEF LastIsCurrent, LastEvent
  <1>5. CASE Remove(o)
    <2> DEFINE records == [status EXCEPT ![o] = NoRecord]
    <2>1. records \in [Operators -> Records] /\ Patch(records) /\ Watching(q)
      BY <1>5 DEF Remove
    <2> QED
      BY <2>1, PatchIsSeen
  <1>6. CASE Clean(o)
    <2> DEFINE records == [p \in Operators |-> IF p \in dead[o] THEN NoRecord ELSE status[p]]
    <2>1. records \in [Operators -> Records] /\ Patch(records) /\ Watching(q)
      BY <1>6 DEF Clean
    <2> QED
      BY <2>1, PatchIsSeen
  <1>7. CASE TakeEvent(o)
    <2>1. CASE q # o
      BY <1>7, <2>1 DEF TakeEvent, LastIsCurrent, LastEvent
    <2> QED
      BY <1>7, <2>1
  <1> QED
    BY <1>1, <1>2, <1>3, <1>4, <1>5, <1>6, <1>7 DEF OperatorStep, Trouble, KeepAlive, Handle

LEMMA LastStep ==
  ASSUME PeeringAssumption, TypeOK, LastIsCurrent, NEW o \in Operators, OperatorStep(o)
  PROVE  LastIsCurrent'
  <1> SUFFICES ASSUME NEW q \in Operators, Watching(q)', inbox'[q] # <<>>
               PROVE  inbox'[q][Len(inbox'[q])] = status'
    BY DEF LastIsCurrent, LastEvent
  <1>1. CASE Unaffected(q)
    BY <1>1 DEF Unaffected
  <1>2. CASE q = o /\ Start(o)
    BY <1>2 DEF Start, TypeOK
  <1>3. CASE q = o /\ TakeEvent(o)
    <2>1. /\ inbox[o] \in Seq([Operators -> Records]) /\ inbox[o] # <<>> /\ status' = status
          /\ inbox'[o] = Tail(inbox[o]) /\ Watching(o)
      BY <1>3 DEF TakeEvent, TypeOK, Watching
    <2>2. status \in [Operators -> Records] /\ inbox[o][Len(inbox[o])] = status
      BY <2>1 DEF LastIsCurrent, LastEvent, TypeOK
    <2> QED
      BY <1>3, <2>1, <2>2, NextEvents
  <1> QED
    BY <1>1, <1>2, <1>3, EventsStep

LEMMA KnownStep ==
  ASSUME PeeringAssumption, TypeOK, LastIsCurrent, RivalsAreKnown, RivalsAreLive,
         NEW o \in Operators, OperatorStep(o)
  PROVE  RivalsAreKnown' /\ RivalsAreLive'
  <1> DEFINE Knows(q) == \A p \in Operators : IsRival(q, p, status[p]) => p \in rivals[q]
             Lives(q) == worker[q] \in {"cleaning", "deciding", "sleeping"} =>
               \A p \in rivals[q] : p # q /\ priority[p] >= priority[q] /\ status[p] >= alarm[q]
  <1> SUFFICES ASSUME NEW q \in Operators, Watching(q)', inbox'[q] = <<>>
               PROVE  Knows(q)' /\ Lives(q)'
    BY DEF RivalsAreKnown, RivalsAreLive, UpToDate
  <1>1. CASE Unaffected(q) /\ ~(q = o /\ TakeEvent(o))
    <2>1. Knows(q) /\ Lives(q) /\ status' = status
      BY <1>1 DEF Unaffected, RivalsAreKnown, RivalsAreLive, UpToDate
    <2>2. /\ rivals'[q] = rivals[q] /\ alarm'[q] = alarm[q] /\ priority' = priority
          /\ worker'[q] \in {"cleaning", "deciding", "sleeping"} =>
               worker[q] \in {"cleaning", "deciding", "sleeping"}
      BY <1>1 DEF TypeOK, OperatorStep, Trouble, KeepAlive, Handle, Start, Leave, Left, Crash, Ping,
                  PingFails, Remove, TakeEvent, Clean, Decide, Expire, Touch, HandlerFails
    <2> QED
      BY <2>1, <2>2 DEF IsRival
  <1>2. CASE q = o /\ Start(o)
    BY <1>2 DEF Start, TypeOK
  <1>3. CASE q = o /\ TakeEvent(o)
    <2> DEFINE seen == Head(inbox[o])
               blockers == {p \in Operators : IsRival(o, p, seen[p])}
    <2>1. /\ inbox[o] \in Seq([Operators -> Records]) /\ inbox[o] # <<>> /\ status' = status
          /\ inbox'[o] = Tail(inbox[o]) /\ Watching(o) /\ priority' = priority
          /\ status \in [Operators -> Records]
      BY <1>3 DEF TakeEvent, TypeOK, Watching
    <2>2. seen = status
      <3>1. inbox[o][Len(inbox[o])] = status /\ Tail(inbox[o]) = <<>>
        BY <1>3, <2>1 DEF LastIsCurrent, LastEvent
      <3> QED
        BY <2>1, <3>1, NextEvents
    <2>3. rivals'[o] = blockers
      BY <1>3 DEF TakeEvent, TypeOK
    <2>4. \A p \in blockers : seen[p] \in Nat
      BY <2>1, <2>2, Constants DEF IsRival, IsLive
    <2>5. ASSUME NEW p \in blockers PROVE seen[p] >= alarm'[o]
      <3>1. alarm'[o] = Least({seen[r] : r \in blockers})
        BY <1>3 DEF TakeEvent, TypeOK
      <3>2. {seen[r] : r \in blockers} \subseteq Nat /\ seen[p] \in {seen[r] : r \in blockers}
        BY <2>4
      <3>3. /\ Least({seen[r] : r \in blockers}) \in {seen[r] : r \in blockers}
            /\ Least({seen[r] : r \in blockers}) <= seen[p]
        BY <3>2, LeastIsLeast
      <3> QED
        BY <3>1, <3>2, <3>3
    <2> QED
      BY <1>3, <2>1, <2>2, <2>3, <2>5 DEF IsRival
  <1> QED
    BY <1>1, <1>2, <1>3, EventsStep

LEMMA DecidedStep ==
  ASSUME PeeringAssumption, TypeOK, LastIsCurrent, Decided, NEW o \in Operators, OperatorStep(o)
  PROVE  Decided'
  <1> USE DEF TypeOK, Watching
  <1>1. CASE Start(o)
    <2>1. inbox'[o] # <<>> /\ worker'[o] = "idle" /\ life'[o] = "running"
      BY <1>1, EmptySeq DEF Start, Decided
    <2> QED
      BY <1>1, <2>1 DEF Start, Decided
  <1>2. CASE Leave(o)
    BY <1>2 DEF Leave, Decided
  <1>3. CASE Left(o) \/ Crash(o)
    <2>1. /\ life'[o] # "new" /\ worker'[o] = "dead"
          /\ \A q \in Operators \ {o} : /\ life'[q] = life[q] /\ worker'[q] = worker[q]
                                       /\ inbox'[q] = inbox[q]
          /\ rivals' = rivals /\ paused' = paused
      BY <1>3 DEF Left, Crash
    <2> QED
      BY <2>1 DEF Decided
  <1>4. CASE Ping(o)
    <2>1. \A q \in Operators : Watching(q)' => inbox'[q] # <<>>
      BY <1>4, Constants, PatchOwnIsSeen DEF Ping
    <2> QED
      BY <1>4, <2>1 DEF Ping, Decided
  <1>5. CASE PingFails(o)
    BY <1>5 DEF PingFails, Decided
  <1>6. CASE Remove(o)
    <2> DEFINE records == [status EXCEPT ![o] = NoRecord]
    <2>1. records \in [Operators -> Records] /\ Patch(records)
      BY <1>6, Constants DEF Remove
    <2>2. \A q \in Operators : Watching(q) => (inbox'[q] = <<>> => inbox[q] = <<>>)
      BY <2>1, PatchIsSeen
    <2> QED
      BY <1>6, <2>2 DEF Remove, Decided
  <1>7. CASE TakeEvent(o)
    BY <1>7 DEF TakeEvent, Decided, Alive
  <1>8. CASE Clean(o)
    <2> DEFINE records == [p \in Operators |-> IF p \in dead[o] THEN NoRecord ELSE status[p]]
    <2>1. records \in [Operators -> Records] /\ Patch(records)
      BY <1>8, Constants DEF Clean
    <2>2. \A q \in Operators : Watching(q) => (inbox'[q] = <<>> => inbox[q] = <<>>)
      BY <2>1, PatchIsSeen
    <2> QED
      BY <1>8, <2>2 DEF Clean, Decided
  <1>9. CASE Decide(o)
    BY <1>9 DEF Decide, IsOutranked, Decided
  <1>10. CASE Expire(o)
    BY <1>10 DEF Expire, Decided
  <1>11. CASE Touch(o)
    <2>1. \A q \in Operators : Watching(q)' => inbox'[q] # <<>>
      BY <1>11, Constants, PatchOwnIsSeen DEF Touch
    <2> QED
      BY <1>11, <2>1 DEF Touch, Decided
  <1>12. CASE HandlerFails(o)
    BY <1>12 DEF HandlerFails, Decided
  <1> QED
    BY <1>1, <1>2, <1>3, <1>4, <1>5, <1>6, <1>7, <1>8, <1>9, <1>10, <1>11, <1>12
    DEF OperatorStep, Trouble, KeepAlive, Handle

-----------------------------------------------------------------------------
(* The time.                                                               *)

LEMMA AgedEvents ==
  ASSUME PeeringAssumption, TypeOK, Tick, NEW q \in Operators
  PROVE  /\ Len(inbox'[q]) = Len(inbox[q]) /\ (inbox'[q] = <<>> <=> inbox[q] = <<>>)
         /\ \A i \in 1 .. Len(inbox[q]) : inbox'[q][i] = Aged(inbox[q][i])
  <1>1. inbox[q] \in Seq([Operators -> Records]) /\ inbox'[q] \in Seq([Operators -> Records])
    BY TypeTick DEF TypeOK
  <1>2. Len(inbox[q]) \in Nat
    BY <1>1
  <1>3. inbox'[q] = [i \in 1 .. Len(inbox[q]) |-> Aged(inbox[q][i])]
    BY DEF Tick
  <1>4. Len(inbox'[q]) = Len(inbox[q])
    BY <1>2, <1>3
  <1> QED
    BY <1>1, <1>3, <1>4, EmptySeq

LEMMA InvTick ==
  ASSUME PeeringAssumption, IInv, Tick
  PROVE  IInv'
  <1>1. TypeOK /\ TypeOK' /\ status' = Aged(status)
        /\ \A q \in Operators : /\ Watching(q)' <=> Watching(q)
                                /\ rivals'[q] = rivals[q] /\ alarm'[q] = Less(alarm[q])
                                /\ worker'[q] = worker[q] /\ paused'[q] = paused[q]
        /\ priority' = priority /\ life' = life
    BY TypeTick DEF IInv, Tick, Watching
  <1>2. \A q \in Operators : inbox'[q] = <<>> <=> inbox[q] = <<>>
    BY <1>1, AgedEvents
  <1>3. LastIsCurrent'
    <2> SUFFICES ASSUME NEW q \in Operators, Watching(q)', inbox'[q] # <<>>
                 PROVE  inbox'[q][Len(inbox'[q])] = status'
      BY DEF LastIsCurrent, LastEvent
    <2>1. inbox[q] \in Seq([Operators -> Records]) /\ inbox[q] # <<>>
      BY <1>1, <1>2 DEF TypeOK
    <2>2. Len(inbox[q]) \in 1 .. Len(inbox[q])
      BY <2>1, EmptySeq
    <2>3. inbox[q][Len(inbox[q])] = status
      BY <1>1, <2>1 DEF IInv, LastIsCurrent, LastEvent
    <2> QED
      BY <1>1, <2>2, <2>3, AgedEvents
  <1>4. ASSUME NEW p \in Operators
        PROVE  /\ status'[p] = Less(status[p]) /\ status[p] \in Int /\ alarm[p] \in Nat
               /\ status'[p] > 0 => status[p] > 0
    <2>1. status[p] \in Records /\ status[p] \in Int /\ alarm[p] \in Nat
      BY <1>1, Constants DEF TypeOK
    <2>2. status'[p] = Less(status[p])
      BY <1>1 DEF Aged
    <2> QED
      BY <2>1, <2>2 DEF Less
  <1>5. RivalsAreKnown'
    BY <1>1, <1>2, <1>4 DEF IInv, RivalsAreKnown, UpToDate, IsRival, IsLive
  <1>6. RivalsAreLive'
    <2> SUFFICES ASSUME NEW q \in Operators, UpToDate(q)',
                        worker'[q] \in {"cleaning", "deciding", "sleeping"},
                        NEW p \in rivals'[q]
                 PROVE  p # q /\ priority'[p] >= priority'[q] /\ status'[p] >= alarm'[q]
      BY DEF RivalsAreLive
    <2>1. p \in Operators /\ p \in rivals[q]
      BY <1>1 DEF TypeOK
    <2>2. p # q /\ priority[p] >= priority[q] /\ status[p] >= alarm[q]
      BY <1>1, <1>2, <2>1 DEF IInv, RivalsAreLive, UpToDate
    <2> QED
      BY <1>1, <1>4, <2>1, <2>2 DEF Less
  <1>7. Decided'
    BY <1>1, <1>2 DEF IInv, Decided
  <1> QED
    BY <1>1, <1>3, <1>5, <1>6, <1>7 DEF IInv

-----------------------------------------------------------------------------
(* The theorems.                                                           *)

LEMMA InvInit ==
  ASSUME PeeringAssumption, Init
  PROVE  IInv
  <1>1. TypeOK
    BY TypeInit
  <1> QED
    BY <1>1 DEF Init, IInv, LastIsCurrent, RivalsAreKnown, RivalsAreLive, Decided, UpToDate,
                Watching

LEMMA InvNext ==
  ASSUME PeeringAssumption, IInv, [Next]_vars
  PROVE  IInv'
  <1>1. CASE Tick
    BY <1>1, InvTick
  <1>2. ASSUME NEW o \in Operators, OperatorStep(o)
        PROVE  IInv'
    BY <1>2, TypeStep, LastStep, KnownStep, DecidedStep DEF IInv
  <1>3. CASE UNCHANGED vars
    BY <1>3 DEF vars, IInv, TypeOK, LastIsCurrent, LastEvent, RivalsAreKnown, RivalsAreLive,
                Decided, UpToDate, Watching, IsRival
  <1> QED
    BY <1>1, <1>2, <1>3 DEF Next, OperatorStep

(* Every variable stays within its type: no time left is negative, and no  *)
(* more is left than the lifetime.                                         *)
THEOREM TypeCorrect == Spec => []TypeOK
  <1>1. Init => IInv
    BY PeeringAssumption, InvInit
  <1>2. IInv /\ [Next]_vars => IInv'
    BY PeeringAssumption, InvNext
  <1>3. IInv => TypeOK
    BY DEF IInv
  <1> QED
    BY <1>1, <1>2, <1>3, PTL DEF Spec

LEMMA InvImpliesPaused ==
  ASSUME PeeringAssumption, IInv
  PROVE  PausedIffOutranked
  <1> SUFFICES ASSUME NEW o \in Operators, life[o] = "running", worker[o] # "dead", HasDone(o)
               PROVE  paused[o] <=> \E p \in Operators \ {o} :
                                      status[p] > 0 /\ priority[p] >= priority[o]
    BY DEF PausedIffOutranked
  <1>1. UpToDate(o) /\ worker[o] \in {"idle", "sleeping"}
        /\ (worker[o] = "sleeping" => alarm[o] # 0)
    BY DEF HasDone, Alive, UpToDate, Watching
  <1>2. \A p \in Operators \ {o} : status[p] > 0 /\ priority[p] >= priority[o] => p \in rivals[o]
    BY <1>1 DEF IInv, RivalsAreKnown, IsRival, IsLive
  <1>3. CASE worker[o] = "idle"
    BY <1>1, <1>2, <1>3 DEF IInv, Decided, UpToDate
  <1>4. CASE worker[o] = "sleeping"
    <2>1. rivals[o] # {} /\ paused[o] /\ rivals[o] \subseteq Operators /\ alarm[o] \in Nat
      BY <1>1, <1>4 DEF IInv, Decided, UpToDate, TypeOK
    <2>2. \A p \in rivals[o] : p # o /\ priority[p] >= priority[o] /\ status[p] >= alarm[o]
      BY <1>1, <1>4 DEF IInv, RivalsAreLive
    <2>3. \A p \in Operators : status[p] \in Int
      BY Constants DEF IInv, TypeOK
    <2>4. \A p \in rivals[o] : status[p] > 0
      BY <1>1, <1>4, <2>1, <2>2, <2>3
    <2> QED
      BY <2>1, <2>2, <2>4
  <1> QED
    BY <1>1, <1>3, <1>4

(* An operator with nothing to do is paused if and only if there is a live *)
(* record of a peer of the same or a higher priority: process_peering_event *)
(* never leaves the toggle in a wrong state, whatever the order of events, *)
(* timeouts, cleanings and failures is, also if others lag.                *)
THEOREM PausesAreRight == Spec => []PausedIffOutranked
  <1>1. Init => IInv
    BY PeeringAssumption, InvInit
  <1>2. IInv /\ [Next]_vars => IInv'
    BY PeeringAssumption, InvNext
  <1>3. IInv => PausedIffOutranked
    BY PeeringAssumption, InvImpliesPaused
  <1> QED
    BY <1>1, <1>2, <1>3, PTL DEF Spec

-----------------------------------------------------------------------------
(* One is active.  The records are refreshed before they expire: the       *)
(* lifetime is longer than the shortest time between the keep-alives, and  *)
(* the jitter is positive, as it is in keepalive().                        *)
RefreshedEarly == Lifetime > 1 /\ 0 \notin Jitter

LEMMA EarlyDuration ==
  ASSUME PeeringAssumption, RefreshedEarly, NEW jitter \in Jitter
  PROVE  Duration(jitter) \in 1 .. Lifetime /\ Duration(jitter) < Lifetime
  <1> DEFINE shortened == Lifetime - jitter
             m == Most({1, shortened})
             l == Least({Lifetime, m})
  <1>1. shortened \in Int /\ shortened < Lifetime /\ Lifetime \in Nat /\ Lifetime > 1
    BY DEF PeeringAssumption, RefreshedEarly
  <1>2. m \in {1, shortened} /\ m >= 1
    <2>1. \E x \in {1, shortened} : \A y \in {1, shortened} : x >= y
      BY <1>1
    <2> QED BY <2>1, <1>1 DEF Most
  <1>3. l = m
    <2>1. m \in Int /\ m < Lifetime
      BY <1>1, <1>2
    <2>2. m \in {Lifetime, m} /\ \A y \in {Lifetime, m} : m <= y
      BY <2>1, <1>1
    <2>3. l \in {Lifetime, m} /\ l <= m
      BY <2>2 DEF Least
    <2> QED BY <2>1, <2>3, <1>1
  <1>4. Duration(jitter) = Most({1, m})
    BY <1>3 DEF Duration
  <1>5. Most({1, m}) \in {1, m}
    <2>1. \E x \in {1, m} : \A y \in {1, m} : x >= y
      BY <1>1, <1>2
    <2> QED BY <2>1 DEF Most
  <1> QED
    BY <1>1, <1>2, <1>4, <1>5

LEMMA InPlaceNext ==
  ASSUME PeeringAssumption, IInv, InPlace, Next
  PROVE  InPlace'
  <1> USE DEF IInv, TypeOK, InPlace, Alive
  <1>1. ASSUME Tick
        PROVE  InPlace'
    <2>1. \A q \in Operators : inbox'[q] = <<>> <=> inbox[q] = <<>>
      BY <1>1, AgedEvents
    <2>2. \A q \in Operators :
            (due[q] = 0 => due'[q] = 0) /\ (status[q] = NoRecord => status'[q] = NoRecord)
      BY <1>1 DEF Tick, Less, Aged, NoRecord
    <2> QED
      BY <1>1, <2>1, <2>2 DEF Tick
  <1>2. ASSUME NEW o \in Operators, OperatorStep(o)
        PROVE  InPlace'
    <2>1. CASE Start(o)
      BY <2>1 DEF Start
    <2>2. CASE Leave(o)
      BY <2>2 DEF Leave
    <2>3. CASE Left(o)
      BY <2>3 DEF Left
    <2>4. CASE Crash(o)
      BY <2>4 DEF Crash
    <2>5. CASE Ping(o)
      BY <2>5 DEF Ping, PatchOwn
    <2>6. CASE PingFails(o)
      BY <2>6 DEF PingFails
    <2>7. CASE Remove(o)
      BY <2>7 DEF Remove, Patch
    <2>8. CASE TakeEvent(o)
      BY <2>8 DEF TakeEvent
    <2>9. CASE Clean(o)
      BY <2>9 DEF Clean, Patch
    <2>10. CASE Decide(o)
      BY <2>10 DEF Decide
    <2>11. CASE Expire(o)
      BY <2>11 DEF Expire
    <2>12. CASE Touch(o)
      BY <2>12 DEF Touch, PatchOwn, Decided
    <2>13. CASE HandlerFails(o)
      BY <2>13 DEF HandlerFails
    <2> QED
      BY <1>2, <2>1, <2>2, <2>3, <2>4, <2>5, <2>6, <2>7, <2>8, <2>9, <2>10, <2>11, <2>12, <2>13
      DEF OperatorStep, Trouble, KeepAlive, Handle
  <1> QED
    BY <1>1, <1>2 DEF Next, OperatorStep

(* A patch without a dead record does not make any.                        *)
LEMMA PatchNeverDead ==
  ASSUME TypeOK, NEW q \in Operators, NeverDead(q),
         NEW records \in [Operators -> Records], records[q] # 0, status' = records,
         \A p \in Operators : inbox'[p] \in {inbox[p], Append(inbox[p], records)},
         \A p \in Operators : worker'[p] = "cleaning" => worker[p] = "cleaning" /\ dead'[p] = dead[p]
  PROVE  NeverDead(q)'
  <1>1. ASSUME NEW p \in Operators, NEW i \in 1 .. Len(inbox'[p])
        PROVE  inbox'[p][i][q] # 0
    <2>1. inbox[p] \in Seq([Operators -> Records])
      BY DEF TypeOK
    <2>2. CASE inbox'[p] = inbox[p]
      BY <2>2 DEF NeverDead
    <2>3. CASE inbox'[p] = Append(inbox[p], records)
      <3>1. i \in 1 .. Len(inbox[p]) + 1 /\ Len(inbox[p]) \in Nat
        BY <2>1, <2>3
      <3>2. CASE i = Len(inbox[p]) + 1
        BY <2>1, <2>3, <3>2
      <3>3. CASE i \in 1 .. Len(inbox[p])
        BY <2>1, <2>3, <3>3 DEF NeverDead
      <3> QED
        BY <3>1, <3>2, <3>3
    <2> QED
      BY <2>2, <2>3
  <1> QED
    BY <1>1 DEF NeverDead

LEMMA InTimeTick ==
  ASSUME PeeringAssumption, IInv, TInv, Tick
  PROVE  InTime'
  <1> SUFFICES ASSUME ~late', NEW q \in Operators, IsShown(q)'
               PROVE  Refreshed(q)' /\ NeverDead(q)'
    BY DEF InTime
  <1>1. /\ ~late /\ \A o \in Operators : HasDone(o)
        /\ IsShown(q) /\ Refreshed(q) /\ NeverDead(q)
    BY DEF Tick, TInv, InTime, IsShown
  <1>2. status[q] \in Int /\ due[q] \in Nat /\ Lifetime \in Nat
    BY Constants DEF IInv, TypeOK
  <1>3. due'[q] = Less(due[q]) /\ status'[q] = Less(status[q])
    BY DEF Tick, Aged
  <1>4. ASSUME pinger[q] = "on"
        PROVE  Refreshed(q)' /\ status'[q] # 0
    <2>1. due[q] > 0 /\ status[q] > due[q] /\ due[q] < Lifetime
      BY <1>1, <1>2, <1>4 DEF TInv, InPlace, HasDone, Alive, Refreshed
    <2> QED
      BY <1>2, <1>3, <2>1 DEF Refreshed, Less
  <1>5. ASSUME life[q] = "new"
        PROVE  Refreshed(q)' /\ status'[q] # 0
    <2>1. due[q] = 0 /\ status[q] = -1
      BY <1>5 DEF TInv, InPlace, NoRecord
    <2> QED
      BY <1>1, <1>2, <1>3, <2>1 DEF Refreshed, Less
  <1>6. Refreshed(q)' /\ status'[q] # 0
    BY <1>1, <1>4, <1>5 DEF IsShown
  <1>7. ASSUME NEW p \in Operators PROVE inbox'[p] = <<>>
    BY <1>1, AgedEvents DEF TInv, InPlace, HasDone, IInv
  <1>8. \A p \in Operators : worker'[p] = worker[p] /\ dead'[p] = dead[p]
    BY DEF Tick
  <1>9. Len(<<>>) = 0
    OBVIOUS
  <1> QED
    BY <1>1, <1>6, <1>7, <1>8, <1>9 DEF NeverDead

LEMMA InTimeStep ==
  ASSUME PeeringAssumption, RefreshedEarly, IInv, TInv, NEW o \in Operators, OperatorStep(o)
  PROVE  InTime'
  <1> SUFFICES ASSUME ~late', NEW q \in Operators, IsShown(q)'
               PROVE  Refreshed(q)' /\ NeverDead(q)'
    BY DEF InTime
  <1> USE Constants DEF IInv, TypeOK
  <1>1. ~late /\ (q # o => IsShown(q)) /\ (IsShown(q) => Refreshed(q) /\ NeverDead(q))
    BY DEF TInv, InTime, IsShown, OperatorStep, Trouble, KeepAlive, Handle, Start, Leave, Left, Crash,
           Ping, PingFails, Remove, TakeEvent, Clean, Decide, Expire, Touch, HandlerFails
  <1>2. CASE Start(o)
    <2>1. IsShown(q) /\ NeverDead(q)
      BY <1>1, <1>2 DEF IsShown, Start
    <2>2. \A i \in 1 .. Len(<<status>>) : <<status>>[i][q] # 0
      BY <2>1 DEF NeverDead
    <2>3. Refreshed(q)'
      BY <1>1, <1>2, <2>1 DEF Start, Refreshed
    <2> QED
      BY <1>2, <2>1, <2>2, <2>3 DEF Start, NeverDead
  <1>3. CASE Leave(o) \/ PingFails(o) \/ Decide(o) \/ Expire(o)
    <2>1. IsShown(q) /\ Refreshed(q) /\ NeverDead(q)
      BY <1>1, <1>3 DEF IsShown, Leave, PingFails, Decide, Expire
    <2> QED
      BY <1>3, <2>1 DEF Refreshed, NeverDead, Leave, PingFails, Decide, Expire
  <1>4. CASE Left(o) \/ Crash(o) \/ HandlerFails(o)
    <2>1. IsShown(q) /\ Refreshed(q) /\ NeverDead(q)
      BY <1>1, <1>4 DEF IsShown, Left, Crash, HandlerFails
    <2>2. \A p \in Operators : /\ inbox'[p] = inbox[p] \/ inbox'[p] = <<>>
                               /\ worker'[p] = "cleaning" => worker[p] = "cleaning"
      BY <1>4 DEF Left, Crash, HandlerFails
    <2>3. status' = status /\ due' = due /\ dead' = dead
      BY <1>4 DEF Left, Crash, HandlerFails
    <2>4. \A p \in Operators : \A i \in 1 .. Len(inbox'[p]) : inbox'[p][i][q] # 0
      <3> SUFFICES ASSUME NEW p \in Operators, NEW i \in 1 .. Len(inbox'[p])
                   PROVE  inbox'[p][i][q] # 0
        OBVIOUS
      <3>1. CASE inbox'[p] = inbox[p]
        BY <2>1, <3>1 DEF NeverDead
      <3>2. CASE inbox'[p] = <<>>
        <4>1. Len(<<>>) = 0
          OBVIOUS
        <4> QED
          BY <3>2, <4>1
      <3>3. inbox'[p] = inbox[p] \/ inbox'[p] = <<>>
        BY <2>2
      <3> QED
        BY <3>1, <3>2, <3>3, Zenon
    <2>5. NeverDead(q)'
      <3> HIDE Constants DEF IInv, TypeOK
      <3> QED
        BY <2>1, <2>2, <2>3, <2>4 DEF NeverDead
    <2> QED
      BY <2>1, <2>3, <2>5 DEF Refreshed
  <1>5. CASE Ping(o)
    <2> DEFINE records == [status EXCEPT ![o] = Lifetime]
    <2>1. records \in [Operators -> Records] /\ PatchOwn(o, Lifetime)
      BY <1>5 DEF Ping
    <2>2. IsShown(q) /\ Refreshed(q) /\ NeverDead(q) /\ records[q] # 0
      BY <1>1, <1>5 DEF IsShown, Ping, NeverDead
    <2>3. NeverDead(q)'
      BY <1>5, <2>1, <2>2, Patches, PatchNeverDead DEF Ping
    <2>4. PICK jitter \in Jitter : due' = [due EXCEPT ![o] = Duration(jitter)]
      BY <1>5 DEF Ping
    <2>5. Duration(jitter) \in Nat /\ Duration(jitter) < Lifetime
      BY EarlyDuration
    <2>6. status' = records
      BY <2>1 DEF PatchOwn
    <2>7. CASE q = o
      BY <2>3, <2>4, <2>5, <2>6, <2>7 DEF Refreshed
    <2>8. CASE q # o
      BY <2>2, <2>3, <2>4, <2>6, <2>8 DEF Refreshed
    <2> QED
      BY <2>7, <2>8
  <1>6. CASE Remove(o)
    <2> DEFINE records == [status EXCEPT ![o] = NoRecord]
    <2>1. records \in [Operators -> Records] /\ Patch(records)
      BY <1>6 DEF Remove
    <2>2. q # o /\ IsShown(q) /\ Refreshed(q) /\ NeverDead(q)
      BY <1>1, <1>6 DEF IsShown, Remove, TInv, InPlace
    <2>3. NeverDead(q)'
      BY <1>6, <2>1, <2>2, Patches, PatchNeverDead DEF Remove, NeverDead
    <2>4. status' = records /\ due' = due
      BY <1>6 DEF Remove, Patch
    <2> QED
      BY <2>2, <2>3, <2>4 DEF Refreshed
  <1>7. CASE TakeEvent(o)
    <2>1. IsShown(q) /\ Refreshed(q) /\ NeverDead(q)
      BY <1>1, <1>7 DEF IsShown, TakeEvent
    <2>2. /\ inbox[o] \in Seq([Operators -> Records]) /\ inbox[o] # <<>>
          /\ inbox'[o] = Tail(inbox[o])
      BY <1>7 DEF TakeEvent
    <2>3. /\ Head(inbox[o]) = inbox[o][1] /\ 1 \in 1 .. Len(inbox[o])
          /\ \A i \in 1 .. Len(Tail(inbox[o])) :
               i + 1 \in 1 .. Len(inbox[o]) /\ Tail(inbox[o])[i] = inbox[o][i + 1]
      BY <2>2, EmptySeq, HeadTailProperties
    <2>4. q \notin dead'[o]
      BY <1>7, <2>1, <2>3 DEF TakeEvent, NeverDead, IsDead
    <2>5. ASSUME NEW i \in 1 .. Len(inbox'[o])
          PROVE  inbox'[o][i][q] # 0
      <3>1. inbox'[o][i] = inbox[o][i + 1] /\ i + 1 \in 1 .. Len(inbox[o])
        BY <2>2, <2>3
      <3> QED
        BY <2>1, <3>1 DEF NeverDead
    <2>6. \A p \in Operators \ {o} : /\ inbox'[p] = inbox[p] /\ worker'[p] = worker[p]
                                     /\ dead'[p] = dead[p]
      BY <1>7 DEF TakeEvent
    <2>7. status' = status /\ due' = due
      BY <1>7 DEF TakeEvent
    <2>8. NeverDead(q)'
      <3>1. ASSUME NEW p \in Operators
            PROVE  /\ worker'[p] = "cleaning" => q \notin dead'[p]
                   /\ \A i \in 1 .. Len(inbox'[p]) : inbox'[p][i][q] # 0
        <4>1. CASE p = o
          BY <2>4, <2>5, <4>1
        <4>2. CASE p # o
          <5>1. inbox'[p] = inbox[p] /\ worker'[p] = worker[p] /\ dead'[p] = dead[p]
            BY <2>6, <4>2
          <5>2. worker[p] = "cleaning" => q \notin dead[p]
            BY <2>1 DEF NeverDead
          <5>3. \A i \in 1 .. Len(inbox[p]) : inbox[p][i][q] # 0
            BY <2>1 DEF NeverDead
          <5> QED
            BY <5>1, <5>2, <5>3
        <4> QED
          BY <4>1, <4>2
      <3> QED
        BY <2>1, <2>7, <3>1 DEF NeverDead
    <2> QED
      BY <2>1, <2>7, <2>8 DEF Refreshed
  <1>8. CASE Clean(o)
    <2> DEFINE records == [p \in Operators |-> IF p \in dead[o] THEN NoRecord ELSE status[p]]
    <2>1. records \in [Operators -> Records] /\ Patch(records)
      BY <1>8 DEF Clean
    <2>2. IsShown(q) /\ Refreshed(q) /\ NeverDead(q)
      BY <1>1, <1>8 DEF IsShown, Clean
    <2>3. records[q] = status[q]
      BY <1>8, <2>2 DEF Clean, NeverDead
    <2>4. \A p \in Operators : worker'[p] = "cleaning" => worker[p] = "cleaning" /\ dead'[p] = dead[p]
      BY <1>8 DEF Clean
    <2>5. NeverDead(q)'
      BY <2>1, <2>2, <2>3, <2>4, Patches, PatchNeverDead DEF NeverDead
    <2> QED
      BY <1>8, <2>1, <2>2, <2>3, <2>5, Patches DEF Refreshed, Clean
  <1>9. CASE Touch(o)
    <2> DEFINE records == [status EXCEPT ![o] = Lifetime]
    <2>1. records \in [Operators -> Records] /\ PatchOwn(o, Lifetime)
      BY <1>9 DEF Touch
    <2>2. IsShown(q) /\ Refreshed(q) /\ NeverDead(q) /\ records[q] # 0
      BY <1>1, <1>9 DEF IsShown, Touch, NeverDead
    <2>3. NeverDead(q)'
      <3>1. \A p \in Operators :
              worker'[p] = "cleaning" => worker[p] = "cleaning" /\ dead'[p] = dead[p]
        BY <1>9 DEF Touch
      <3>2. /\ status' = records
            /\ \A p \in Operators : inbox'[p] \in {inbox[p], Append(inbox[p], records)}
        BY <2>1, Patches
      <3> HIDE DEF records
      <3> QED
        BY <2>1, <2>2, <3>1, <3>2, PatchNeverDead
    <2>4. due' = due /\ status' = records
      BY <1>9 DEF Touch, PatchOwn
    <2> QED
      BY <2>2, <2>3, <2>4 DEF Refreshed
  <1> QED
    BY <1>2, <1>3, <1>4, <1>5, <1>6, <1>7, <1>8, <1>9 DEF OperatorStep, Trouble, KeepAlive, Handle

LEMMA InTimeNext ==
  ASSUME PeeringAssumption, RefreshedEarly, IInv, TInv, [Next]_vars
  PROVE  TInv'
  <1>1. CASE UNCHANGED vars
    BY <1>1 DEF vars, TInv, InPlace, Alive, InTime, IsShown, Refreshed, NeverDead
  <1>2. CASE Next
    <2>1. InPlace'
      BY <1>2, InPlaceNext DEF TInv
    <2>2. InTime'
      BY <1>2, InTimeTick, InTimeStep DEF Next, OperatorStep
    <2> QED
      BY <2>1, <2>2 DEF TInv
  <1> QED
    BY <1>1, <1>2

LEMMA InTimeInit ==
  ASSUME PeeringAssumption, Init
  PROVE  TInv
  BY Constants DEF Init, TInv, InPlace, Alive, InTime, IsShown, Refreshed, NeverDead, NoRecord

LEMMA InTimeImpliesOne ==
  ASSUME PeeringAssumption, IInv, TInv
  PROVE  OneIsActive
  <1> SUFFICES ASSUME NEW o \in Operators, NEW p \in Operators, ~late, o # p,
                      life[o] = "running", life[p] = "running",
                      pinger[o] = "on", pinger[p] = "on", worker[o] # "dead", worker[p] # "dead",
                      HasDone(o), HasDone(p)
               PROVE  /\ paused[o] \/ paused[p]
                      /\ priority[o] <= priority[p] => paused[o]
    BY DEF OneIsActive
  <1>1. ASSUME NEW q \in Operators, life[q] = "running", pinger[q] = "on", HasDone(q)
        PROVE  status[q] > 0
    <2>1. due[q] > 0 /\ status[q] > due[q] /\ status[q] \in Int /\ due[q] \in Nat
      BY <1>1, Constants DEF HasDone, Alive, TInv, InTime, IsShown, Refreshed, IInv, TypeOK
    <2> QED
      BY <2>1
  <1>2. status[o] > 0 /\ status[p] > 0
    BY <1>1
  <1>3. priority[o] \in Int /\ priority[p] \in Int
    BY Constants DEF IInv, TypeOK
  <1>4. PausedIffOutranked
    BY InvImpliesPaused
  <1> QED
    BY <1>2, <1>3, <1>4 DEF PausedIffOutranked

(* Of the operators that are in time and have nothing else to do, no more  *)
(* than one is active, and none with a lower priority than another one:    *)
(* no record of a live operator expires, or is cleaned by a late handler.  *)
THEOREM OnlyOneIsActive == ASSUME RefreshedEarly PROVE Spec => []OneIsActive
  <1>1. Init => IInv /\ TInv
    BY PeeringAssumption, InvInit, InTimeInit
  <1>2. IInv /\ TInv /\ [Next]_vars => IInv' /\ TInv'
    BY PeeringAssumption, InvNext, InTimeNext
  <1>3. IInv /\ TInv => OneIsActive
    BY PeeringAssumption, InTimeImpliesOne
  <1> QED
    BY <1>1, <1>2, <1>3, PTL DEF Spec

-----------------------------------------------------------------------------
(* Nobody is forgotten.  The alarm is that of one of the rivals, by what   *)
(* is in the object now: the others only live longer (RivalsAreLive).      *)
AlarmIsOfOne ==
  \A o \in Operators :
    UpToDate(o) /\ worker[o] \in {"cleaning", "deciding", "sleeping"} /\ rivals[o] # {} =>
      \E p \in rivals[o] : status[p] = alarm[o]

LEMMA AlarmStep ==
  ASSUME PeeringAssumption, IInv, AlarmIsOfOne, NEW o \in Operators, OperatorStep(o)
  PROVE  AlarmIsOfOne'
  <1> SUFFICES ASSUME NEW q \in Operators, Watching(q)', inbox'[q] = <<>>,
                      worker'[q] \in {"cleaning", "deciding", "sleeping"}, rivals'[q] # {}
               PROVE  \E p \in rivals'[q] : status'[p] = alarm'[q]
    BY DEF AlarmIsOfOne, UpToDate
  <1> TypeOK /\ LastIsCurrent
    BY DEF IInv
  <1>1. CASE Unaffected(q) /\ ~(q = o /\ TakeEvent(o))
    <2>1. /\ rivals'[q] = rivals[q] /\ alarm'[q] = alarm[q] /\ status' = status
          /\ worker[q] \in {"cleaning", "deciding", "sleeping"} /\ UpToDate(q)
      BY <1>1 DEF Unaffected, UpToDate, TypeOK, OperatorStep, Trouble, KeepAlive, Handle, Start,
                  Leave, Left, Crash, Ping, PingFails, Remove, TakeEvent, Clean, Decide, Expire,
                  Touch, HandlerFails
    <2> QED
      BY <2>1 DEF AlarmIsOfOne
  <1>2. CASE q = o /\ Start(o)
    BY <1>2 DEF Start, TypeOK
  <1>3. CASE q = o /\ TakeEvent(o)
    <2> DEFINE seen == Head(inbox[o])
               blockers == {p \in Operators : IsRival(o, p, seen[p])}
    <2>1. /\ inbox[o] \in Seq([Operators -> Records]) /\ inbox[o] # <<>> /\ status' = status
          /\ inbox'[o] = Tail(inbox[o]) /\ Watching(o) /\ status \in [Operators -> Records]
      BY <1>3 DEF TakeEvent, TypeOK, Watching
    <2>2. seen = status
      <3>1. inbox[o][Len(inbox[o])] = status /\ Tail(inbox[o]) = <<>>
        BY <1>3, <2>1 DEF LastIsCurrent, LastEvent
      <3> QED
        BY <2>1, <3>1, NextEvents
    <2>3. /\ rivals'[o] = blockers
          /\ alarm'[o] = IF blockers = {} THEN 0 ELSE Least({seen[r] : r \in blockers})
      BY <1>3 DEF TakeEvent, TypeOK
    <2>4. \A p \in blockers : seen[p] \in Nat
      BY <2>1, <2>2, Constants DEF IsRival, IsLive
    <2>5. blockers # {}
      BY <1>3, <2>3
    <2>6. {seen[r] : r \in blockers} \subseteq Nat /\ {seen[r] : r \in blockers} # {}
      BY <2>4, <2>5
    <2>7. Least({seen[r] : r \in blockers}) \in {seen[r] : r \in blockers}
      BY <2>6, LeastIsLeast
    <2>8. PICK p \in blockers : seen[p] = alarm'[o]
      BY <2>3, <2>5, <2>7
    <2> QED
      BY <1>3, <2>1, <2>2, <2>3, <2>8
  <1> QED
    BY <1>1, <1>2, <1>3, EventsStep

(* The time runs out for the alarm and for the records alike.              *)
LEMMA AlarmTick ==
  ASSUME PeeringAssumption, IInv, AlarmIsOfOne, Tick
  PROVE  AlarmIsOfOne'
  <1> SUFFICES ASSUME NEW q \in Operators, UpToDate(q)',
                      worker'[q] \in {"cleaning", "deciding", "sleeping"}, rivals'[q] # {}
               PROVE  \E p \in rivals'[q] : status'[p] = alarm'[q]
    BY DEF AlarmIsOfOne
  <1>1. /\ UpToDate(q) /\ worker' = worker /\ rivals' = rivals /\ rivals[q] \subseteq Operators
    BY AgedEvents DEF IInv, TypeOK, Tick, UpToDate, Watching
  <1>2. PICK p \in rivals[q] : status[p] = alarm[q]
    BY <1>1 DEF AlarmIsOfOne
  <1>3. status'[p] = Less(status[p]) /\ alarm'[q] = Less(alarm[q])
    BY <1>1 DEF Tick, Aged
  <1> QED
    BY <1>1, <1>2, <1>3

LEMMA AlarmNext ==
  ASSUME PeeringAssumption, IInv, AlarmIsOfOne, [Next]_vars
  PROVE  AlarmIsOfOne'
  <1>1. CASE UNCHANGED vars
    BY <1>1 DEF vars, AlarmIsOfOne, UpToDate, Watching
  <1> QED
    BY <1>1, AlarmStep, AlarmTick DEF Next, OperatorStep

(* An operator that is paused is going to look at the peering again: as    *)
(* soon as anything changes there, or the first of its rivals is presumed  *)
(* dead, and not later.                                                    *)
THEOREM PausedAreAwakened == Spec => []PausedIsAwakened
  <1>1. Init => IInv /\ AlarmIsOfOne
    BY PeeringAssumption, InvInit DEF Init, AlarmIsOfOne, UpToDate, Watching
  <1>2. (IInv /\ AlarmIsOfOne) /\ [Next]_vars => (IInv /\ AlarmIsOfOne)'
    BY PeeringAssumption, InvNext, AlarmNext
  <1>3. IInv /\ AlarmIsOfOne => PausedIsAwakened
    <2> SUFFICES ASSUME IInv, AlarmIsOfOne, NEW o \in Operators, UpToDate(o), paused[o]
                 PROVE  \/ worker[o] \in {"cleaning", "deciding", "touching"}
                        \/ /\ worker[o] = "sleeping"
                           /\ \E p \in Operators \ {o} :
                                priority[p] >= priority[o] /\ status[p] = alarm[o]
                           /\ \A p \in Operators :
                                IsRival(o, p, status[p]) => status[p] >= alarm[o]
      BY DEF PausedIsAwakened, UpToDate, Watching
    <2>1. /\ worker[o] = "idle" => FALSE
          /\ worker[o] = "sleeping" => rivals[o] # {}
      BY DEF IInv, Decided, UpToDate
    <2>2. worker[o] \in {"cleaning", "deciding", "sleeping", "touching"}
      BY <2>1 DEF IInv, TypeOK, UpToDate, Watching
    <2>3. CASE worker[o] = "sleeping"
      <3>1. PICK p \in rivals[o] : status[p] = alarm[o]
        BY <2>1, <2>3 DEF AlarmIsOfOne
      <3>2. p \in Operators /\ p # o /\ priority[p] >= priority[o]
        BY <2>3, <3>1 DEF IInv, TypeOK, RivalsAreLive
      <3>3. \A r \in Operators : IsRival(o, r, status[r]) => status[r] >= alarm[o]
        BY <2>3 DEF IInv, RivalsAreKnown, RivalsAreLive
      <3> QED
        BY <2>3, <3>1, <3>2, <3>3
    <2> QED
      BY <2>2, <2>3
  <1> QED
    BY <1>1, <1>2, <1>3, PTL DEF Spec
=============================================================================
