---------------------------- MODULE RideAuditProofs ----------------------------
(***************************************************************************)
(* Proofs about the audit trail of the ride service, for any number of     *)
(* trips, drivers and concurrent requests: trip_events holds no transition *)
(* twice, nothing is announced that it does not hold, and, when no handler *)
(* dies, it leaves no gap.  AuditInv and TrailInv are the inductive        *)
(* invariants; both are shown to survive the four ways (AuditMove) a step  *)
(* can treat the trips, their audit rows and the handlers that owe one.    *)
(***************************************************************************)
EXTENDS RideServiceProofs

\* How far along a status is: every transition goes to a higher rank.
Rank(s) ==
  CASE s = "requested"          -> 1
    [] s = "searching"          -> 2
    [] s = "driver_assigned"    -> 3
    [] s = "driver_arriving"    -> 4
    [] s = "picked_up"          -> 5
    [] s = "in_progress"        -> 6
    [] s = "completed"          -> 7
    [] s = "payment_processing" -> 8
    [] s = "paid"               -> 9
    [] s = "rated"              -> 10
    [] s = "cancelled"          -> 11
    [] OTHER                    -> 0

\* A handler that has changed a status and owes the audit row, and one that
\* has left it and is about to announce the change.
Pending(q)    == q.pc \in {"advance.event", "patch.event"}
Publishing(q) == q.pc \in {"advance.price", "publish"}

\* An accept can only mean one transition.
AcceptKnows(q) ==
  q.pc = "accept.update" => q.from = "searching" /\ q.to = "driver_assigned"

Recorded(t, from, to) ==
  \E i \in DOMAIN tripEvents[t] : tripEvents[t][i] = [from |-> from, to |-> to]

\* The same of the table after the step.
RecordedNext(t, from, to) ==
  \E i \in DOMAIN tripEvents'[t] :
    tripEvents'[t][i] = [from |-> from, to |-> to]

-------------------------------------------------------------------------------
\* The parts of the inductive invariant.

AcceptsKnow == \A r \in RideReqs : AcceptKnows(rideReqs[r])

\* Every audit row is about a status the trip is in or has left behind.
EventsBehind ==
  \A t \in TripIds : \A i \in DOMAIN tripEvents[t] :
    Rank(tripEvents[t][i].to) <= Rank(trips[t].status)

\* So is every row that is still owed, and nobody else has written it.
PendingBehind ==
  \A r \in RideReqs :
    LET q == rideReqs[r] IN
    Pending(q) =>
      /\ Rank(q.to) <= Rank(trips[q.trip].status)
      /\ \A i \in DOMAIN tripEvents[q.trip] : tripEvents[q.trip][i].to # q.to

\* Nor does anybody else owe it.
PendingDistinct ==
  \A r, o \in RideReqs :
    /\ Pending(rideReqs[r]) /\ Pending(rideReqs[o])
    /\ rideReqs[r].trip = rideReqs[o].trip
    /\ rideReqs[r].to = rideReqs[o].to
    => r = o

\* What a handler is about to announce is in the table.
PublishingRecorded ==
  \A r \in RideReqs :
    LET q == rideReqs[r] IN
    Publishing(q) => q.trip \in TripIds /\ Recorded(q.trip, q.from, q.to)

AuditInv == /\ Unpaid /\ AcceptsKnow
            /\ EventsBehind /\ PendingBehind /\ PendingDistinct
            /\ TransitionAuditedOnce
            /\ PublishingRecorded

-------------------------------------------------------------------------------
\* What a step may do to the trips, their audit rows and the handlers.

SameMove(q, p) == p.trip = q.trip /\ p.from = q.from /\ p.to = q.to

\* Handler r takes on no duty, and sheds one only by dying.
Unmoved(r) ==
  LET q == rideReqs[r]
      p == rideReqs'[r]
  IN  /\ Pending(p) => Pending(q) /\ SameMove(q, p)
      /\ Publishing(p) => Publishing(q) /\ SameMove(q, p)
      /\ Pending(q) => Crashes \/ Pending(p)
      /\ AcceptKnows(p)

\* No status changes, except that a row may be inserted.
Quiet ==
  /\ UNCHANGED tripEvents
  /\ \A t \in TripIds :
       \/ trips'[t].status = trips[t].status
       \/ trips[t].status = "none" /\ trips'[t].status = "requested"
  /\ \A r \in RideReqs : Unmoved(r)

\* Handler r takes trip t from one status to the next.
StatusMoves(t, from, to) ==
  /\ t \in TripIds
  /\ from \in TripStatus /\ to \in TripStatus
  /\ CanTransition(from, to)
  /\ trips[t].status = from
  /\ trips'[t].status = to
  /\ \A u \in TripIds : u # t => trips'[u].status = trips[u].status

\* Only handler r goes on, and it keeps what it knows of its transition.
OnlyHandler(r) ==
  /\ SameMove(rideReqs[r], rideReqs'[r])
  /\ AcceptKnows(rideReqs'[r])
  /\ \A o \in RideReqs : o # r => rideReqs'[o] = rideReqs[o]

\* The transition and its audit row in one transaction.
MoveAndRecord(r) ==
  LET q == rideReqs[r] IN
  /\ ~Pending(q) /\ ~Pending(rideReqs'[r])
  /\ StatusMoves(q.trip, q.from, q.to)
  /\ InsertTripEvent(q.trip, q.from, q.to)
  /\ OnlyHandler(r)

\* The transition alone: the handler owes the audit row.
MoveOnly(r) ==
  LET q == rideReqs[r] IN
  /\ ~Pending(q) /\ Pending(rideReqs'[r])
  /\ StatusMoves(q.trip, q.from, q.to)
  /\ UNCHANGED tripEvents
  /\ OnlyHandler(r)

\* The audit row that was owed.
RecordOnly(r) ==
  LET q == rideReqs[r] IN
  /\ Pending(q) /\ ~Pending(rideReqs'[r])
  /\ q.trip \in TripIds /\ q.from \in TripStatus /\ q.to \in TripStatus
  /\ UNCHANGED trips
  /\ InsertTripEvent(q.trip, q.from, q.to)
  /\ OnlyHandler(r)

AuditMove == \/ Quiet
             \/ \E r \in RideReqs :
                  MoveAndRecord(r) \/ MoveOnly(r) \/ RecordOnly(r)

-------------------------------------------------------------------------------
\* Ranks are numbers, rise with every transition, and are 0 only for "none".
LEMMA RankRises ==
  /\ \A s : Rank(s) \in Nat
  /\ \A s \in TripStatus : Rank(s) > 0
  /\ Rank("none") = 0
  /\ \A a, b : CanTransition(a, b) => Rank(a) < Rank(b)
<1>1. \A s : Rank(s) \in Nat
  BY DEF Rank
<1>2. \A s \in TripStatus : Rank(s) > 0
  BY DEF Rank, TripStatus
<1>3. Rank("none") = 0
  BY DEF Rank
<1>4. ASSUME NEW a, NEW b, CanTransition(a, b)
      PROVE  Rank(a) < Rank(b)
  BY <1>4 DEF Rank, CanTransition, ValidTripTransitions
<1> QED
  BY <1>1, <1>2, <1>3, <1>4

\* A row appended to a trip's events keeps the others where they are.
LEMMA EventAppended ==
  ASSUME RideTypeOK, NEW t \in TripIds, NEW from \in TripStatus,
         NEW to \in TripStatus, InsertTripEvent(t, from, to)
  PROVE  /\ \A u \in TripIds : u # t => tripEvents'[u] = tripEvents[u]
         /\ \A i \in DOMAIN tripEvents[t] :
              /\ i \in DOMAIN tripEvents'[t]
              /\ tripEvents'[t][i] = tripEvents[t][i]
         /\ \E n \in DOMAIN tripEvents'[t] :
              /\ tripEvents'[t][n] = [from |-> from, to |-> to]
              /\ \A i \in DOMAIN tripEvents'[t] :
                   i # n => /\ i \in DOMAIN tripEvents[t]
                            /\ tripEvents'[t][i] = tripEvents[t][i]
<1> DEFINE s == tripEvents[t]
           e == [from |-> from, to |-> to]
<1>1. s \in Seq(TripEvent) /\ e \in TripEvent
  BY DEF RideTypeOK, TripEvent
<1>2. tripEvents'[t] = Append(s, e)
        /\ \A u \in TripIds : u # t => tripEvents'[u] = tripEvents[u]
  BY DEF RideTypeOK, InsertTripEvent
<1> HIDE DEF s, e
<1>3. /\ DOMAIN s = 1 .. Len(s) /\ Len(s) \in Nat
      /\ DOMAIN Append(s, e) = 1 .. Len(s) + 1
      /\ \A i \in 1 .. Len(s) : Append(s, e)[i] = s[i]
      /\ Append(s, e)[Len(s) + 1] = e
  BY <1>1
<1>4. /\ Len(s) + 1 \in DOMAIN Append(s, e)
      /\ \A i \in DOMAIN Append(s, e) : i # Len(s) + 1 => i \in DOMAIN s
      /\ \A i \in DOMAIN s : i \in DOMAIN Append(s, e)
  BY <1>3
<1>5. \E n \in DOMAIN Append(s, e) :
         /\ Append(s, e)[n] = e
         /\ \A i \in DOMAIN Append(s, e) :
              i # n => i \in DOMAIN s /\ Append(s, e)[i] = s[i]
  BY <1>3, <1>4
<1> QED
  BY <1>2, <1>3, <1>4, <1>5 DEF s, e

-------------------------------------------------------------------------------
\* Each of the four moves preserves each part of the invariant.

\* Events once recorded stay recorded.
LEMMA RecordedStays ==
  ASSUME RideTypeOK, AuditMove, NEW t \in TripIds, NEW from, NEW to,
         Recorded(t, from, to)
  PROVE  RecordedNext(t, from, to)
<1>1. CASE UNCHANGED tripEvents
  BY <1>1 DEF Recorded, RecordedNext
<1>2. ASSUME NEW u \in TripIds, NEW a \in TripStatus, NEW b \in TripStatus,
             InsertTripEvent(u, a, b)
      PROVE  RecordedNext(t, from, to)
  <2>1. PICK i \in DOMAIN tripEvents[t] :
          tripEvents[t][i] = [from |-> from, to |-> to]
    BY DEF Recorded
  <2>2. i \in DOMAIN tripEvents'[t] /\ tripEvents'[t][i] = tripEvents[t][i]
    BY <1>2, <2>1, EventAppended
  <2> QED
    BY <2>1, <2>2 DEF RecordedNext
<1> QED
  BY <1>1, <1>2 DEF AuditMove, Quiet, MoveAndRecord, MoveOnly, RecordOnly,
                    StatusMoves

\* No status ever goes back.
LEMMA RanksRise ==
  ASSUME AuditMove, NEW t \in TripIds
  PROVE  Rank(trips[t].status) <= Rank(trips'[t].status)
<1> DEFINE old == trips[t].status
           new == trips'[t].status
<1>1. \/ old = new
      \/ old = "none"
      \/ CanTransition(old, new)
  BY DEF AuditMove, Quiet, MoveAndRecord, MoveOnly, RecordOnly, StatusMoves
<1> HIDE DEF old, new
<1>2. Rank(old) <= Rank(new)
  BY <1>1, RankRises
<1> QED
  BY <1>2 DEF old, new

\* A status that is just being reached is in no audit row, and owed by nobody.
LEMMA ReachedIsNew ==
  ASSUME RideInv, AuditInv, NEW t, NEW from, NEW to, StatusMoves(t, from, to)
  PROVE  /\ \A i \in DOMAIN tripEvents[t] : tripEvents[t][i].to # to
         /\ \A r \in RideReqs : Pending(rideReqs[r]) /\ rideReqs[r].trip = t
                                  => rideReqs[r].to # to
<1>1. Rank(from) < Rank(to) /\ trips[t].status = from /\ t \in TripIds
  BY RankRises DEF StatusMoves
<1>2. \A s : Rank(s) \in Nat
  BY RankRises
<1>3. ASSUME NEW i \in DOMAIN tripEvents[t], tripEvents[t][i].to = to
      PROVE  FALSE
  <2>1. Rank(to) <= Rank(from)
    BY <1>1, <1>3 DEF AuditInv, EventsBehind
  <2> QED
    BY <1>1, <1>2, <2>1
<1>4. ASSUME NEW r \in RideReqs, Pending(rideReqs[r]), rideReqs[r].trip = t,
             rideReqs[r].to = to
      PROVE  FALSE
  <2>1. Rank(to) <= Rank(from)
    BY <1>1, <1>4 DEF AuditInv, PendingBehind
  <2> QED
    BY <1>1, <1>2, <2>1
<1> QED
  BY <1>3, <1>4

\* A new audit row is about the current status or an earlier one.
LEMMA EventsBehindStep ==
  ASSUME RideInv, RideInv', AuditInv, AuditMove
  PROVE  EventsBehind'
<1>1. \A s : Rank(s) \in Nat
  BY RankRises
<1>2. RideTypeOK
  BY DEF RideInv
<1>3. ASSUME NEW t \in TripIds, NEW i \in DOMAIN tripEvents[t]
      PROVE  Rank(tripEvents[t][i].to) <= Rank(trips'[t].status)
  <2>1. Rank(tripEvents[t][i].to) <= Rank(trips[t].status)
    BY <1>3 DEF AuditInv, EventsBehind
  <2> QED
    BY <1>1, <2>1, RanksRise
<1>4. CASE UNCHANGED tripEvents
  BY <1>3, <1>4 DEF EventsBehind
<1>5. ASSUME NEW u \in TripIds, NEW a \in TripStatus, NEW b \in TripStatus,
             InsertTripEvent(u, a, b), Rank(b) <= Rank(trips'[u].status)
      PROVE  EventsBehind'
  <2> SUFFICES ASSUME NEW t \in TripIds, NEW i \in DOMAIN tripEvents'[t]
               PROVE  Rank(tripEvents'[t][i].to) <= Rank(trips'[t].status)
    BY DEF EventsBehind
  <2>1. CASE t # u
    <3>1. tripEvents'[t] = tripEvents[t]
      BY <1>2, <1>5, <2>1, EventAppended
    <3> QED
      BY <1>3, <3>1
  <2>2. CASE t = u
    <3>1. PICK n \in DOMAIN tripEvents'[t] :
            /\ tripEvents'[t][n] = [from |-> a, to |-> b]
            /\ \A j \in DOMAIN tripEvents'[t] :
                 j # n => /\ j \in DOMAIN tripEvents[t]
                          /\ tripEvents'[t][j] = tripEvents[t][j]
      BY <1>2, <1>5, <2>2, EventAppended
    <3>2. CASE i = n
      BY <1>5, <2>2, <3>1, <3>2
    <3>3. CASE i # n
      BY <1>3, <3>1, <3>3
    <3> QED
      BY <3>2, <3>3
  <2> QED
    BY <2>1, <2>2
<1>6. ASSUME NEW r \in RideReqs, MoveAndRecord(r)
      PROVE  EventsBehind'
  <2> DEFINE q == rideReqs[r]
  <2>1. /\ q.trip \in TripIds /\ q.from \in TripStatus /\ q.to \in TripStatus
        /\ InsertTripEvent(q.trip, q.from, q.to)
        /\ trips'[q.trip].status = q.to
    BY <1>6 DEF MoveAndRecord, StatusMoves
  <2> HIDE DEF q
  <2>2. Rank(q.to) <= Rank(trips'[q.trip].status)
    BY <1>1, <2>1
  <2> QED
    BY <1>5, <2>1, <2>2
<1>7. ASSUME NEW r \in RideReqs, RecordOnly(r)
      PROVE  EventsBehind'
  <2> DEFINE q == rideReqs[r]
  <2>1. /\ q.trip \in TripIds /\ q.from \in TripStatus /\ q.to \in TripStatus
        /\ InsertTripEvent(q.trip, q.from, q.to)
        /\ UNCHANGED trips
    BY <1>7 DEF RecordOnly
  <2>2. Rank(q.to) <= Rank(trips[q.trip].status)
    BY <1>7 DEF RecordOnly, AuditInv, PendingBehind
  <2> HIDE DEF q
  <2> QED
    BY <1>5, <2>1, <2>2
<1> QED
  BY <1>4, <1>6, <1>7 DEF AuditMove, Quiet, MoveOnly

\* The handlers a move does not run are as they were; a quiet step gives
\* nobody a row to write.
LEMMA PendingBefore ==
  ASSUME AuditMove, NEW r \in RideReqs, Pending(rideReqs'[r])
  PROVE  \/ Pending(rideReqs[r]) /\ SameMove(rideReqs[r], rideReqs'[r])
         \/ MoveOnly(r)
<1>1. CASE Quiet
  BY <1>1 DEF Quiet, Unmoved
<1>2. ASSUME NEW o \in RideReqs, MoveAndRecord(o) \/ MoveOnly(o) \/ RecordOnly(o)
      PROVE  \/ Pending(rideReqs[r]) /\ SameMove(rideReqs[r], rideReqs'[r])
             \/ MoveOnly(r)
  <2>1. CASE o = r
    BY <1>2, <2>1 DEF MoveAndRecord, RecordOnly
  <2>2. CASE o # r
    <3>1. rideReqs'[r] = rideReqs[r]
      BY <1>2, <2>2 DEF MoveAndRecord, MoveOnly, RecordOnly, OnlyHandler
    <3> QED
      BY <3>1 DEF SameMove
  <2> QED
    BY <2>1, <2>2
<1> QED
  BY <1>1, <1>2 DEF AuditMove

\* No two handlers owe the same row.
LEMMA PendingDistinctStep ==
  ASSUME RideInv, AuditInv, AuditMove
  PROVE  PendingDistinct'
<1> SUFFICES ASSUME NEW r \in RideReqs, NEW o \in RideReqs,
                    Pending(rideReqs'[r]), Pending(rideReqs'[o]),
                    rideReqs'[r].trip = rideReqs'[o].trip,
                    rideReqs'[r].to = rideReqs'[o].to, r # o
             PROVE  FALSE
  BY DEF PendingDistinct, Pending
<1>1. ASSUME NEW a \in RideReqs, NEW b \in RideReqs, a # b, MoveOnly(a),
             Pending(rideReqs'[b]), rideReqs'[a].trip = rideReqs'[b].trip
      PROVE  rideReqs'[a].to # rideReqs'[b].to
  <2>1. rideReqs'[b] = rideReqs[b]
    BY <1>1 DEF MoveOnly, OnlyHandler
  <2>2. SameMove(rideReqs[a], rideReqs'[a])
    BY <1>1 DEF MoveOnly, OnlyHandler
  <2>3. \A c \in RideReqs :
          Pending(rideReqs[c]) /\ rideReqs[c].trip = rideReqs[a].trip
            => rideReqs[c].to # rideReqs[a].to
    <3> DEFINE q == rideReqs[a]
    <3>1. StatusMoves(q.trip, q.from, q.to)
      BY <1>1 DEF MoveOnly
    <3> HIDE DEF q
    <3>2. \A c \in RideReqs :
            Pending(rideReqs[c]) /\ rideReqs[c].trip = q.trip
              => rideReqs[c].to # q.to
      BY <3>1, ReachedIsNew
    <3> QED
      BY <3>2 DEF q
  <2> QED
    BY <1>1, <2>1, <2>2, <2>3 DEF SameMove
<1>2. CASE MoveOnly(r)
  BY <1>1, <1>2
<1>3. CASE MoveOnly(o)
  BY <1>1, <1>3
<1>4. CASE ~MoveOnly(r) /\ ~MoveOnly(o)
  <2>1. /\ Pending(rideReqs[r]) /\ SameMove(rideReqs[r], rideReqs'[r])
        /\ Pending(rideReqs[o]) /\ SameMove(rideReqs[o], rideReqs'[o])
    BY <1>4, PendingBefore
  <2> QED
    BY <2>1 DEF SameMove, AuditInv, PendingDistinct
<1> QED
  BY <1>2, <1>3, <1>4

\* A row that is owed is still missing after every step but its INSERT.
LEMMA PendingBehindStep ==
  ASSUME RideInv, RideInv', AuditInv, AuditMove
  PROVE  PendingBehind'
<1> SUFFICES ASSUME NEW r \in RideReqs, Pending(rideReqs'[r])
             PROVE  /\ Rank(rideReqs'[r].to)
                         <= Rank(trips'[rideReqs'[r].trip].status)
                    /\ \A i \in DOMAIN tripEvents'[rideReqs'[r].trip] :
                         tripEvents'[rideReqs'[r].trip][i].to # rideReqs'[r].to
  BY DEF PendingBehind, Pending
<1> DEFINE t == rideReqs[r].trip
           to == rideReqs[r].to
<1>0. RideTypeOK
  BY DEF RideInv
<1>1. CASE MoveOnly(r)
  <2>1. /\ StatusMoves(t, rideReqs[r].from, to)
        /\ rideReqs'[r].trip = t /\ rideReqs'[r].to = to
        /\ tripEvents' = tripEvents
    BY <1>1 DEF MoveOnly, OnlyHandler, SameMove
  <2> DEFINE from == rideReqs[r].from
  <2>2. StatusMoves(t, from, to)
    BY <2>1
  <2> HIDE DEF t, to, from
  <2>3. Rank(to) <= Rank(trips'[t].status)
    BY <2>2, RankRises DEF StatusMoves
  <2>4. \A i \in DOMAIN tripEvents[t] : tripEvents[t][i].to # to
    BY <2>2, ReachedIsNew
  <2> QED
    BY <2>1, <2>3, <2>4
<1>2. CASE Pending(rideReqs[r]) /\ SameMove(rideReqs[r], rideReqs'[r])
  <2>1. rideReqs'[r].trip = t /\ rideReqs'[r].to = to /\ t \in TripIds
    BY <1>2 DEF SameMove, RideInv, RequestsOK, RequestOK, Pending
  <2>2. /\ Rank(to) <= Rank(trips[t].status)
        /\ \A i \in DOMAIN tripEvents[t] : tripEvents[t][i].to # to
    BY <1>2 DEF AuditInv, PendingBehind
  <2>3. Rank(to) <= Rank(trips'[t].status)
    <3>1. Rank(trips[t].status) <= Rank(trips'[t].status)
      BY <2>1, RanksRise
    <3> QED
      BY <2>2, <3>1, RankRises
  <2>4. \A o \in RideReqs : MoveAndRecord(o) /\ rideReqs[o].trip = t
                              => rideReqs[o].to # to
    <3> SUFFICES ASSUME NEW o \in RideReqs, MoveAndRecord(o),
                        rideReqs[o].trip = t, rideReqs[o].to = to
                 PROVE  FALSE
      OBVIOUS
    <3> DEFINE from == rideReqs[o].from
    <3>1. StatusMoves(t, from, to)
      BY DEF MoveAndRecord
    <3> QED
      BY <1>2, <3>1, ReachedIsNew
  <2>5. \A o \in RideReqs : RecordOnly(o) /\ rideReqs[o].trip = t
                              => rideReqs[o].to # to
    <3> SUFFICES ASSUME NEW o \in RideReqs, RecordOnly(o),
                        rideReqs[o].trip = t, rideReqs[o].to = to
                 PROVE  FALSE
      OBVIOUS
    <3>1. o = r
      BY <1>2 DEF RecordOnly, AuditInv, PendingDistinct
    <3> QED
      BY <3>1 DEF RecordOnly
  <2> HIDE DEF t, to
  <2>6. ASSUME NEW u \in TripIds, NEW a \in TripStatus, NEW b \in TripStatus,
               InsertTripEvent(u, a, b), u = t => b # to
        PROVE  \A i \in DOMAIN tripEvents'[t] : tripEvents'[t][i].to # to
    <3>1. CASE u # t
      <4>1. tripEvents'[t] = tripEvents[t]
        BY <1>0, <2>1, <2>6, <3>1, EventAppended
      <4> QED
        BY <2>2, <4>1
    <3>2. CASE u = t
      <4>1. PICK n \in DOMAIN tripEvents'[t] :
              /\ tripEvents'[t][n] = [from |-> a, to |-> b]
              /\ \A j \in DOMAIN tripEvents'[t] :
                   j # n => /\ j \in DOMAIN tripEvents[t]
                            /\ tripEvents'[t][j] = tripEvents[t][j]
        BY <1>0, <2>6, <3>2, EventAppended
      <4>2. tripEvents'[t][n].to # to
        BY <2>6, <3>2, <4>1
      <4> QED
        BY <2>2, <4>1, <4>2
    <3> QED
      BY <3>1, <3>2
  <2>7. \A i \in DOMAIN tripEvents'[t] : tripEvents'[t][i].to # to
    <3>1. CASE UNCHANGED tripEvents
      BY <2>2, <3>1
    <3>2. ASSUME NEW o \in RideReqs, MoveAndRecord(o) \/ RecordOnly(o)
          PROVE  \A i \in DOMAIN tripEvents'[t] : tripEvents'[t][i].to # to
      <4> DEFINE q == rideReqs[o]
      <4>1. /\ q.trip \in TripIds /\ q.from \in TripStatus
            /\ q.to \in TripStatus /\ InsertTripEvent(q.trip, q.from, q.to)
        BY <3>2 DEF MoveAndRecord, RecordOnly, StatusMoves
      <4>2. q.trip = t => q.to # to
        BY <2>4, <2>5, <3>2
      <4> HIDE DEF q
      <4> QED
        BY <2>6, <4>1, <4>2
    <3> QED
      BY <3>1, <3>2 DEF AuditMove, Quiet, MoveOnly
  <2> QED
    BY <2>1, <2>3, <2>7
<1> QED
  BY <1>1, <1>2, PendingBefore

\* The row that is written was not there.
LEMMA AuditedOnceStep ==
  ASSUME RideInv, AuditInv, AuditMove
  PROVE  TransitionAuditedOnce'
<1>0. RideTypeOK
  BY DEF RideInv
<1>1. CASE UNCHANGED tripEvents
  BY <1>1 DEF AuditInv, TransitionAuditedOnce
<1>2. ASSUME NEW u \in TripIds, NEW a \in TripStatus, NEW b \in TripStatus,
             InsertTripEvent(u, a, b),
             \A i \in DOMAIN tripEvents[u] : tripEvents[u][i].to # b
      PROVE  TransitionAuditedOnce'
  <2> SUFFICES ASSUME NEW t \in TripIds, NEW i \in DOMAIN tripEvents'[t],
                      NEW j \in DOMAIN tripEvents'[t],
                      tripEvents'[t][i].to = tripEvents'[t][j].to
               PROVE  i = j
    BY DEF TransitionAuditedOnce
  <2>1. CASE t # u
    <3>1. tripEvents'[t] = tripEvents[t]
      BY <1>0, <1>2, <2>1, EventAppended
    <3> QED
      BY <3>1 DEF AuditInv, TransitionAuditedOnce
  <2>2. CASE t = u
    <3>1. PICK n \in DOMAIN tripEvents'[t] :
            /\ tripEvents'[t][n] = [from |-> a, to |-> b]
            /\ \A k \in DOMAIN tripEvents'[t] :
                 k # n => /\ k \in DOMAIN tripEvents[t]
                          /\ tripEvents'[t][k] = tripEvents[t][k]
      BY <1>0, <1>2, <2>2, EventAppended
    <3>2. tripEvents'[t][n].to = b
      BY <3>1
    <3>3. CASE i # n /\ j # n
      BY <3>1, <3>3 DEF AuditInv, TransitionAuditedOnce
    <3>4. CASE i = n \/ j = n
      BY <1>2, <2>2, <3>1, <3>2, <3>4
    <3> QED
      BY <3>3, <3>4
  <2> QED
    BY <2>1, <2>2
<1>3. ASSUME NEW r \in RideReqs, MoveAndRecord(r) \/ RecordOnly(r)
      PROVE  TransitionAuditedOnce'
  <2> DEFINE t == rideReqs[r].trip
             from == rideReqs[r].from
             to == rideReqs[r].to
  <2>1. /\ t \in TripIds /\ from \in TripStatus /\ to \in TripStatus
        /\ InsertTripEvent(t, from, to)
    BY <1>3 DEF MoveAndRecord, RecordOnly, StatusMoves
  <2>2. \A i \in DOMAIN tripEvents[t] : tripEvents[t][i].to # to
    <3>1. CASE RecordOnly(r)
      BY <3>1 DEF RecordOnly, AuditInv, PendingBehind
    <3>2. CASE MoveAndRecord(r)
      <4>1. StatusMoves(t, from, to)
        BY <3>2 DEF MoveAndRecord
      <4> QED
        BY <4>1, ReachedIsNew
    <3> QED
      BY <1>3, <3>1, <3>2
  <2> HIDE DEF t, from, to
  <2> QED
    BY <1>2, <2>1, <2>2
<1> QED
  BY <1>1, <1>3 DEF AuditMove, Quiet, MoveOnly

\* A handler comes to its publish only by writing the row, and rows stay.
LEMMA PublishingRecordedStep ==
  ASSUME RideInv, AuditInv, AuditMove
  PROVE  PublishingRecorded'
<1> SUFFICES ASSUME NEW r \in RideReqs, Publishing(rideReqs'[r])
             PROVE  /\ rideReqs'[r].trip \in TripIds
                    /\ RecordedNext(rideReqs'[r].trip, rideReqs'[r].from,
                                rideReqs'[r].to)
  BY DEF PublishingRecorded, Publishing, Recorded, RecordedNext
<1>0. RideTypeOK
  BY DEF RideInv
<1> DEFINE t == rideReqs[r].trip
           from == rideReqs[r].from
           to == rideReqs[r].to
<1>1. CASE Publishing(rideReqs[r]) /\ SameMove(rideReqs[r], rideReqs'[r])
  <2>1. t \in TripIds /\ Recorded(t, from, to)
    BY <1>1 DEF AuditInv, PublishingRecorded
  <2>2. rideReqs'[r].trip = t /\ rideReqs'[r].from = from
          /\ rideReqs'[r].to = to
    BY <1>1 DEF SameMove
  <2> HIDE DEF t, from, to
  <2>3. RecordedNext(t, from, to)
    BY <1>0, <2>1, RecordedStays
  <2> QED
    BY <2>1, <2>2, <2>3
<1>2. CASE MoveAndRecord(r) \/ RecordOnly(r)
  <2>1. /\ t \in TripIds /\ from \in TripStatus /\ to \in TripStatus
        /\ InsertTripEvent(t, from, to)
    BY <1>2 DEF MoveAndRecord, RecordOnly, StatusMoves
  <2>2. rideReqs'[r].trip = t /\ rideReqs'[r].from = from
          /\ rideReqs'[r].to = to
    BY <1>2 DEF MoveAndRecord, RecordOnly, OnlyHandler, SameMove
  <2> HIDE DEF t, from, to
  <2>3. \E n \in DOMAIN tripEvents'[t] :
          tripEvents'[t][n] = [from |-> from, to |-> to]
    BY <1>0, <2>1, EventAppended
  <2> QED
    BY <2>1, <2>2, <2>3 DEF RecordedNext
<1>3. CASE Quiet
  BY <1>1, <1>3 DEF Quiet, Unmoved
<1>4. ASSUME NEW o \in RideReqs,
             MoveAndRecord(o) \/ MoveOnly(o) \/ RecordOnly(o)
      PROVE  /\ rideReqs'[r].trip \in TripIds
             /\ RecordedNext(rideReqs'[r].trip, rideReqs'[r].from,
                         rideReqs'[r].to)
  <2>1. CASE o = r
    <3>1. ~MoveOnly(r)
      BY DEF MoveOnly, Pending, Publishing
    <3> QED
      BY <1>2, <1>4, <2>1, <3>1
  <2>2. CASE o # r
    <3>1. rideReqs'[r] = rideReqs[r]
      BY <1>4, <2>2 DEF MoveAndRecord, MoveOnly, RecordOnly, OnlyHandler
    <3> QED
      BY <1>1, <3>1 DEF SameMove
  <2> QED
    BY <2>1, <2>2
<1> QED
  BY <1>3, <1>4 DEF AuditMove

\* An accept never changes its mind.
LEMMA AcceptsKnowStep ==
  ASSUME AuditInv, AuditMove
  PROVE  AcceptsKnow'
<1> SUFFICES ASSUME NEW r \in RideReqs
             PROVE  AcceptKnows(rideReqs'[r])
  BY DEF AcceptsKnow, AcceptKnows
<1>1. CASE Quiet
  BY <1>1 DEF Quiet, Unmoved
<1>2. ASSUME NEW o \in RideReqs, OnlyHandler(o)
      PROVE  AcceptKnows(rideReqs'[r])
  BY <1>2 DEF OnlyHandler, AuditInv, AcceptsKnow
<1> QED
  BY <1>1, <1>2 DEF AuditMove, MoveAndRecord, MoveOnly, RecordOnly

\* Together: such a move preserves the invariant.
LEMMA AuditInvStep ==
  ASSUME RideInv, RideInv', AuditInv, AuditMove, TripsMove
  PROVE  AuditInv'
<1>1. Unpaid'
  BY LifecycleStep DEF AuditInv
<1> QED
  BY <1>1, AcceptsKnowStep, EventsBehindStep, PendingBehindStep,
     PendingDistinctStep, AuditedOnceStep, PublishingRecordedStep DEF AuditInv

-------------------------------------------------------------------------------
\* Every step of the ride service is one of the four moves.

\* A step that leaves both tables alone and gives handler r nothing to record
\* or to announce is quiet.
LEMMA QuietStep ==
  ASSUME AuditInv, NEW r \in RideReqs, Unmoved(r),
         \A o \in RideReqs : o # r => rideReqs'[o] = rideReqs[o],
         UNCHANGED <<trips, tripEvents>>
  PROVE  AuditMove
<1>1. ASSUME NEW o \in RideReqs
      PROVE  Unmoved(o)
  <2>1. CASE o = r
    BY <2>1
  <2>2. CASE o # r
    BY <2>2 DEF Unmoved, SameMove, AuditInv, AcceptsKnow
  <2> QED
    BY <2>1, <2>2
<1> QED
  BY <1>1 DEF AuditMove, Quiet

\* A handler that begins starts in an idle slot and has done nothing yet.
LEMMA BeginUnmoved ==
  ASSUME RideTypeOK, NEW r \in RideReqs,
         NEW pc \in RidePc \ {"advance.event", "patch.event",
                              "advance.price", "publish"},
         NEW t \in TripIds \cup {Null}, NEW d \in Drivers \cup {Null},
         NEW from \in TripStatus \cup {Null}, NEW to \in TripStatus \cup {Null},
         Begin(r, pc, t, d, from, to),
         pc = "accept.update" => from = "searching" /\ to = "driver_assigned"
  PROVE  Unmoved(r) /\ \A o \in RideReqs : o # r => rideReqs'[o] = rideReqs[o]
<1>1. /\ rideReqs'[r] = [pc |-> pc, trip |-> t, driver |-> d,
                         from |-> from, to |-> to, price |-> Null]
      /\ \A o \in RideReqs : o # r => rideReqs'[o] = rideReqs[o]
  BY BeginKeepsTypes
<1>2. rideReqs[r].pc = "idle"
  BY DEF Begin
<1>3. ~Pending(rideReqs'[r]) /\ ~Publishing(rideReqs'[r])
  BY <1>1 DEF Pending, Publishing
<1>4. AcceptKnows(rideReqs'[r])
  BY <1>1 DEF AcceptKnows
<1>5. ~Pending(rideReqs[r])
  BY <1>2 DEF Pending
<1> QED
  BY <1>1, <1>3, <1>4, <1>5 DEF Unmoved

\* A handler that ends owed nothing, or dies.
LEMMA EndUnmoved ==
  ASSUME RideTypeOK, NEW r \in RideReqs, End(r),
         ~Pending(rideReqs[r]) \/ Crashes
  PROVE  Unmoved(r) /\ \A o \in RideReqs : o # r => rideReqs'[o] = rideReqs[o]
<1>1. /\ rideReqs'[r] = IdleRide
      /\ \A o \in RideReqs : o # r => rideReqs'[o] = rideReqs[o]
  BY EndKeepsTypes
<1>2. /\ ~Pending(rideReqs'[r]) /\ ~Publishing(rideReqs'[r])
      /\ AcceptKnows(rideReqs'[r])
  BY <1>1 DEF IdleRide, Pending, Publishing, AcceptKnows
<1> QED
  BY <1>1, <1>2 DEF Unmoved

\* A refused statement has written nothing.
LEMMA RefuseAudit ==
  ASSUME RideInv, AuditInv, NEW r \in RideReqs, Refuse(r),
         ~Pending(rideReqs[r]) \/ Crashes
  PROVE  AuditMove
BY EndUnmoved, QuietStep DEF RideInv, Refuse

\* The inserted row has no audit row.
LEMMA CreateRideAudit ==
  ASSUME RideInv, AuditInv, NEW r \in RideReqs, NEW p \in Passengers,
         NEW dto \in RideDto, NEW total \in Fares, CreateRide(r, p, dto, total)
  PROVE  AuditMove
<1>1. PICK t \in TripIds :
        /\ InsertTrip(t, p, IF dto.rideType = "fixed" THEN total ELSE Null,
                      dto.offered)
        /\ Begin(r, "create.update", t, Null, "requested", "searching")
  BY DEF CreateRide
<1>2. RideTypeOK
  BY DEF RideInv
<1>3. Unmoved(r) /\ \A o \in RideReqs : o # r => rideReqs'[o] = rideReqs[o]
  BY <1>1, <1>2, BeginUnmoved DEF RidePc, TripStatus
<1>4. \A o \in RideReqs : Unmoved(o)
  BY <1>3 DEF Unmoved, SameMove, AuditInv, AcceptsKnow
<1>5. /\ trips[t].status = "none" /\ trips'[t].status = "requested"
      /\ \A u \in TripIds : u # t => trips'[u] = trips[u]
      /\ UNCHANGED tripEvents
  BY <1>1, <1>2 DEF InsertTrip, Exists, RideTypeOK, TripRow, NoTrip
<1> QED
  BY <1>4, <1>5 DEF AuditMove, Quiet

\* The handlers up to their first write read, and write nothing.
LEMMA ReadAudit ==
  ASSUME RideInv, AuditInv, NEW r \in RideReqs,
         \/ \E t \in TripIds : CancelTrip(r, t)
         \/ \E d \in Drivers, t \in TripIds :
              \/ AcceptOffer(r, d, t)
              \/ AdvanceTrip(r, d, t)
              \/ \E target \in TripStatus : PatchTripStatus(r, d, t, target)
         \/ \E d \in Drivers, isOnline \in BOOLEAN :
              SetOnlineStatus(r, d, isOnline)
  PROVE  AuditMove
<1>0. RideTypeOK
  BY DEF RideInv
<1>1. ASSUME NEW pc \in RidePc \ {"advance.event", "patch.event",
                                  "advance.price", "publish"},
             NEW t \in TripIds \cup {Null}, NEW d \in Drivers \cup {Null},
             NEW from \in TripStatus \cup {Null},
             NEW to \in TripStatus \cup {Null},
             Begin(r, pc, t, d, from, to),
             pc = "accept.update"
               => from = "searching" /\ to = "driver_assigned",
             UNCHANGED <<trips, tripEvents>>
      PROVE  AuditMove
  BY <1>0, <1>1, BeginUnmoved, QuietStep
<1>2. \A t \in TripIds : \A to :
        CanTransition(trips[t].status, to) => trips[t].status \in TripStatus
  BY DEF CanTransition, ValidTripTransitions, TripStatus
<1>3. ASSUME NEW t \in TripIds, CancelTrip(r, t)
      PROVE  AuditMove
  <2> DEFINE from == trips[t].status
  <2>1. from \in TripStatus
    BY <1>2, <1>3 DEF CancelTrip
  <2>2. Begin(r, "cancel.update", t, Null, from, "cancelled")
          /\ UNCHANGED <<trips, tripEvents>>
    BY <1>3 DEF CancelTrip
  <2> HIDE DEF from
  <2> QED
    BY <1>1, <2>1, <2>2 DEF RidePc, TripStatus
<1>4. ASSUME NEW d \in Drivers, NEW t \in TripIds, AcceptOffer(r, d, t)
      PROVE  AuditMove
  BY <1>1, <1>4 DEF AcceptOffer, RidePc, TripStatus
<1>5. ASSUME NEW d \in Drivers, NEW t \in TripIds, AdvanceTrip(r, d, t)
      PROVE  AuditMove
  <2> DEFINE from == trips[t].status
  <2>1. PICK to \in TripStatus :
          CanTransition(from, to) /\ Begin(r, "advance.update", t, d, from, to)
    BY <1>5 DEF AdvanceTrip
  <2>2. from \in TripStatus /\ UNCHANGED <<trips, tripEvents>>
    BY <1>2, <1>5, <2>1 DEF AdvanceTrip
  <2> HIDE DEF from
  <2> QED
    BY <1>1, <2>1, <2>2 DEF RidePc
<1>6. ASSUME NEW d \in Drivers, NEW t \in TripIds, NEW to \in TripStatus,
             PatchTripStatus(r, d, t, to)
      PROVE  AuditMove
  <2> DEFINE from == trips[t].status
  <2>1. /\ Begin(r, "patch.update", t, d, from, to)
        /\ from \in TripStatus /\ UNCHANGED <<trips, tripEvents>>
    BY <1>2, <1>6 DEF PatchTripStatus
  <2> HIDE DEF from
  <2> QED
    BY <1>1, <1>6, <2>1 DEF RidePc
<1>7. ASSUME NEW d \in Drivers, NEW isOnline \in BOOLEAN,
             SetOnlineStatus(r, d, isOnline)
      PROVE  AuditMove
  <2> DEFINE pc == IF isOnline THEN "online.update" ELSE "offline.update"
  <2>1. Begin(r, pc, Null, d, Null, Null) /\ UNCHANGED <<trips, tripEvents>>
    BY <1>7 DEF SetOnlineStatus
  <2>2. /\ pc \in RidePc \ {"advance.event", "patch.event",
                            "advance.price", "publish"}
        /\ pc # "accept.update"
    BY DEF RidePc
  <2> HIDE DEF pc
  <2> QED
    BY <1>1, <1>7, <2>1, <2>2
<1> QED
  BY <1>3, <1>4, <1>5, <1>6, <1>7

\* updateStatus, in createRide and in cancelTrip.
LEMMA UpdateStatusAudit ==
  ASSUME RideInv, AuditInv, NEW r \in RideReqs,
         StartSearch(r) \/ CommitCancel(r)
  PROVE  AuditMove
<1> DEFINE q == rideReqs[r]
<1>1. /\ RideTypeOK /\ ~Pending(q) /\ q \in RideRequest
      /\ q.trip \in TripIds /\ CanTransition(q.from, q.to)
      /\ q.from \in TripStatus /\ q.to \in TripStatus
  BY DEF RideInv, RideTypeOK, RequestsOK, RequestOK, StartSearch, CommitCancel,
         At, Pending, Cancellable, CanTransition, ValidTripTransitions,
         TripStatus
<1>2. CASE Refuse(r)
  BY <1>1, <1>2, RefuseAudit
<1>3. ASSUME NEW pc \in {"create.publish", "publish"},
             UpdateStatus(q.trip, q.from, q.to), Goto(r, pc)
      PROVE  AuditMove
  <2>1. rideReqs'[r] = [q EXCEPT !.pc = pc]
          /\ \A o \in RideReqs : o # r => rideReqs'[o] = rideReqs[o]
    BY <1>1, <1>3, GotoKeepsTypes DEF RidePc
  <2>2. rideReqs'[r].pc = pc /\ SameMove(q, rideReqs'[r])
    BY <1>1, <2>1 DEF RideRequest, SameMove
  <2>3. ~Pending(rideReqs'[r]) /\ AcceptKnows(rideReqs'[r])
    BY <1>3, <2>2 DEF Pending, AcceptKnows
  <2>4. StatusMoves(q.trip, q.from, q.to)
    BY <1>1, <1>3, StatusWrite DEF UpdateStatus, HasStatus, StatusMoves
  <2> QED
    BY <1>1, <1>3, <2>1, <2>2, <2>3, <2>4
       DEF AuditMove, MoveAndRecord, OnlyHandler, UpdateStatus
<1> QED
  BY <1>2, <1>3 DEF StartSearch, CommitCancel

\* acceptTrip's transaction.
LEMMA AcceptAudit ==
  ASSUME RideInv, AuditInv, NEW r \in RideReqs, CommitAccept(r)
  PROVE  AuditMove
<1> DEFINE q == rideReqs[r]
<1>1. /\ RideTypeOK /\ ~Pending(q) /\ q \in RideRequest
      /\ q.trip \in TripIds /\ q.driver \in Drivers
      /\ q.from = "searching" /\ q.to = "driver_assigned"
  BY DEF RideInv, RideTypeOK, RequestsOK, RequestOK, CommitAccept, At, Pending,
         AuditInv, AcceptsKnow, AcceptKnows
<1>2. CASE Refuse(r)
  BY <1>1, <1>2, RefuseAudit
<1>3. CASE AcceptTrip(q.trip, q.driver) /\ Goto(r, "publish")
  <2>1. rideReqs'[r] = [q EXCEPT !.pc = "publish"]
          /\ \A o \in RideReqs : o # r => rideReqs'[o] = rideReqs[o]
    BY <1>1, <1>3, GotoKeepsTypes DEF RidePc
  <2>2. rideReqs'[r].pc = "publish" /\ SameMove(q, rideReqs'[r])
    BY <1>1, <2>1 DEF RideRequest, SameMove
  <2>3. ~Pending(rideReqs'[r]) /\ AcceptKnows(rideReqs'[r])
    BY <2>2 DEF Pending, AcceptKnows
  <2>4. /\ trips[q.trip].status = "searching"
        /\ trips'[q.trip].status = "driver_assigned"
        /\ \A u \in TripIds : u # q.trip => trips'[u] = trips[u]
    BY <1>1, <1>3, DriverWrite DEF AcceptTrip, CanAccept
  <2>5. StatusMoves(q.trip, q.from, q.to)
    BY <1>1, <2>4 DEF StatusMoves, CanTransition, ValidTripTransitions,
                      TripStatus
  <2>6. InsertTripEvent(q.trip, q.from, q.to)
    BY <1>1, <1>3 DEF AcceptTrip
  <2> QED
    BY <1>1, <2>1, <2>2, <2>3, <2>5, <2>6
       DEF AuditMove, MoveAndRecord, OnlyHandler
<1> QED
  BY <1>2, <1>3 DEF CommitAccept

\* The UPDATE of advanceTripStatus and of updateTripStatus: an audit row is
\* owed from here on.
LEMMA CommitMoveAudit ==
  ASSUME RideInv, AuditInv, NEW r \in RideReqs,
         CommitAdvance(r) \/ CommitPatch(r)
  PROVE  AuditMove
<1> DEFINE q == rideReqs[r]
<1>1. /\ RideTypeOK /\ ~Pending(q) /\ q \in RideRequest
      /\ q.trip \in TripIds /\ CanTransition(q.from, q.to)
      /\ q.from \in TripStatus /\ q.to \in TripStatus
  BY DEF RideInv, RideTypeOK, RequestsOK, RequestOK, CommitAdvance,
         CommitPatch, CommitMove, At, Pending, Driving, TripStatus
<1>2. CASE Refuse(r)
  BY <1>1, <1>2, RefuseAudit
<1>3. ASSUME NEW event \in {"advance.event", "patch.event"},
             UpdateTripStatus(q.trip, q.driver, q.from, q.to),
             rideReqs' = [rideReqs EXCEPT ![r] =
                           [@ EXCEPT !.pc = event,
                                     !.price = AgreedPrice(q.trip)]]
      PROVE  AuditMove
  <2> DEFINE new == [q EXCEPT !.pc = event, !.price = AgreedPrice(q.trip)]
  <2>1. new.pc = event /\ SameMove(q, new)
    BY <1>1 DEF RideRequest, SameMove
  <2>2. rideReqs' = [rideReqs EXCEPT ![r] = new]
    BY <1>3
  <2> HIDE DEF new
  <2>3. rideReqs'[r] = new
          /\ \A o \in RideReqs : o # r => rideReqs'[o] = rideReqs[o]
    BY <1>1, <2>2 DEF RideTypeOK
  <2>4. Pending(rideReqs'[r]) /\ AcceptKnows(rideReqs'[r])
    BY <1>3, <2>1, <2>3 DEF Pending, AcceptKnows
  <2>5. StatusMoves(q.trip, q.from, q.to)
    BY <1>1, <1>3, StatusWrite
       DEF UpdateTripStatus, OwnedWithStatus, StatusMoves
  <2> QED
    BY <1>1, <1>3, <2>1, <2>3, <2>4, <2>5
       DEF AuditMove, MoveOnly, OnlyHandler, UpdateTripStatus
<1> QED
  BY <1>2, <1>3 DEF CommitAdvance, CommitPatch, CommitMove

\* The INSERT that follows it.
LEMMA RecordAudit ==
  ASSUME RideInv, AuditInv, NEW r \in RideReqs,
         RecordAdvance(r) \/ RecordPatch(r)
  PROVE  AuditMove
<1> DEFINE q == rideReqs[r]
<1>1. /\ RideTypeOK /\ Pending(q) /\ q \in RideRequest
      /\ q.trip \in TripIds /\ q.from \in TripStatus /\ q.to \in TripStatus
  BY DEF RideInv, RideTypeOK, RequestsOK, RequestOK, RecordAdvance,
         RecordPatch, At, Pending
<1>2. PICK pc \in {"advance.price", "publish"} : Goto(r, pc)
  BY DEF RecordAdvance, RecordPatch
<1>3. rideReqs'[r] = [q EXCEPT !.pc = pc]
        /\ \A o \in RideReqs : o # r => rideReqs'[o] = rideReqs[o]
  <2>1. pc \in RidePc
    BY DEF RidePc
  <2> QED
    BY <1>1, <1>2, <2>1, GotoKeepsTypes
<1>4. rideReqs'[r].pc = pc /\ SameMove(q, rideReqs'[r])
  BY <1>1, <1>3 DEF RideRequest, SameMove
<1>5. ~Pending(rideReqs'[r]) /\ AcceptKnows(rideReqs'[r])
  BY <1>4 DEF Pending, AcceptKnows
<1> QED
  BY <1>1, <1>3, <1>4, <1>5
     DEF AuditMove, RecordOnly, OnlyHandler, RecordAdvance, RecordPatch

\* The completing advance's second UPDATE sets a status the trip has already.
LEMMA PriceAudit ==
  ASSUME RideInv, AuditInv, NEW r \in RideReqs, PriceTrip(r)
  PROVE  AuditMove
<1> DEFINE q == rideReqs[r]
<1>1. /\ RideTypeOK /\ q \in RideRequest /\ q.pc = "advance.price"
      /\ q.trip \in TripIds /\ trips[q.trip].status = "completed"
  BY DEF RideInv, RideTypeOK, RequestsOK, RequestOK, PriceTrip, At, Over,
         AuditInv, Unpaid
<1>2. q.price \in Price
  BY <1>1 DEF RideRequest
<1>3. \A t \in TripIds : trips'[t].status = trips[t].status
  BY <1>1, <1>2, PriceWrite DEF PriceTrip
<1>4. rideReqs'[r] = [q EXCEPT !.pc = "publish"]
        /\ \A o \in RideReqs : o # r => rideReqs'[o] = rideReqs[o]
  BY <1>1, GotoKeepsTypes DEF PriceTrip, RidePc
<1>5. rideReqs'[r].pc = "publish" /\ SameMove(q, rideReqs'[r])
  BY <1>1, <1>4 DEF RideRequest, SameMove
<1>6. Unmoved(r)
  BY <1>1, <1>5 DEF Unmoved, Pending, Publishing, AcceptKnows
<1>7. \A o \in RideReqs : Unmoved(o)
  BY <1>4, <1>6 DEF Unmoved, SameMove, AuditInv, AcceptsKnow
<1> QED
  BY <1>3, <1>7 DEF AuditMove, Quiet, PriceTrip, SetFinalPrice

\* The steps that end a handler, and those of nobody's handler.
LEMMA EndAudit ==
  ASSUME RideInv, AuditInv, NEW r \in RideReqs,
         OfferTrip(r) \/ PublishStatus(r) \/ CommitOnline(r) \/ CrashRide(r)
  PROVE  AuditMove
<1>1. RideTypeOK /\ End(r) /\ UNCHANGED <<trips, tripEvents>>
  BY DEF RideInv, OfferTrip, PublishStatus, CommitOnline, CrashRide, Refuse
<1>2. ~Pending(rideReqs[r]) \/ Crashes
  BY DEF OfferTrip, PublishStatus, CommitOnline, CrashRide, At, Pending
<1> QED
  BY <1>1, <1>2, EndUnmoved, QuietStep

LEMMA OtherAudit ==
  ASSUME AuditInv, UNCHANGED <<trips, tripEvents, rideReqs>>
  PROVE  AuditMove
<1>1. \A o \in RideReqs : Unmoved(o)
  BY DEF Unmoved, SameMove, AuditInv, AcceptsKnow
<1> QED
  BY <1>1 DEF AuditMove, Quiet

LEMMA RideNextAudit ==
  ASSUME RideInv, AuditInv, RideNext
  PROVE  AuditMove
<1>1. ASSUME NEW r \in RideReqs, RideArrival(r)
      PROVE  AuditMove
  BY <1>1, CreateRideAudit, ReadAudit DEF RideArrival
<1>2. ASSUME NEW r \in RideReqs, RideStep(r) \/ CrashRide(r)
      PROVE  AuditMove
  BY <1>2, UpdateStatusAudit, AcceptAudit, CommitMoveAudit, RecordAudit,
     PriceAudit, EndAudit DEF RideStep
<1>3. CASE \/ \E d \in Drivers, t \in TripIds : DeclineOffer(d, t)
           \/ \E d \in Moderated : ModerateDriver(d)
  BY <1>3, OtherAudit DEF DeclineOffer, ModerateDriver
<1> QED
  BY <1>1, <1>2, <1>3 DEF RideNext

\* No table row, no audit row and no handler yet.
LEMMA AuditInvInit ==
  ASSUME RideInit
  PROVE  AuditInv
<1>1. /\ \A t \in TripIds : tripEvents[t] = <<>> /\ trips[t] = NoTrip
      /\ \A r \in RideReqs : rideReqs[r] = IdleRide
  BY DEF RideInit, TripTableInit
<1>2. \A t \in TripIds : DOMAIN tripEvents[t] = {}
  BY <1>1
<1>3. \A r \in RideReqs : rideReqs[r].pc = "idle"
  BY <1>1 DEF IdleRide
<1>4. Unpaid
  BY <1>1 DEF Unpaid, NoTrip
<1>5. EventsBehind /\ TransitionAuditedOnce
  BY <1>2 DEF EventsBehind, TransitionAuditedOnce
<1>6. AcceptsKnow /\ PendingBehind /\ PendingDistinct /\ PublishingRecorded
  BY <1>3 DEF AcceptsKnow, AcceptKnows, PendingBehind, PendingDistinct,
              PublishingRecorded, Pending, Publishing
<1> QED
  BY <1>4, <1>5, <1>6 DEF AuditInv

\* The inductive invariant of the audit trail.
THEOREM AuditInvariant == RideSpec => []AuditInv
<1>1. RideInv /\ RideInv' /\ AuditInv /\ [RideNext]_rideVars => AuditInv'
  <2> SUFFICES ASSUME RideInv, RideInv', AuditInv, [RideNext]_rideVars
               PROVE  AuditInv'
    OBVIOUS
  <2>1. CASE RideNext
    BY <2>1, RideNextAudit, RideNextMoves, AuditInvStep
  <2>2. CASE UNCHANGED rideVars
    <3>1. TripsMove /\ UNCHANGED <<trips, tripEvents, rideReqs>>
      BY <2>2 DEF rideVars, TripsMove
    <3> QED
      BY <3>1, OtherAudit, AuditInvStep
  <2> QED
    BY <2>1, <2>2
<1> QED
  BY <1>1, AuditInvInit, RideInvariant, PTL DEF RideSpec

\* No transition is recorded twice: of the requests that race for a status one
\* commits and records it, however many there are and wherever they die.
THEOREM AuditedOnce == RideSpec => []TransitionAuditedOnce
<1>1. AuditInv => TransitionAuditedOnce
  BY DEF AuditInv
<1> QED
  BY <1>1, AuditInvariant, PTL

-------------------------------------------------------------------------------
\* What was published names a trip, and its transition is in the table.
PublishedRecorded ==
  \A e \in published :
    e.type = "trip.status_changed"
      => e.trip \in TripIds /\ Recorded(e.trip, e.from, e.to)

\* A handler announces only the transition it has come to publish.
LEMMA PublishedStep ==
  ASSUME [RideNext]_rideVars, NEW e \in published',
         e.type = "trip.status_changed"
  PROVE  \/ e \in published
         \/ \E r \in RideReqs :
              /\ Publishing(rideReqs[r])
              /\ e.trip = rideReqs[r].trip
              /\ e.from = rideReqs[r].from /\ e.to = rideReqs[r].to
<1>1. CASE UNCHANGED published
  BY <1>1
<1>2. ASSUME NEW event, Publish("ride", event), e # event
      PROVE  e \in published
  BY <1>2 DEF Publish
<1>3. ASSUME NEW r \in RideReqs, OfferTrip(r)
      PROVE  e \in published
  <2> DEFINE event == Event("trip.requested", rideReqs[r].trip, Null, Null)
  <2>1. Publish("ride", event) /\ event.type = "trip.requested"
    BY <1>3 DEF OfferTrip, Event
  <2> HIDE DEF event
  <2> QED
    BY <1>2, <2>1
<1>4. ASSUME NEW d \in Drivers, NEW t \in TripIds, DeclineOffer(d, t)
      PROVE  e \in published
  <2> DEFINE event == Event("trip.offer_declined", t, Null, Null)
  <2>1. Publish("ride", event) /\ event.type = "trip.offer_declined"
    BY <1>4 DEF DeclineOffer, Event
  <2> HIDE DEF event
  <2> QED
    BY <1>2, <2>1
<1>5. ASSUME NEW r \in RideReqs, PublishStatus(r), e \notin published
      PROVE  /\ Publishing(rideReqs[r])
             /\ e.trip = rideReqs[r].trip
             /\ e.from = rideReqs[r].from /\ e.to = rideReqs[r].to
  <2> DEFINE event == Event("trip.status_changed", rideReqs[r].trip,
                            rideReqs[r].from, rideReqs[r].to)
  <2>1. /\ Publish("ride", event) /\ Publishing(rideReqs[r])
        /\ event.trip = rideReqs[r].trip
        /\ event.from = rideReqs[r].from /\ event.to = rideReqs[r].to
    BY <1>5 DEF PublishStatus, Event, At, Publishing
  <2> HIDE DEF event
  <2> QED
    BY <1>2, <1>5, <2>1
<1>6. ASSUME NEW r \in RideReqs, RideArrival(r)
      PROVE  UNCHANGED published
  BY <1>6 DEF RideArrival, CreateRide, CancelTrip, AcceptOffer, AdvanceTrip,
              PatchTripStatus, SetOnlineStatus
<1>7. ASSUME NEW r \in RideReqs,
             \/ StartSearch(r) \/ CommitCancel(r) \/ CommitAccept(r)
             \/ CommitAdvance(r) \/ RecordAdvance(r) \/ PriceTrip(r)
             \/ CommitPatch(r) \/ RecordPatch(r) \/ CommitOnline(r)
             \/ CrashRide(r)
      PROVE  UNCHANGED published
  BY <1>7 DEF StartSearch, CommitCancel, CommitAccept, CommitAdvance,
              CommitMove, RecordAdvance, PriceTrip, CommitPatch, RecordPatch,
              CommitOnline, CrashRide, Refuse
<1>8. CASE RideNext
  BY <1>1, <1>3, <1>4, <1>5, <1>6, <1>7, <1>8
     DEF RideNext, RideStep, ModerateDriver
<1> QED
  BY <1>1, <1>8 DEF rideVars

\* A trip.status_changed event is published only after its transition has been
\* committed and audited, whatever has happened to the trip in between.
THEOREM PublishedAudited == RideSpec => []PublishedIsAudited
<1>1. RideInit => PublishedRecorded
  BY DEF RideInit, PublishedRecorded
<1>2. RideInv /\ AuditInv /\ PublishedRecorded /\ [RideNext]_rideVars
        => PublishedRecorded'
  <2> SUFFICES ASSUME RideInv, AuditInv, PublishedRecorded,
                      [RideNext]_rideVars, NEW e \in published',
                      e.type = "trip.status_changed"
               PROVE  e.trip \in TripIds /\ RecordedNext(e.trip, e.from, e.to)
    BY DEF PublishedRecorded, Recorded, RecordedNext
  <2>1. AuditMove
    BY RideNextAudit, OtherAudit DEF rideVars
  <2>2. e.trip \in TripIds /\ Recorded(e.trip, e.from, e.to)
    <3>1. CASE e \in published
      BY <3>1 DEF PublishedRecorded
    <3>2. CASE \E r \in RideReqs :
                  /\ Publishing(rideReqs[r])
                  /\ e.trip = rideReqs[r].trip
                  /\ e.from = rideReqs[r].from /\ e.to = rideReqs[r].to
      BY <3>2 DEF AuditInv, PublishingRecorded
    <3> QED
      BY <3>1, <3>2, PublishedStep
  <2> DEFINE t == e.trip
             from == e.from
             to == e.to
  <2>3. RideTypeOK /\ t \in TripIds /\ Recorded(t, from, to)
    BY <2>2 DEF RideInv
  <2> HIDE DEF t, from, to
  <2>4. RecordedNext(t, from, to)
    BY <2>1, <2>3, RecordedStays
  <2> QED
    BY <2>2, <2>4 DEF t, from, to
<1>3. PublishedRecorded => PublishedIsAudited
  BY DEF PublishedRecorded, PublishedIsAudited, Recorded
<1> QED
  BY <1>1, <1>2, <1>3, RideInvariant, AuditInvariant, PTL DEF RideSpec

-------------------------------------------------------------------------------
\* When no handler dies, the audit trail has no gap.

OwedRow(r, t) == Pending(rideReqs[r]) /\ rideReqs[r].trip = t

\* The audit rows of t lead to status s, with those that are still owed.
Leads(t, s) ==
  \/ s = "requested"
  \/ \E i \in DOMAIN tripEvents[t] : tripEvents[t][i].to = s
  \/ \E r \in RideReqs : OwedRow(r, t) /\ rideReqs[r].to = s

\* The same of the state after the step.
LeadsNext(t, s) ==
  \/ s = "requested"
  \/ \E i \in DOMAIN tripEvents'[t] : tripEvents'[t][i].to = s
  \/ \E r \in RideReqs : /\ Pending(rideReqs'[r]) /\ rideReqs'[r].trip = t
                         /\ rideReqs'[r].to = s

\* They lead to the trip's status, and to every status one of them starts from.
TrailInv ==
  \A t \in TripIds :
    /\ Exists(t) => Leads(t, trips[t].status)
    /\ \A i \in DOMAIN tripEvents[t] : Leads(t, tripEvents[t][i].from)
    /\ \A r \in RideReqs : OwedRow(r, t) => Leads(t, rideReqs[r].from)

\* The row a handler records was owed by it, or is written with the status.
LEMMA RecordLeads ==
  ASSUME RideTypeOK, NEW t \in TripIds, NEW from \in TripStatus,
         NEW to \in TripStatus, InsertTripEvent(t, from, to)
  PROVE  LeadsNext(t, to)
<1>1. PICK n \in DOMAIN tripEvents'[t] :
        tripEvents'[t][n] = [from |-> from, to |-> to]
  BY EventAppended
<1>2. tripEvents'[t][n].to = to
  BY <1>1
<1> QED
  BY <1>2 DEF LeadsNext

\* Unless a handler dies, no step takes away what leads to a status.
LEMMA LeadsStays ==
  ASSUME ~Crashes, RideTypeOK, AuditMove, NEW t \in TripIds, NEW s, Leads(t, s)
  PROVE  LeadsNext(t, s)
<1>1. CASE s = "requested"
  BY <1>1 DEF LeadsNext
<1>2. ASSUME NEW i \in DOMAIN tripEvents[t], tripEvents[t][i].to = s
      PROVE  LeadsNext(t, s)
  <2> DEFINE e == tripEvents[t][i]
  <2>1. i \in DOMAIN tripEvents'[t] /\ tripEvents'[t][i] = tripEvents[t][i]
    <3>1. CASE UNCHANGED tripEvents
      BY <3>1
    <3>2. ASSUME NEW u \in TripIds, NEW a \in TripStatus, NEW b \in TripStatus,
                 InsertTripEvent(u, a, b)
          PROVE  i \in DOMAIN tripEvents'[t]
                   /\ tripEvents'[t][i] = tripEvents[t][i]
      BY <3>2, EventAppended
    <3> QED
      BY <3>1, <3>2 DEF AuditMove, Quiet, MoveAndRecord, MoveOnly, RecordOnly,
                        StatusMoves
  <2> QED
    BY <1>2, <2>1 DEF LeadsNext
<1>3. ASSUME NEW r \in RideReqs, OwedRow(r, t), rideReqs[r].to = s
      PROVE  LeadsNext(t, s)
  <2>1. CASE Pending(rideReqs'[r]) /\ SameMove(rideReqs[r], rideReqs'[r])
    BY <1>3, <2>1 DEF OwedRow, SameMove, LeadsNext
  <2>2. CASE RecordOnly(r)
    <3> DEFINE from == rideReqs[r].from
    <3>1. InsertTripEvent(t, from, s) /\ from \in TripStatus /\ s \in TripStatus
      BY <1>3, <2>2 DEF OwedRow, RecordOnly
    <3> HIDE DEF from
    <3> QED
      BY <3>1, RecordLeads
  <2>3. CASE Quiet
    BY <1>3, <2>1, <2>3 DEF Quiet, Unmoved, OwedRow
  <2>4. ASSUME NEW o \in RideReqs,
               MoveAndRecord(o) \/ MoveOnly(o) \/ RecordOnly(o)
        PROVE  LeadsNext(t, s)
    <3>1. CASE o = r
      BY <1>3, <2>2, <2>4, <3>1 DEF MoveAndRecord, MoveOnly, OwedRow
    <3>2. CASE o # r
      <4>1. rideReqs'[r] = rideReqs[r]
        BY <2>4, <3>2 DEF MoveAndRecord, MoveOnly, RecordOnly, OnlyHandler
      <4> QED
        BY <1>3, <2>1, <4>1 DEF OwedRow, SameMove
    <3> QED
      BY <3>1, <3>2
  <2> QED
    BY <2>3, <2>4 DEF AuditMove
<1> QED
  BY <1>1, <1>2, <1>3 DEF Leads

\* What a transition starts from was the status of the trip, so something
\* led to it.
LEMMA SourceLeads ==
  ASSUME TrailInv, NEW t, NEW from, NEW to, StatusMoves(t, from, to)
  PROVE  Leads(t, from)
<1>1. from # "none"
  BY DEF StatusMoves, TripStatus
<1> QED
  BY <1>1 DEF StatusMoves, TrailInv, Exists

\* The trip's new status is led to.
LEMMA StatusLeadsStep ==
  ASSUME ~Crashes, RideInv, TrailInv, AuditMove, NEW t \in TripIds,
         trips'[t].status # "none"
  PROVE  LeadsNext(t, trips'[t].status)
<1>0. RideTypeOK
  BY DEF RideInv
<1>1. CASE trips'[t].status = trips[t].status
  <2> DEFINE s == trips[t].status
  <2>1. Leads(t, s)
    BY <1>1 DEF TrailInv, Exists
  <2> HIDE DEF s
  <2>2. LeadsNext(t, s)
    BY <1>0, <2>1, LeadsStays
  <2> QED
    BY <1>1, <2>2 DEF s
<1>2. CASE trips'[t].status = "requested"
  BY <1>2 DEF LeadsNext
<1>3. ASSUME NEW r \in RideReqs, MoveAndRecord(r) \/ MoveOnly(r),
             rideReqs[r].trip = t
      PROVE  LeadsNext(t, trips'[t].status)
  <2> DEFINE from == rideReqs[r].from
             to == rideReqs[r].to
  <2>1. /\ from \in TripStatus /\ to \in TripStatus
        /\ trips'[t].status = to
    BY <1>3 DEF MoveAndRecord, MoveOnly, StatusMoves
  <2>2. CASE MoveOnly(r)
    <3>1. Pending(rideReqs'[r]) /\ rideReqs'[r].trip = t
            /\ rideReqs'[r].to = trips'[t].status
      BY <1>3, <2>1, <2>2 DEF MoveOnly, OnlyHandler, SameMove
    <3> QED
      BY <3>1 DEF LeadsNext
  <2>3. CASE MoveAndRecord(r)
    <3>1. InsertTripEvent(t, from, to)
      BY <1>3, <2>3 DEF MoveAndRecord
    <3> HIDE DEF from, to
    <3>2. LeadsNext(t, to)
      BY <1>0, <2>1, <3>1, RecordLeads
    <3> QED
      BY <2>1, <3>2
  <2> QED
    BY <1>3, <2>2, <2>3
<1>4. \/ trips'[t].status = trips[t].status
      \/ trips'[t].status = "requested"
      \/ \E r \in RideReqs : /\ MoveAndRecord(r) \/ MoveOnly(r)
                             /\ rideReqs[r].trip = t
  BY DEF AuditMove, Quiet, MoveAndRecord, MoveOnly, RecordOnly, StatusMoves
<1> QED
  BY <1>1, <1>2, <1>3, <1>4

\* So is the source of every audit row, old or new.
LEMMA EventLeadsStep ==
  ASSUME ~Crashes, RideInv, TrailInv, AuditMove, NEW t \in TripIds,
         NEW i \in DOMAIN tripEvents'[t]
  PROVE  LeadsNext(t, tripEvents'[t][i].from)
<1>0. RideTypeOK
  BY DEF RideInv
<1>1. ASSUME i \in DOMAIN tripEvents[t], tripEvents'[t][i] = tripEvents[t][i]
      PROVE  LeadsNext(t, tripEvents'[t][i].from)
  <2> DEFINE s == tripEvents[t][i].from
  <2>1. Leads(t, s)
    BY <1>1 DEF TrailInv
  <2> HIDE DEF s
  <2>2. LeadsNext(t, s)
    BY <1>0, <2>1, LeadsStays
  <2> QED
    BY <1>1, <2>2 DEF s
<1>2. CASE UNCHANGED tripEvents
  BY <1>1, <1>2
<1>3. ASSUME NEW r \in RideReqs, MoveAndRecord(r) \/ RecordOnly(r)
      PROVE  LeadsNext(t, tripEvents'[t][i].from)
  <2> DEFINE u == rideReqs[r].trip
             from == rideReqs[r].from
             to == rideReqs[r].to
  <2>1. /\ u \in TripIds /\ from \in TripStatus /\ to \in TripStatus
        /\ InsertTripEvent(u, from, to)
    BY <1>3 DEF MoveAndRecord, RecordOnly, StatusMoves
  <2>2. Leads(u, from)
    <3>1. CASE RecordOnly(r)
      BY <2>1, <3>1 DEF RecordOnly, TrailInv, OwedRow
    <3>2. CASE MoveAndRecord(r)
      <4>1. StatusMoves(u, from, to)
        BY <3>2 DEF MoveAndRecord
      <4> QED
        BY <4>1, SourceLeads
    <3> QED
      BY <1>3, <3>1, <3>2
  <2> HIDE DEF u, from, to
  <2>3. LeadsNext(u, from)
    BY <1>0, <2>1, <2>2, LeadsStays
  <2>4. CASE t # u
    <3>1. tripEvents'[t] = tripEvents[t]
      BY <1>0, <2>1, <2>4, EventAppended
    <3> QED
      BY <1>1, <3>1
  <2>5. CASE t = u
    <3>1. PICK n \in DOMAIN tripEvents'[t] :
            /\ tripEvents'[t][n] = [from |-> from, to |-> to]
            /\ \A j \in DOMAIN tripEvents'[t] :
                 j # n => /\ j \in DOMAIN tripEvents[t]
                          /\ tripEvents'[t][j] = tripEvents[t][j]
      BY <1>0, <2>1, <2>5, EventAppended
    <3>2. CASE i = n
      <4>1. tripEvents'[t][i].from = from
        BY <3>1, <3>2
      <4> QED
        BY <2>3, <2>5, <4>1
    <3>3. CASE i # n
      BY <1>1, <3>1, <3>3
    <3> QED
      BY <3>2, <3>3
  <2> QED
    BY <2>4, <2>5
<1> QED
  BY <1>2, <1>3 DEF AuditMove, Quiet, MoveOnly

\* And the source of every row that is owed.
LEMMA OwedLeadsStep ==
  ASSUME ~Crashes, RideInv, TrailInv, AuditMove, NEW r \in RideReqs,
         Pending(rideReqs'[r]), rideReqs'[r].trip \in TripIds
  PROVE  LeadsNext(rideReqs'[r].trip, rideReqs'[r].from)
<1>0. RideTypeOK
  BY DEF RideInv
<1> DEFINE t == rideReqs[r].trip
           from == rideReqs[r].from
           to == rideReqs[r].to
<1>1. rideReqs'[r].trip = t /\ rideReqs'[r].from = from
  BY PendingBefore DEF MoveOnly, OnlyHandler, SameMove
<1>2. Leads(t, from)
  <2>1. CASE MoveOnly(r)
    <3>1. StatusMoves(t, from, to)
      BY <2>1 DEF MoveOnly
    <3> QED
      BY <3>1, SourceLeads
  <2>2. CASE Pending(rideReqs[r])
    BY <1>1, <2>2 DEF TrailInv, OwedRow
  <2> QED
    BY <2>1, <2>2, PendingBefore
<1>3. t \in TripIds
  BY <1>1
<1> HIDE DEF t, from
<1>4. LeadsNext(t, from)
  BY <1>0, <1>2, <1>3, LeadsStays
<1> QED
  BY <1>1, <1>4

LEMMA TrailInvStep ==
  ASSUME ~Crashes, RideInv, TrailInv, AuditMove
  PROVE  TrailInv'
<1> SUFFICES ASSUME NEW t \in TripIds
             PROVE  /\ trips'[t].status # "none"
                         => LeadsNext(t, trips'[t].status)
                    /\ \A i \in DOMAIN tripEvents'[t] :
                         LeadsNext(t, tripEvents'[t][i].from)
                    /\ \A r \in RideReqs :
                         Pending(rideReqs'[r]) /\ rideReqs'[r].trip = t
                           => LeadsNext(t, rideReqs'[r].from)
  BY DEF TrailInv, Exists, Leads, LeadsNext, OwedRow, Pending
<1> QED
  BY StatusLeadsStep, EventLeadsStep, OwedLeadsStep

\* Unless a handler dies between its UPDATE and its INSERT, the audit rows of
\* a trip that no handler is working on lead from "requested" to its status
\* without a gap.
THEOREM AuditComplete ==
  ASSUME ~Crashes
  PROVE  RideSpec => []AuditTrailComplete
<1>1. RideInit => TrailInv
  <2> SUFFICES ASSUME RideInit
               PROVE  TrailInv
    OBVIOUS
  <2>1. /\ \A t \in TripIds : tripEvents[t] = <<>> /\ trips[t] = NoTrip
        /\ \A r \in RideReqs : rideReqs[r] = IdleRide
    BY DEF RideInit, TripTableInit
  <2>2. \A t \in TripIds : DOMAIN tripEvents[t] = {} /\ ~Exists(t)
    BY <2>1 DEF Exists, NoTrip
  <2>3. \A r \in RideReqs : ~Pending(rideReqs[r])
    BY <2>1 DEF Pending, IdleRide
  <2> QED
    BY <2>2, <2>3 DEF TrailInv, OwedRow
<1>2. RideInv /\ AuditInv /\ TrailInv /\ [RideNext]_rideVars => TrailInv'
  <2> SUFFICES ASSUME RideInv, AuditInv, TrailInv, [RideNext]_rideVars
               PROVE  TrailInv'
    OBVIOUS
  <2>1. AuditMove
    BY RideNextAudit, OtherAudit DEF rideVars
  <2> QED
    BY <2>1, TrailInvStep
<1>3. TrailInv => AuditTrailComplete
  <2> SUFFICES ASSUME TrailInv, NEW t \in TripIds, Exists(t), NoHandlerOn(t)
               PROVE  LET reached == {"requested"} \cup
                            {tripEvents[t][i].to : i \in DOMAIN tripEvents[t]}
                      IN  /\ trips[t].status \in reached
                          /\ \A i \in DOMAIN tripEvents[t] :
                               tripEvents[t][i].from \in reached
    BY DEF AuditTrailComplete
  <2> DEFINE reached == {"requested"} \cup
                {tripEvents[t][i].to : i \in DOMAIN tripEvents[t]}
  <2>1. \A s : Leads(t, s) => s \in reached
    BY DEF Leads, OwedRow, NoHandlerOn
  <2>2. Leads(t, trips[t].status)
          /\ \A i \in DOMAIN tripEvents[t] : Leads(t, tripEvents[t][i].from)
    BY DEF TrailInv
  <2> QED
    BY <2>1, <2>2
<1> QED
  BY <1>1, <1>2, <1>3, RideInvariant, AuditInvariant, PTL DEF RideSpec
================================================================================
