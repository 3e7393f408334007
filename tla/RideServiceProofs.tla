--------------------------- MODULE RideServiceProofs ---------------------------
(***************************************************************************)
(* Proofs about the ride service, for any number of trips, drivers,        *)
(* passengers and concurrent requests, with or without crashes.            *)
(*                                                                         *)
(* RideInv is the inductive invariant.  Its step lemma does not assume     *)
(* that the ride service is alone, so SettlementProofs uses it again.      *)
(***************************************************************************)
EXTENDS RideService, TLAPS

\* The statuses in which a trip has its driver and is under way.
Driving == {"driver_assigned", "driver_arriving", "picked_up", "in_progress"}

\* The statuses from which the ride service lets a trip be cancelled.
Cancellable == {"requested", "searching", "driver_assigned", "driver_arriving"}

Over == {"completed", "paid"}

\* Nobody drives a trip that nobody has accepted.
NoDriverYet ==
  \A t \in TripIds :
    trips[t].status \in {"none", "requested", "searching"}
      => trips[t].driver = Null

\* No statement of the backend writes these two statuses.
NeverReached ==
  \A t \in TripIds : trips[t].status \notin {"payment_processing", "rated"}

\* What a handler at each await has established, and still holds when it acts.
RequestOK(q) ==
  /\ q.pc \in {"create.update", "create.publish"}
       => q.trip \in TripIds /\ q.from = "requested" /\ q.to = "searching"
  /\ q.pc = "cancel.update"
       => q.trip \in TripIds /\ q.from \in Cancellable /\ q.to = "cancelled"
  /\ q.pc = "accept.update" => q.trip \in TripIds /\ q.driver \in Drivers
  /\ q.pc \in {"advance.update", "patch.update"}
       => /\ q.trip \in TripIds /\ q.driver \in Drivers
          /\ q.from \in Driving /\ q.to \in TripStatus
          /\ CanTransition(q.from, q.to)
  /\ q.pc \in {"advance.event", "patch.event"}
       => q.trip \in TripIds /\ q.from \in TripStatus /\ q.to \in TripStatus
  /\ q.pc = "advance.event" /\ q.to = "completed"
       => trips[q.trip].status \in Over
  /\ q.pc = "advance.price"
       => q.trip \in TripIds /\ trips[q.trip].status \in Over
  /\ q.pc \in {"online.update", "offline.update"} => q.driver \in Drivers

RequestsOK == \A r \in RideReqs : RequestOK(rideReqs[r])

RideInv == RideTypeOK /\ NoDriverYet /\ NeverReached /\ RequestsOK

\* What one step of the ride service may do to row t of the trips table.
RowMoves(t) ==
  LET old == trips[t]
      new == trips'[t]
  IN  \/ /\ old.status = "none" /\ new.status = "requested"
         /\ new.driver = old.driver
      \/ /\ old.status = "searching" /\ new.status = "driver_assigned"
         /\ old.driver = Null /\ new.driver \in Drivers
      \/ /\ old.status \in Cancellable \cup Driving
         /\ CanTransition(old.status, new.status)
         /\ new.status # "driver_assigned"
         /\ new.driver = old.driver
      \/ /\ old.status \in Over /\ new.status = "completed"
         /\ new.driver = old.driver

\* A step writes one row, or none.
TripsMove ==
  \/ UNCHANGED trips
  \/ \E t \in TripIds : /\ RowMoves(t)
                         /\ \A u \in TripIds : u # t => trips'[u] = trips[u]

\* A step runs one handler, or none.
RequestsMove ==
  \/ UNCHANGED rideReqs
  \/ \E r \in RideReqs : /\ RequestOK(rideReqs[r])'
                          /\ \A o \in RideReqs : o # r => rideReqs'[o] = rideReqs[o]

\* Trips that are over stay over.
OverKept ==
  \A t \in TripIds : trips[t].status \in Over => trips'[t].status \in Over

-------------------------------------------------------------------------------
\* NULL is neither a number nor the name of a user.
LEMMA NullIsNew ==
  Null \notin Int /\ Null \notin Drivers /\ Null \notin Passengers
       /\ Null \notin TripIds
BY TripTableAssumption DEF TripTableAssumption, TripIds

\* A handler's next await is the only thing a Goto changes.
LEMMA GotoKeepsTypes ==
  ASSUME RideTypeOK, NEW r \in RideReqs, NEW pc \in RidePc, Goto(r, pc)
  PROVE  /\ rideReqs' \in [RideReqs -> RideRequest]
         /\ rideReqs'[r] = [rideReqs[r] EXCEPT !.pc = pc]
         /\ \A o \in RideReqs : o # r => rideReqs'[o] = rideReqs[o]
BY DEF RideTypeOK, Goto, RideRequest

\* A handler that ends leaves its slot idle.
LEMMA EndKeepsTypes ==
  ASSUME RideTypeOK, NEW r \in RideReqs, End(r)
  PROVE  /\ rideReqs' \in [RideReqs -> RideRequest]
         /\ rideReqs'[r] = IdleRide
         /\ \A o \in RideReqs : o # r => rideReqs'[o] = rideReqs[o]
BY DEF RideTypeOK, End, RideRequest, IdleRide, RidePc, Price

\* A handler that begins fills an idle slot.
LEMMA BeginKeepsTypes ==
  ASSUME RideTypeOK, NEW r \in RideReqs, NEW pc \in RidePc,
         NEW t \in TripIds \cup {Null}, NEW d \in Drivers \cup {Null},
         NEW from \in TripStatus \cup {Null}, NEW to \in TripStatus \cup {Null},
         Begin(r, pc, t, d, from, to)
  PROVE  /\ rideReqs' \in [RideReqs -> RideRequest]
         /\ rideReqs'[r] = [pc |-> pc, trip |-> t, driver |-> d,
                            from |-> from, to |-> to, price |-> Null]
         /\ \A o \in RideReqs : o # r => rideReqs'[o] = rideReqs[o]
BY DEF RideTypeOK, Begin, RideRequest, IdleRide, Price

\* A statement that writes only the status of one row.
LEMMA StatusWrite ==
  ASSUME RideTypeOK, NEW t \in TripIds, NEW s \in TripStatus,
         trips' = [trips EXCEPT ![t].status = s]
  PROVE  /\ trips' \in [TripIds -> TripRow]
         /\ trips'[t] = [trips[t] EXCEPT !.status = s]
         /\ trips'[t].status = s
         /\ trips'[t].driver = trips[t].driver
         /\ \A u \in TripIds : u # t => trips'[u] = trips[u]
BY DEF RideTypeOK, TripRow

\* acceptTrip's UPDATE sets the status and the driver of one row.
LEMMA DriverWrite ==
  ASSUME RideTypeOK, NEW t \in TripIds, NEW d \in Drivers,
         trips' = [trips EXCEPT ![t] = [@ EXCEPT !.status = "driver_assigned",
                                                 !.driver = d]]
  PROVE  /\ trips' \in [TripIds -> TripRow]
         /\ trips'[t].status = "driver_assigned"
         /\ trips'[t].driver = d
         /\ \A u \in TripIds : u # t => trips'[u] = trips[u]
<1> DEFINE row == [trips[t] EXCEPT !.status = "driver_assigned", !.driver = d]
<1>1. row \in TripRow /\ row.status = "driver_assigned" /\ row.driver = d
  BY DEF RideTypeOK, TripRow, TripStatus
<1>2. trips' = [trips EXCEPT ![t] = row]
  OBVIOUS
<1> HIDE DEF row
<1> QED
  BY <1>1, <1>2 DEF RideTypeOK

\* The UPDATE that prices a completed trip leaves its driver alone.
LEMMA PriceWrite ==
  ASSUME RideTypeOK, NEW t \in TripIds, NEW price \in Price,
         SetFinalPrice(t, price)
  PROVE  /\ trips' \in [TripIds -> TripRow]
         /\ trips'[t].status = "completed"
         /\ trips'[t].driver = trips[t].driver
         /\ \A u \in TripIds : u # t => trips'[u] = trips[u]
<1> DEFINE row == [trips[t] EXCEPT !.status = "completed", !.final = price]
<1>1. row \in TripRow /\ row.status = "completed"
        /\ row.driver = trips[t].driver
  BY DEF RideTypeOK, TripRow, TripStatus
<1>2. trips' = [trips EXCEPT ![t] = row]
  BY DEF SetFinalPrice
<1> HIDE DEF row
<1> QED
  BY <1>1, <1>2 DEF RideTypeOK

\* The INSERT of an audit row keeps the type of trip_events.
LEMMA EventWrite ==
  ASSUME RideTypeOK, NEW t \in TripIds, NEW from \in TripStatus,
         NEW to \in TripStatus, InsertTripEvent(t, from, to)
  PROVE  tripEvents' \in [TripIds -> Seq(TripEvent)]
<1> DEFINE e == [from |-> from, to |-> to]
<1>1. e \in TripEvent
  BY DEF TripEvent
<1>2. Append(tripEvents[t], e) \in Seq(TripEvent)
  BY <1>1 DEF RideTypeOK
<1> QED
  BY <1>2 DEF RideTypeOK, InsertTripEvent

-------------------------------------------------------------------------------
\* A statement that matched no row ends its handler.
LEMMA RefuseStep ==
  ASSUME RideInv, NEW r \in RideReqs, Refuse(r)
  PROVE  RideTypeOK' /\ TripsMove /\ RequestsMove
<1>1. RideTypeOK
  BY DEF RideInv
<1>2. RideTypeOK'
  BY <1>1, EndKeepsTypes DEF Refuse, RideTypeOK
<1>3. RequestOK(rideReqs[r])'
  BY <1>1, EndKeepsTypes DEF Refuse, RequestOK, IdleRide
<1> QED
  BY <1>1, <1>2, <1>3, EndKeepsTypes DEF Refuse, TripsMove, RequestsMove

\* POST /rides inserts a row in "requested", and nothing else.
LEMMA CreateRideStep ==
  ASSUME RideInv, NEW r \in RideReqs, NEW p \in Passengers,
         NEW dto \in RideDto, NEW total \in Fares, CreateRide(r, p, dto, total)
  PROVE  RideTypeOK' /\ TripsMove /\ RequestsMove
<1>1. PICK t \in TripIds :
        /\ InsertTrip(t, p, IF dto.rideType = "fixed" THEN total ELSE Null,
                      dto.offered)
        /\ Begin(r, "create.update", t, Null, "requested", "searching")
  BY DEF CreateRide
<1>2. RideTypeOK
  BY DEF RideInv
<1>3. total \in Price /\ dto.offered \in Price /\ Null \in Price
  BY DEF RideDto, Price, Charge
<1>4. /\ trips' \in [TripIds -> TripRow]
      /\ trips[t].status = "none"
      /\ trips'[t].status = "requested" /\ trips'[t].driver = Null
      /\ \A u \in TripIds : u # t => trips'[u] = trips[u]
  BY <1>1, <1>2, <1>3
     DEF InsertTrip, Exists, RideTypeOK, TripRow, NoTrip, Price, TripStatus
<1>5. /\ rideReqs' \in [RideReqs -> RideRequest]
      /\ rideReqs'[r] = [pc |-> "create.update", trip |-> t, driver |-> Null,
                         from |-> "requested", to |-> "searching",
                         price |-> Null]
      /\ \A o \in RideReqs : o # r => rideReqs'[o] = rideReqs[o]
  BY <1>1, <1>2, BeginKeepsTypes DEF RidePc, TripStatus
<1>6. RideTypeOK'
  BY <1>1, <1>2, <1>4, <1>5 DEF RideTypeOK, CreateRide, InsertTrip
<1>7. RequestOK(rideReqs[r])'
  BY <1>5 DEF RequestOK
<1>8. trips[t].driver = Null
  BY <1>4 DEF RideInv, NoDriverYet
<1> QED
  BY <1>4, <1>5, <1>6, <1>7, <1>8 DEF TripsMove, RowMoves, RequestsMove

\* createRide's second transaction: the trip is searched for, or refused.
LEMMA StartSearchStep ==
  ASSUME RideInv, NEW r \in RideReqs, StartSearch(r)
  PROVE  RideTypeOK' /\ TripsMove /\ RequestsMove
<1> DEFINE q == rideReqs[r]
<1>1. CASE ~HasStatus(q.trip, q.from) /\ Refuse(r)
  BY <1>1, RefuseStep
<1>2. CASE /\ UpdateStatus(q.trip, q.from, q.to)
           /\ Goto(r, "create.publish")
           /\ UNCHANGED <<published, drivers>>
  <2>1. RideTypeOK /\ q.trip \in TripIds /\ q.from = "requested"
          /\ q.to = "searching"
    BY DEF RideInv, RequestsOK, RequestOK, StartSearch, At
  <2>2. /\ rideReqs' \in [RideReqs -> RideRequest]
        /\ rideReqs'[r] = [q EXCEPT !.pc = "create.publish"]
        /\ \A o \in RideReqs : o # r => rideReqs'[o] = rideReqs[o]
    BY <1>2, <2>1, GotoKeepsTypes DEF RidePc
  <2>3. /\ trips[q.trip].status = "requested"
        /\ trips' \in [TripIds -> TripRow]
        /\ trips'[q.trip].status = "searching"
        /\ trips'[q.trip].driver = trips[q.trip].driver
        /\ \A u \in TripIds : u # q.trip => trips'[u] = trips[u]
    BY <1>2, <2>1, StatusWrite DEF UpdateStatus, HasStatus, TripStatus
  <2>4. tripEvents' \in [TripIds -> Seq(TripEvent)]
    BY <1>2, <2>1, EventWrite DEF UpdateStatus, TripStatus
  <2>5. RideTypeOK'
    BY <1>2, <2>1, <2>2, <2>3, <2>4 DEF RideTypeOK
  <2>6. RequestOK(rideReqs[r])'
    BY <2>1, <2>2 DEF RequestOK, RideTypeOK, RideRequest
  <2> QED
    BY <2>1, <2>2, <2>3, <2>5, <2>6
       DEF TripsMove, RowMoves, RequestsMove, CanTransition,
           ValidTripTransitions, Cancellable
<1> QED
  BY <1>1, <1>2 DEF StartSearch

\* cancelTrip's transaction: the trip is cancelled, or the request refused.
LEMMA CommitCancelStep ==
  ASSUME RideInv, NEW r \in RideReqs, CommitCancel(r)
  PROVE  RideTypeOK' /\ TripsMove /\ RequestsMove
<1> DEFINE q == rideReqs[r]
<1>1. CASE ~HasStatus(q.trip, q.from) /\ Refuse(r)
  BY <1>1, RefuseStep
<1>2. CASE /\ UpdateStatus(q.trip, q.from, q.to)
           /\ Goto(r, "publish")
           /\ UNCHANGED <<published, drivers>>
  <2>1. RideTypeOK /\ q.trip \in TripIds /\ q.from \in Cancellable
          /\ q.to = "cancelled"
    BY DEF RideInv, RequestsOK, RequestOK, CommitCancel, At
  <2>2. /\ rideReqs' \in [RideReqs -> RideRequest]
        /\ rideReqs'[r] = [q EXCEPT !.pc = "publish"]
        /\ \A o \in RideReqs : o # r => rideReqs'[o] = rideReqs[o]
    BY <1>2, <2>1, GotoKeepsTypes DEF RidePc
  <2>3. /\ trips[q.trip].status = q.from
        /\ trips' \in [TripIds -> TripRow]
        /\ trips'[q.trip].status = "cancelled"
        /\ trips'[q.trip].driver = trips[q.trip].driver
        /\ \A u \in TripIds : u # q.trip => trips'[u] = trips[u]
    BY <1>2, <2>1, StatusWrite DEF UpdateStatus, HasStatus, TripStatus
  <2>4. tripEvents' \in [TripIds -> Seq(TripEvent)]
    BY <1>2, <2>1, EventWrite DEF UpdateStatus, TripStatus, Cancellable
  <2>5. RideTypeOK'
    BY <1>2, <2>1, <2>2, <2>3, <2>4 DEF RideTypeOK
  <2>6. RequestOK(rideReqs[r])'
    BY <2>1, <2>2 DEF RequestOK, RideTypeOK, RideRequest
  <2> QED
    BY <2>1, <2>2, <2>3, <2>5, <2>6
       DEF TripsMove, RowMoves, RequestsMove, CanTransition,
           ValidTripTransitions, Cancellable
<1> QED
  BY <1>1, <1>2 DEF CommitCancel

\* acceptTrip's transaction: the driver gets the trip, or is refused.
LEMMA CommitAcceptStep ==
  ASSUME RideInv, NEW r \in RideReqs, CommitAccept(r)
  PROVE  RideTypeOK' /\ TripsMove /\ RequestsMove
<1> DEFINE q == rideReqs[r]
<1>1. CASE ~CanAccept(q.trip) /\ Refuse(r)
  BY <1>1, RefuseStep
<1>2. CASE /\ AcceptTrip(q.trip, q.driver)
           /\ Goto(r, "publish")
           /\ UNCHANGED <<published, drivers>>
  <2>1. RideTypeOK /\ q.trip \in TripIds /\ q.driver \in Drivers
    BY DEF RideInv, RequestsOK, RequestOK, CommitAccept, At
  <2>2. /\ rideReqs' \in [RideReqs -> RideRequest]
        /\ rideReqs'[r] = [q EXCEPT !.pc = "publish"]
        /\ \A o \in RideReqs : o # r => rideReqs'[o] = rideReqs[o]
    BY <1>2, <2>1, GotoKeepsTypes DEF RidePc
  <2>3. /\ trips[q.trip].status = "searching" /\ trips[q.trip].driver = Null
        /\ trips' \in [TripIds -> TripRow]
        /\ trips'[q.trip].status = "driver_assigned"
        /\ trips'[q.trip].driver = q.driver
        /\ \A u \in TripIds : u # q.trip => trips'[u] = trips[u]
    BY <1>2, <2>1, DriverWrite DEF AcceptTrip, CanAccept
  <2>4. tripEvents' \in [TripIds -> Seq(TripEvent)]
    BY <1>2, <2>1, EventWrite DEF AcceptTrip, TripStatus
  <2>5. RideTypeOK'
    BY <1>2, <2>1, <2>2, <2>3, <2>4 DEF RideTypeOK
  <2>6. RequestOK(rideReqs[r])'
    BY <2>1, <2>2 DEF RequestOK, RideTypeOK, RideRequest
  <2> QED
    BY <2>1, <2>2, <2>3, <2>5, <2>6 DEF TripsMove, RowMoves, RequestsMove
<1> QED
  BY <1>1, <1>2 DEF CommitAccept

\* Of the statuses that occur, these four can be cancelled.
LEMMA CancelSources ==
  ASSUME NEW s, s # "payment_processing", CanTransition(s, "cancelled")
  PROVE  s \in Cancellable
BY DEF CanTransition, ValidTripTransitions, Cancellable

\* cancelTrip up to its first write.
LEMMA CancelStep ==
  ASSUME RideInv, NEW r \in RideReqs, NEW t \in TripIds, CancelTrip(r, t)
  PROVE  RideTypeOK' /\ TripsMove /\ RequestsMove
<1> DEFINE from == trips[t].status
<1>1. RideTypeOK /\ from # "payment_processing"
        /\ CanTransition(from, "cancelled")
  BY DEF CancelTrip, RideInv, NeverReached
<1>2. from \in Cancellable /\ from \in TripStatus
  BY <1>1, CancelSources DEF Cancellable, TripStatus
<1>3. /\ rideReqs' \in [RideReqs -> RideRequest]
      /\ rideReqs'[r] = [pc |-> "cancel.update", trip |-> t, driver |-> Null,
                         from |-> from, to |-> "cancelled", price |-> Null]
      /\ \A o \in RideReqs : o # r => rideReqs'[o] = rideReqs[o]
  BY <1>1, <1>2, BeginKeepsTypes DEF CancelTrip, RidePc, TripStatus
<1>4. RequestOK(rideReqs[r])'
  BY <1>2, <1>3 DEF RequestOK
<1> QED
  BY <1>1, <1>3, <1>4 DEF CancelTrip, RideTypeOK, TripsMove, RequestsMove

\* The driver's handlers up to their first write.
LEMMA DriverReadSteps ==
  ASSUME RideInv, NEW r \in RideReqs, NEW t \in TripIds, NEW d \in Drivers,
         \/ AcceptOffer(r, d, t)
         \/ AdvanceTrip(r, d, t)
         \/ \E target \in TripStatus : PatchTripStatus(r, d, t, target)
  PROVE  RideTypeOK' /\ TripsMove /\ RequestsMove
<1>1. RideTypeOK
  BY DEF RideInv
<1>3. CASE AcceptOffer(r, d, t)
  <2>1. /\ rideReqs' \in [RideReqs -> RideRequest]
        /\ rideReqs'[r] = [pc |-> "accept.update", trip |-> t, driver |-> d,
                           from |-> "searching", to |-> "driver_assigned",
                           price |-> Null]
        /\ \A o \in RideReqs : o # r => rideReqs'[o] = rideReqs[o]
    BY <1>1, <1>3, BeginKeepsTypes DEF AcceptOffer, RidePc, TripStatus
  <2>2. RequestOK(rideReqs[r])'
    BY <2>1 DEF RequestOK
  <2> QED
    BY <1>1, <1>3, <2>1, <2>2
       DEF AcceptOffer, RideTypeOK, TripsMove, RequestsMove
<1>4. ASSUME NEW from \in Driving, NEW to \in TripStatus,
             CanTransition(from, to),
             NEW pc \in {"advance.update", "patch.update"},
             Begin(r, pc, t, d, from, to),
             UNCHANGED <<trips, tripEvents, published, drivers>>
      PROVE  RideTypeOK' /\ TripsMove /\ RequestsMove
  <2>1. /\ rideReqs' \in [RideReqs -> RideRequest]
        /\ rideReqs'[r] = [pc |-> pc, trip |-> t, driver |-> d,
                           from |-> from, to |-> to, price |-> Null]
        /\ \A o \in RideReqs : o # r => rideReqs'[o] = rideReqs[o]
    <3>1. pc \in RidePc /\ from \in TripStatus
      BY <1>4 DEF RidePc, Driving, TripStatus
    <3>2. t \in TripIds \cup {Null} /\ d \in Drivers \cup {Null}
            /\ from \in TripStatus \cup {Null} /\ to \in TripStatus \cup {Null}
      BY <3>1, <1>4
    <3> QED
      BY <1>1, <1>4, <3>1, <3>2, BeginKeepsTypes
  <2>2. RequestOK(rideReqs[r])'
    BY <1>4, <2>1 DEF RequestOK
  <2> QED
    BY <1>1, <1>4, <2>1, <2>2 DEF RideTypeOK, TripsMove, RequestsMove
<1>5. ASSUME IsActiveTrip(d, t), NEW to, CanTransition(trips[t].status, to)
      PROVE  trips[t].status \in Driving
  <2>1. trips[t].driver # Null
    BY <1>5, NullIsNew DEF IsActiveTrip, ActiveTrips
  <2>2. trips[t].status \notin {"requested", "searching"}
    BY <2>1 DEF RideInv, NoDriverYet
  <2> QED
    BY <1>5, <2>2 DEF RideInv, NeverReached, IsActiveTrip, ActiveTrips,
         InactiveStatus, CanTransition, ValidTripTransitions, Driving
<1>6. CASE AdvanceTrip(r, d, t)
  <2>1. PICK to \in TripStatus :
          /\ CanTransition(trips[t].status, to)
          /\ Begin(r, "advance.update", t, d, trips[t].status, to)
    BY <1>6 DEF AdvanceTrip
  <2>2. trips[t].status \in Driving
    BY <1>5, <1>6, <2>1 DEF AdvanceTrip
  <2> QED
    BY <1>4, <1>6, <2>1, <2>2 DEF AdvanceTrip
<1>7. ASSUME NEW target \in TripStatus, PatchTripStatus(r, d, t, target)
      PROVE  RideTypeOK' /\ TripsMove /\ RequestsMove
  <2>1. trips[t].status \in Driving
    BY <1>5, <1>7 DEF PatchTripStatus
  <2> QED
    BY <1>4, <1>7, <2>1 DEF PatchTripStatus
<1> QED
  BY <1>3, <1>6, <1>7

\* COALESCE over prices gives a price.
LEMMA AgreedPriceType ==
  ASSUME RideTypeOK, NEW t \in TripIds
  PROVE  AgreedPrice(t) \in Price
<1>1. /\ trips[t].final \in Price /\ trips[t].fixed \in Price
      /\ trips[t].offered \in Price /\ 0 \in Price
  BY DEF RideTypeOK, TripRow, Price, Charge
<1> QED
  BY <1>1 DEF AgreedPrice, Coalesce

\* The UPDATE of advanceTripStatus and of updateTripStatus.
LEMMA CommitMoveStep ==
  ASSUME RideInv, NEW r \in RideReqs,
         CommitAdvance(r) \/ CommitPatch(r)
  PROVE  RideTypeOK' /\ TripsMove /\ RequestsMove
<1> DEFINE q == rideReqs[r]
<1>1. CASE Refuse(r)
  BY <1>1, RefuseStep
<1>2. ASSUME NEW event \in {"advance.event", "patch.event"},
             UpdateTripStatus(q.trip, q.driver, q.from, q.to),
             rideReqs' = [rideReqs EXCEPT ![r] =
                           [@ EXCEPT !.pc = event,
                                     !.price = AgreedPrice(q.trip)]],
             UNCHANGED <<published, drivers>>
      PROVE  RideTypeOK' /\ TripsMove /\ RequestsMove
  <2>1. /\ RideTypeOK /\ q \in RideRequest
        /\ q.trip \in TripIds /\ q.driver \in Drivers
        /\ q.from \in Driving /\ q.to \in TripStatus
        /\ CanTransition(q.from, q.to)
    BY DEF RideInv, RideTypeOK, RequestsOK, RequestOK, CommitAdvance,
           CommitPatch, CommitMove, At
  <2>2. AgreedPrice(q.trip) \in Price
    BY <2>1, AgreedPriceType
  <2> DEFINE new == [q EXCEPT !.pc = event, !.price = AgreedPrice(q.trip)]
  <2>3. new \in RideRequest /\ new.pc = event /\ new.trip = q.trip
          /\ new.from = q.from /\ new.to = q.to
    <3>1. event \in RidePc
      BY <1>2 DEF RidePc
    <3> QED
      BY <2>1, <2>2, <3>1 DEF RideRequest
  <2>4. rideReqs' = [rideReqs EXCEPT ![r] = new]
    BY <1>2
  <2> HIDE DEF new
  <2>5. /\ rideReqs' \in [RideReqs -> RideRequest]
        /\ rideReqs'[r] = new
        /\ \A o \in RideReqs : o # r => rideReqs'[o] = rideReqs[o]
    BY <2>1, <2>3, <2>4 DEF RideTypeOK
  <2>6. /\ trips[q.trip].status = q.from
        /\ trips' \in [TripIds -> TripRow]
        /\ trips'[q.trip].status = q.to
        /\ trips'[q.trip].driver = trips[q.trip].driver
        /\ \A u \in TripIds : u # q.trip => trips'[u] = trips[u]
    BY <1>2, <2>1, StatusWrite DEF UpdateTripStatus, OwnedWithStatus
  <2>7. RideTypeOK'
    BY <1>2, <2>1, <2>5, <2>6 DEF RideTypeOK, UpdateTripStatus
  <2>8. RequestOK(rideReqs[r])'
    BY <1>2, <2>1, <2>3, <2>5, <2>6
       DEF RequestOK, Driving, TripStatus, Over
  <2>9. q.to # "driver_assigned"
    BY <2>1 DEF Driving, CanTransition, ValidTripTransitions
  <2> QED
    BY <2>1, <2>5, <2>6, <2>7, <2>8, <2>9 DEF TripsMove, RowMoves, RequestsMove
<1> QED
  BY <1>1, <1>2 DEF CommitAdvance, CommitPatch, CommitMove

\* The INSERT that follows it.
LEMMA RecordStep ==
  ASSUME RideInv, NEW r \in RideReqs, RecordAdvance(r) \/ RecordPatch(r)
  PROVE  RideTypeOK' /\ TripsMove /\ RequestsMove
<1> DEFINE q == rideReqs[r]
<1>1. /\ RideTypeOK /\ q \in RideRequest
      /\ q.trip \in TripIds /\ q.from \in TripStatus /\ q.to \in TripStatus
  BY DEF RideInv, RideTypeOK, RequestsOK, RequestOK, RecordAdvance,
         RecordPatch, At
<1>2. tripEvents' \in [TripIds -> Seq(TripEvent)]
  BY <1>1, EventWrite DEF RecordAdvance, RecordPatch
<1>3. ASSUME NEW pc \in {"advance.price", "publish"}, Goto(r, pc),
             pc = "advance.price" => trips[q.trip].status \in Over,
             UNCHANGED <<trips, published, drivers>>
      PROVE  RideTypeOK' /\ TripsMove /\ RequestsMove
  <2>0. pc \in RidePc
    BY <1>3 DEF RidePc
  <2>1. /\ rideReqs' \in [RideReqs -> RideRequest]
        /\ rideReqs'[r] = [q EXCEPT !.pc = pc]
        /\ \A o \in RideReqs : o # r => rideReqs'[o] = rideReqs[o]
    BY <1>1, <1>3, <2>0, GotoKeepsTypes
  <2>2. rideReqs'[r].pc = pc /\ rideReqs'[r].trip = q.trip
    BY <1>1, <2>1 DEF RideRequest
  <2>3. RequestOK(rideReqs[r])'
    BY <1>1, <1>3, <2>2 DEF RequestOK
  <2> QED
    BY <1>1, <1>2, <1>3, <2>1, <2>3 DEF RideTypeOK, TripsMove, RequestsMove
<1>4. CASE RecordAdvance(r)
  <2>1. q.to = "completed" => trips[q.trip].status \in Over
    BY <1>4 DEF RideInv, RequestsOK, RequestOK, RecordAdvance, At
  <2> QED
    BY <1>3, <1>4, <2>1 DEF RecordAdvance
<1>5. CASE RecordPatch(r)
  BY <1>3, <1>5 DEF RecordPatch
<1> QED
  BY <1>4, <1>5

\* The completing advance's unconditional UPDATE finds its trip over.
LEMMA PriceTripStep ==
  ASSUME RideInv, NEW r \in RideReqs, PriceTrip(r)
  PROVE  RideTypeOK' /\ TripsMove /\ RequestsMove
<1> DEFINE q == rideReqs[r]
<1>1. /\ RideTypeOK /\ q \in RideRequest
      /\ q.trip \in TripIds /\ trips[q.trip].status \in Over
  BY DEF RideInv, RideTypeOK, RequestsOK, RequestOK, PriceTrip, At
<1>2. q.price \in Price
  BY <1>1 DEF RideRequest
<1>3. /\ trips' \in [TripIds -> TripRow]
      /\ trips'[q.trip].status = "completed"
      /\ trips'[q.trip].driver = trips[q.trip].driver
      /\ \A u \in TripIds : u # q.trip => trips'[u] = trips[u]
  BY <1>1, <1>2, PriceWrite DEF PriceTrip
<1>4. /\ rideReqs' \in [RideReqs -> RideRequest]
      /\ rideReqs'[r] = [q EXCEPT !.pc = "publish"]
      /\ \A o \in RideReqs : o # r => rideReqs'[o] = rideReqs[o]
  BY <1>1, GotoKeepsTypes DEF PriceTrip, RidePc
<1>5. RideTypeOK'
  BY <1>1, <1>3, <1>4 DEF PriceTrip, SetFinalPrice, RideTypeOK
<1>6. RequestOK(rideReqs[r])'
  BY <1>1, <1>4 DEF RequestOK, RideRequest
<1> QED
  BY <1>1, <1>3, <1>4, <1>5, <1>6 DEF TripsMove, RowMoves, RequestsMove

\* The steps that end a handler without touching the trips table.
LEMMA EndStep ==
  ASSUME RideInv, NEW r \in RideReqs,
         OfferTrip(r) \/ PublishStatus(r) \/ CommitOnline(r) \/ CrashRide(r)
  PROVE  RideTypeOK' /\ TripsMove /\ RequestsMove
<1>1. RideTypeOK
  BY DEF RideInv
<1>2. End(r) /\ UNCHANGED <<trips, tripEvents>>
  BY DEF OfferTrip, PublishStatus, CommitOnline, CrashRide, Refuse
<1>3. drivers' \in [Drivers -> DriverRow]
  <2>1. CASE CommitOnline(r)
    <3>1. At(r, "online.update") \in BOOLEAN
      BY DEF At
    <3>2. rideReqs[r].driver \in Drivers
      BY <2>1 DEF RideInv, RequestsOK, RequestOK, CommitOnline
    <3> QED
      BY <1>1, <2>1, <3>1, <3>2 DEF CommitOnline, RideTypeOK, DriverRow
  <2>2. CASE UNCHANGED drivers
    BY <1>1, <2>2 DEF RideTypeOK
  <2> QED
    BY <2>1, <2>2 DEF OfferTrip, PublishStatus, CrashRide, Refuse
<1>4. RequestOK(rideReqs[r])'
  BY <1>1, <1>2, EndKeepsTypes DEF RequestOK, IdleRide
<1> QED
  BY <1>1, <1>2, <1>3, <1>4, EndKeepsTypes
     DEF RideTypeOK, TripsMove, RequestsMove

\* Going online or offline reads the approval and then only writes a flag.
LEMMA OnlineStep ==
  ASSUME RideInv, NEW r \in RideReqs, NEW d \in Drivers,
         NEW isOnline \in BOOLEAN, SetOnlineStatus(r, d, isOnline)
  PROVE  RideTypeOK' /\ TripsMove /\ RequestsMove
<1> DEFINE pc == IF isOnline THEN "online.update" ELSE "offline.update"
<1>1. RideTypeOK
  BY DEF RideInv
<1>2. pc \in RidePc /\ pc \in {"online.update", "offline.update"}
  BY DEF RidePc
<1>3. Begin(r, pc, Null, d, Null, Null)
  BY DEF SetOnlineStatus
<1> HIDE DEF pc
<1>4. /\ rideReqs' \in [RideReqs -> RideRequest]
      /\ rideReqs'[r] = [pc |-> pc, trip |-> Null, driver |-> d,
                         from |-> Null, to |-> Null, price |-> Null]
      /\ \A o \in RideReqs : o # r => rideReqs'[o] = rideReqs[o]
  BY <1>1, <1>2, <1>3, BeginKeepsTypes
<1>5. RequestOK(rideReqs[r])'
  BY <1>2, <1>4 DEF RequestOK
<1> QED
  BY <1>1, <1>4, <1>5
     DEF SetOnlineStatus, RideTypeOK, TripsMove, RequestsMove

\* The back office and a declined offer leave trips and handlers alone.
LEMMA OtherStep ==
  ASSUME RideInv,
         (\E d \in Moderated : ModerateDriver(d))
           \/ (\E d \in Drivers, t \in TripIds : DeclineOffer(d, t))
  PROVE  RideTypeOK' /\ TripsMove /\ RequestsMove
<1>1. RideTypeOK
  BY DEF RideInv
<1>2. CASE \E d \in Moderated : ModerateDriver(d)
  <2>1. PICK d \in Moderated : ModerateDriver(d)
    BY <1>2
  <2>2. d \in Drivers
    BY <2>1, RideServiceAssumption DEF RideServiceAssumption
  <2> QED
    BY <1>1, <2>1, <2>2
       DEF ModerateDriver, RideTypeOK, DriverRow, TripsMove, RequestsMove
<1>3. CASE \E d \in Drivers, t \in TripIds : DeclineOffer(d, t)
  BY <1>1, <1>3 DEF DeclineOffer, RideTypeOK, TripsMove, RequestsMove
<1> QED
  BY <1>2, <1>3

-------------------------------------------------------------------------------
\* Every step of the ride service is one of those above.
LEMMA RideNextMoves ==
  ASSUME RideInv, RideNext
  PROVE  RideTypeOK' /\ TripsMove /\ RequestsMove
<1>1. ASSUME NEW r \in RideReqs, RideArrival(r)
      PROVE  RideTypeOK' /\ TripsMove /\ RequestsMove
  <2>1. CASE \E p \in Passengers, dto \in RideDto, total \in Fares :
                CreateRide(r, p, dto, total)
    BY <2>1, CreateRideStep
  <2>2. CASE \E d \in Drivers, isOnline \in BOOLEAN :
                SetOnlineStatus(r, d, isOnline)
    BY <2>2, OnlineStep
  <2>3. CASE \E t \in TripIds : CancelTrip(r, t)
    BY <2>3, CancelStep
  <2>4. CASE \E d \in Drivers, t \in TripIds :
                \/ Exists(t) /\ AcceptOffer(r, d, t)
                \/ AdvanceTrip(r, d, t)
                \/ \E target \in TripStatus : PatchTripStatus(r, d, t, target)
    BY <2>4, DriverReadSteps
  <2> QED
    BY <1>1, <2>1, <2>2, <2>3, <2>4 DEF RideArrival
<1>2. ASSUME NEW r \in RideReqs, RideStep(r) \/ CrashRide(r)
      PROVE  RideTypeOK' /\ TripsMove /\ RequestsMove
  BY <1>2, StartSearchStep, CommitCancelStep, CommitAcceptStep,
     CommitMoveStep, RecordStep, PriceTripStep, EndStep DEF RideStep
<1> QED
  BY <1>1, <1>2, OtherStep DEF RideNext

\* What a step of any service may do to the trips table without disturbing
\* what the ride service's handlers have established.
LEMMA MovesKeepRows ==
  ASSUME RideInv, TripsMove
  PROVE  NoDriverYet' /\ NeverReached' /\ OverKept
<1>1. CASE UNCHANGED trips
  BY <1>1 DEF RideInv, NoDriverYet, NeverReached, OverKept
<1>2. ASSUME NEW t \in TripIds, RowMoves(t),
             \A u \in TripIds : u # t => trips'[u] = trips[u]
      PROVE  NoDriverYet' /\ NeverReached' /\ OverKept
  <2> DEFINE old == trips[t]
             new == trips'[t]
  <2>1. old.status \in Cancellable \cup Driving
          /\ CanTransition(old.status, new.status)
          => \/ new.status \in Driving \cup {"completed", "cancelled"}
             \/ new.status = "searching" /\ old.status = "requested"
    BY DEF Cancellable, Driving, CanTransition, ValidTripTransitions
  <2>2. /\ new.status \notin {"payment_processing", "rated"}
        /\ old.status \in Over => new.status \in Over
        /\ new.status \in {"none", "requested", "searching"}
             => /\ old.status \in {"none", "requested", "searching"}
                /\ new.driver = old.driver
    BY <1>2, <2>1 DEF RowMoves, Cancellable, Driving, Over
  <2> HIDE DEF old, new
  <2>3. NoDriverYet'
    <3> SUFFICES ASSUME NEW u \in TripIds,
                        trips'[u].status \in {"none", "requested", "searching"}
                 PROVE  trips'[u].driver = Null
      BY DEF NoDriverYet
    <3> QED
      BY <1>2, <2>2 DEF RideInv, NoDriverYet, old, new
  <2>4. NeverReached'
    BY <1>2, <2>2 DEF RideInv, NeverReached, new
  <2>5. OverKept
    BY <1>2, <2>2 DEF OverKept, old, new
  <2> QED
    BY <2>3, <2>4, <2>5
<1> QED
  BY <1>1, <1>2 DEF TripsMove

\* A handler's knowledge survives every step that is not its own.
LEMMA OthersKeepRequest ==
  ASSUME OverKept, NEW r \in RideReqs, RequestOK(rideReqs[r]),
         rideReqs'[r] = rideReqs[r]
  PROVE  RequestOK(rideReqs[r])'
BY DEF OverKept, RequestOK

\* A step that makes such moves preserves the inductive invariant.
LEMMA RideInvStep ==
  ASSUME RideInv, RideTypeOK', TripsMove, RequestsMove
  PROVE  RideInv'
<1>1. NoDriverYet' /\ NeverReached' /\ OverKept
  BY MovesKeepRows
<1>2. RequestsOK'
  BY <1>1, OthersKeepRequest DEF RequestsMove, RideInv, RequestsOK
<1> QED
  BY <1>1, <1>2 DEF RideInv

\* No table row and no handler yet.
LEMMA RideInvInit ==
  ASSUME RideInit
  PROVE  RideInv
<1>1. /\ trips = [t \in TripIds |-> NoTrip]
      /\ \A r \in RideReqs : rideReqs[r] = IdleRide
  BY DEF RideInit, TripTableInit
<1>2. NoTrip \in TripRow /\ <<>> \in Seq(TripEvent) /\ IdleRide \in RideRequest
  BY DEF NoTrip, TripRow, Price, IdleRide, RideRequest, RidePc
<1>3. RideTypeOK
  BY <1>1, <1>2 DEF RideInit, TripTableInit, RideTypeOK, DriverRow
<1>4. NoDriverYet /\ NeverReached
  BY <1>1 DEF NoDriverYet, NeverReached, NoTrip
<1>5. RequestsOK
  BY <1>1 DEF RequestsOK, RequestOK, IdleRide
<1> QED
  BY <1>3, <1>4, <1>5 DEF RideInv

-------------------------------------------------------------------------------
\* The inductive invariant of the ride service by itself.
THEOREM RideInvariant == RideSpec => []RideInv
<1>1. RideInv /\ [RideNext]_rideVars => RideInv'
  <2> SUFFICES ASSUME RideInv, [RideNext]_rideVars
               PROVE  RideInv'
    OBVIOUS
  <2>1. CASE RideNext
    BY <2>1, RideNextMoves, RideInvStep
  <2>2. CASE UNCHANGED rideVars
    BY <2>2 DEF rideVars, RideInv, RideTypeOK, NoDriverYet, NeverReached,
                RequestsOK, RequestOK
  <2> QED
    BY <2>1, <2>2
<1> QED
  BY <1>1, RideInvInit, PTL DEF RideSpec

\* Every column and every handler's local variable keeps its type, however
\* many requests run at once, wherever they die, and whatever number a client
\* sends as an offered price.
THEOREM RideTypeCorrect == RideSpec => []RideTypeOK
<1>1. RideInv => RideTypeOK
  BY DEF RideInv
<1> QED
  BY <1>1, RideInvariant, PTL
-------------------------------------------------------------------------------
\* Without the payment service no trip is ever paid.
Unpaid == \A t \in TripIds : trips[t].status # "paid"

\* An unpaid trip stays unpaid, and a step of the service is then a step of
\* the life cycle or a stutter.
LEMMA LifecycleStep ==
  ASSUME RideInv, Unpaid, TripsMove
  PROVE  Unpaid' /\ [Lifecycle!Next]_(Lifecycle!vars)
<1>1. CASE UNCHANGED trips
  BY <1>1 DEF Unpaid, Lifecycle!vars
<1>2. ASSUME NEW t \in TripIds, RowMoves(t),
             \A u \in TripIds : u # t => trips'[u] = trips[u]
      PROVE  Unpaid' /\ [Lifecycle!Next]_(Lifecycle!vars)
  <2> DEFINE old == trips[t]
             new == trips'[t]
             st == [u \in TripIds |-> trips[u].status]
             dr == [u \in TripIds |-> trips[u].driver]
  <2>1. st' = [st EXCEPT ![t] = new.status]
    BY <1>2
  <2>2. dr' = [dr EXCEPT ![t] = new.driver]
    BY <1>2
  <2>3. st[t] = old.status /\ dr[t] = old.driver
    OBVIOUS
  <2>4. new.driver = old.driver => dr' = dr
    BY <2>2, <2>3
  <2>5. CASE /\ old.status = "none" /\ new.status = "requested"
             /\ new.driver = old.driver
    <3>1. Lifecycle!Request(t)
      BY <2>1, <2>3, <2>4, <2>5 DEF Lifecycle!Request
    <3> QED
      BY <1>2, <2>5, <3>1 DEF Unpaid, Lifecycle!Next
  <2>6. CASE /\ old.status = "searching" /\ new.status = "driver_assigned"
             /\ old.driver = Null /\ new.driver \in Drivers
    <3>1. PICK d \in Drivers : d = new.driver
      BY <2>6
    <3>2. Lifecycle!Assign(t, d)
      BY <2>1, <2>2, <2>3, <2>6, <3>1 DEF Lifecycle!Assign
    <3>3. Unpaid'
      BY <1>2, <2>6 DEF Unpaid
    <3> QED
      BY <3>2, <3>3 DEF Lifecycle!Next
  <2>7. CASE /\ old.status \in Cancellable \cup Driving
             /\ CanTransition(old.status, new.status)
             /\ new.status # "driver_assigned"
             /\ new.driver = old.driver
    <3>1. new.status \in Lifecycle!TripStatus \ {"paid"}
      BY <2>7 DEF Cancellable, Driving, CanTransition, ValidTripTransitions,
                  Lifecycle!TripStatus
    <3>2. Lifecycle!CanTransition(old.status, new.status)
      BY <2>7 DEF CanTransition, ValidTripTransitions,
                  Lifecycle!CanTransition, Lifecycle!ValidTripTransitions
    <3>3. PICK to \in Lifecycle!TripStatus : to = new.status
      BY <3>1
    <3>4. Lifecycle!Move(t, to)
      BY <2>1, <2>3, <2>4, <2>7, <3>2, <3>3 DEF Lifecycle!Move
    <3>5. Unpaid'
      BY <1>2, <3>1 DEF Unpaid
    <3> QED
      BY <3>4, <3>5 DEF Lifecycle!Next
  <2>8. CASE /\ old.status \in Over /\ new.status = "completed"
             /\ new.driver = old.driver
    <3>1. old.status = "completed"
      BY <2>8 DEF Unpaid, Over
    <3>2. st' = st /\ dr' = dr
      BY <2>1, <2>3, <2>4, <2>8, <3>1
    <3> QED
      BY <1>2, <2>8, <3>2 DEF Unpaid, Lifecycle!vars
  <2> QED
    BY <1>2, <2>5, <2>6, <2>7, <2>8 DEF RowMoves
<1> QED
  BY <1>1, <1>2 DEF TripsMove

\* The ride service implements the life cycle: whatever its handlers have read
\* before they write, the trips table takes only documented transitions and
\* every trip gets its driver once, on leaving "searching".
THEOREM RideRefinesLifecycle == RideSpec => ImplementsLifecycle
<1>1. RideInit => Unpaid /\ Lifecycle!Init
  BY DEF RideInit, TripTableInit, NoTrip, Unpaid, Lifecycle!Init
<1>2. RideInv /\ Unpaid /\ [RideNext]_rideVars
        => Unpaid' /\ [Lifecycle!Next]_(Lifecycle!vars)
  <2> SUFFICES ASSUME RideInv, Unpaid, [RideNext]_rideVars
               PROVE  Unpaid' /\ [Lifecycle!Next]_(Lifecycle!vars)
    OBVIOUS
  <2>1. TripsMove
    BY RideNextMoves DEF rideVars, TripsMove
  <2> QED
    BY <2>1, LifecycleStep
<1> QED
  BY <1>1, <1>2, RideInvariant, PTL DEF RideSpec, ImplementsLifecycle,
     Lifecycle!Spec
================================================================================
