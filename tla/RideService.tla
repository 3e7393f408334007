------------------------------ MODULE RideService ------------------------------
(***************************************************************************)
(* The ride service: RideService and DriverService with the repositories   *)
(* under them.  A request is a slot r of RideReqs that is running a        *)
(* handler; its pc names the next await of that handler, and its other     *)
(* fields are what the handler has read so far.  Handlers interleave at    *)
(* every await, so two requests may act on rows that changed after they    *)
(* were read.  A request that is refused before it writes anything leaves  *)
(* no trace, so its refusal is the guard of the action that starts it.     *)
(***************************************************************************)
EXTENDS TripTable, EventBus

CONSTANTS RideReqs,    \* bound: requests the service may be running at once
          Moderated,   \* bound: drivers whose approval changes during a run
          Crashes      \* may a handler die at an await (restart, lost database)?

ASSUME RideServiceAssumption == Crashes \in BOOLEAN /\ Moderated \subseteq Drivers

VARIABLES drivers,     \* drivers[d]: the columns of d's row that are tested
          rideReqs     \* rideReqs[r]: the handler running in slot r

rideVars == <<trips, tripEvents, published, drivers, rideReqs>>

RideType == {"fixed", "meter", "offer"}

\* The body of POST /rides, reduced to what createRide tests and stores.  The
\* offered price is any number: @IsNumber() has no @Min beside it.
RideDto == [rideType : RideType, destination : BOOLEAN,
            offered : Offers \cup {Null}]

RidePc == {"idle",
           "create.update", "create.publish", "cancel.update", "accept.update",
           "advance.update", "advance.event", "advance.price",
           "patch.update", "patch.event", "publish",
           "online.update", "offline.update"}

RideRequest == [pc     : RidePc,
                trip   : TripIds \cup {Null},
                driver : Drivers \cup {Null},
                from   : TripStatus \cup {Null},
                to     : TripStatus \cup {Null},
                price  : Price]

IdleRide == [pc |-> "idle", trip |-> Null, driver |-> Null,
             from |-> Null, to |-> Null, price |-> Null]

DriverRow == [approved : BOOLEAN, online : BOOLEAN]

RideInit == /\ TripTableInit
            /\ published = {}
            /\ drivers = [d \in Drivers |-> [approved |-> d \notin Moderated,
                                        online |-> FALSE]]
            /\ rideReqs = [r \in RideReqs |-> IdleRide]

-------------------------------------------------------------------------------
\* Slots: a handler begins, goes on to its next await, or ends.

Begin(r, pc, t, d, from, to) ==
  /\ rideReqs[r].pc = "idle"
  /\ rideReqs' = [rideReqs EXCEPT ![r] =
                    [IdleRide EXCEPT !.pc = pc, !.trip = t, !.driver = d,
                                     !.from = from, !.to = to]]

At(r, pc) == rideReqs[r].pc = pc

Goto(r, pc) == rideReqs' = [rideReqs EXCEPT ![r].pc = pc]

End(r) == rideReqs' = [rideReqs EXCEPT ![r] = IdleRide]

\* The handler's statement matched no row: it throws, and the client is told.
Refuse(r) == End(r) /\ UNCHANGED <<trips, tripEvents, published, drivers>>

-------------------------------------------------------------------------------
\* POST /rides

\* Math.round(total * 0.5) and Math.round(total * 3.0)
MinOffer(total) == (total + 1) \div 2
MaxOffer(total) == total * 3

\* estimate() checks an offered price only when one is given, and 0 is falsy;
\* the one a fixed or meter ride carries is stored as it came.
OfferInRange(dto, total) ==
  (dto.rideType = "offer" /\ dto.offered \notin {Null, 0})
     => dto.offered \in MinOffer(total) .. MaxOffer(total)

\* The destination check, the estimate and the INSERT.
CreateRide(r, p, dto, total) ==
  /\ dto.rideType \in {"fixed", "offer"} => dto.destination
  /\ OfferInRange(dto, total)
  /\ \E t \in TripIds :
       /\ InsertTrip(t, p, IF dto.rideType = "fixed" THEN total ELSE Null,
                     dto.offered)
       /\ Begin(r, "create.update", t, Null, "requested", "searching")
  /\ UNCHANGED <<published, drivers>>

\* (faulty variant) createRide without its call of updateStatus
StartSearchOmitted(r) ==
  /\ At(r, "create.update")
  /\ Goto(r, "create.publish")
  /\ UNCHANGED <<trips, tripEvents, published, drivers>>

\* updateStatus(requested -> searching), a transaction of its own.
StartSearch(r) ==
  LET q == rideReqs[r] IN
  /\ At(r, "create.update")
  /\ \/ /\ UpdateStatus(q.trip, q.from, q.to)
        /\ Goto(r, "create.publish")
        /\ UNCHANGED <<published, drivers>>
     \/ ~HasStatus(q.trip, q.from) /\ Refuse(r)

\* findNearbyDrivers and the publication of the offer.
OfferTrip(r) ==
  /\ At(r, "create.publish")
  /\ Publish("ride", Event("trip.requested", rideReqs[r].trip, Null, Null))
  /\ End(r)
  /\ UNCHANGED <<trips, tripEvents, drivers>>

-------------------------------------------------------------------------------
\* PATCH /rides/:id/cancel

\* findById and the state machine's check.
CancelTrip(r, t) ==
  /\ CanTransition(trips[t].status, "cancelled")
  /\ Begin(r, "cancel.update", t, Null, trips[t].status, "cancelled")
  /\ UNCHANGED <<trips, tripEvents, published, drivers>>

CommitCancel(r) ==
  LET q == rideReqs[r] IN
  /\ At(r, "cancel.update")
  /\ \/ /\ UpdateStatus(q.trip, q.from, q.to)
        /\ Goto(r, "publish")
        /\ UNCHANGED <<published, drivers>>
     \/ ~HasStatus(q.trip, q.from) /\ Refuse(r)

-------------------------------------------------------------------------------
\* POST /drivers/trips/:id/respond

DeclineOffer(d, t) ==
  /\ drivers[d].online
  /\ Publish("ride", Event("trip.offer_declined", t, Null, Null))
  /\ UNCHANGED <<trips, tripEvents, drivers, rideReqs>>

\* The driver row is read; only is_online is tested.
AcceptOffer(r, d, t) ==
  /\ drivers[d].online
  /\ Begin(r, "accept.update", t, d, "searching", "driver_assigned")
  /\ UNCHANGED <<trips, tripEvents, published, drivers>>

CommitAccept(r) ==
  LET q == rideReqs[r] IN
  /\ At(r, "accept.update")
  /\ \/ /\ AcceptTrip(q.trip, q.driver)
        /\ Goto(r, "publish")
        /\ UNCHANGED <<published, drivers>>
     \/ ~CanAccept(q.trip) /\ Refuse(r)

-------------------------------------------------------------------------------
\* PATCH /drivers/trips/:id/advance and PATCH /drivers/trips/:id/status

\* advanceTripStatus up to its first write.
AdvanceTrip(r, d, t) ==
  /\ IsActiveTrip(d, t)
  /\ \E to \in TripStatus :
       /\ <<trips[t].status, to>> \in DriverTransitions
       /\ CanTransition(trips[t].status, to)
       /\ Begin(r, "advance.update", t, d, trips[t].status, to)
  /\ UNCHANGED <<trips, tripEvents, published, drivers>>

\* updateTripStatus up to its first write: any target the state machine allows.
PatchTripStatus(r, d, t, target) ==
  /\ IsActiveTrip(d, t)
  /\ CanTransition(trips[t].status, target)
  /\ Begin(r, "patch.update", t, d, trips[t].status, target)
  /\ UNCHANGED <<trips, tripEvents, published, drivers>>

\* (faulty variant) a sentinel for the missing price
AgreedPriceSentinel(t) ==
  Coalesce(trips[t].final,
           Coalesce(trips[t].fixed, Coalesce(trips[t].offered, 0 - 1)))

\* final ?? fixed ?? offered ?? 0, from the row RETURNING gave back
AgreedPrice(t) ==
  Coalesce(trips[t].final,
           Coalesce(trips[t].fixed, Coalesce(trips[t].offered, 0)))

CommitMove(r, update, event) ==
  LET q == rideReqs[r] IN
  /\ At(r, update)
  /\ \/ /\ UpdateTripStatus(q.trip, q.driver, q.from, q.to)
        /\ rideReqs' = [rideReqs EXCEPT ![r] =
                         [@ EXCEPT !.pc = event, !.price = AgreedPrice(q.trip)]]
        /\ UNCHANGED <<published, drivers>>
     \/ ~OwnedWithStatus(q.trip, q.driver, q.from) /\ Refuse(r)

CommitAdvance(r) == CommitMove(r, "advance.update", "advance.event")
CommitPatch(r)   == CommitMove(r, "patch.update", "patch.event")

RecordAdvance(r) ==
  LET q == rideReqs[r] IN
  /\ At(r, "advance.event")
  /\ InsertTripEvent(q.trip, q.from, q.to)
  /\ Goto(r, IF q.to = "completed" THEN "advance.price" ELSE "publish")
  /\ UNCHANGED <<trips, published, drivers>>

RecordPatch(r) ==
  LET q == rideReqs[r] IN
  /\ At(r, "patch.event")
  /\ InsertTripEvent(q.trip, q.from, q.to)
  /\ Goto(r, "publish")
  /\ UNCHANGED <<trips, published, drivers>>

\* The completion branch's own UPDATE.
PriceTrip(r) ==
  LET q == rideReqs[r] IN
  /\ At(r, "advance.price")
  /\ SetFinalPrice(q.trip, q.price)
  /\ Goto(r, "publish")
  /\ UNCHANGED <<published, drivers>>

\* The publish that ends cancel, accept, advance and patch.
PublishStatus(r) ==
  LET q == rideReqs[r] IN
  /\ At(r, "publish")
  /\ Publish("ride", Event("trip.status_changed", q.trip, q.from, q.to))
  /\ End(r)
  /\ UNCHANGED <<trips, tripEvents, drivers>>

-------------------------------------------------------------------------------
\* PATCH /drivers/status: the approval is read, then is_online is written.

SetOnlineStatus(r, d, isOnline) ==
  /\ drivers[d].approved
  /\ Begin(r, IF isOnline THEN "online.update" ELSE "offline.update",
           Null, d, Null, Null)
  /\ UNCHANGED <<trips, tripEvents, published, drivers>>

CommitOnline(r) ==
  /\ rideReqs[r].pc \in {"online.update", "offline.update"}
  /\ drivers' = [drivers EXCEPT ![rideReqs[r].driver].online =
                                  At(r, "online.update")]
  /\ End(r)
  /\ UNCHANGED <<trips, tripEvents, published>>

\* Approval and suspension are written by the back office, outside src/.
ModerateDriver(d) ==
  /\ drivers' = [drivers EXCEPT ![d].approved = ~@]
  /\ UNCHANGED <<trips, tripEvents, published, rideReqs>>

\* The process dies, or a query throws, at the handler's next await.
CrashRide(r) ==
  /\ Crashes
  /\ rideReqs[r].pc # "idle"
  /\ Refuse(r)

-------------------------------------------------------------------------------
\* One more await of the handler in slot r.
RideStep(r) == \/ StartSearch(r)   \/ OfferTrip(r)
               \/ CommitCancel(r)  \/ CommitAccept(r)
               \/ CommitAdvance(r) \/ RecordAdvance(r) \/ PriceTrip(r)
               \/ CommitPatch(r)   \/ RecordPatch(r)
               \/ PublishStatus(r) \/ CommitOnline(r)

\* A client's request arrives.
RideArrival(r) ==
  \/ \E p \in Passengers, dto \in RideDto, total \in Fares :
       CreateRide(r, p, dto, total)
  \/ \E t \in TripIds : CancelTrip(r, t)
  \/ \E d \in Drivers, t \in TripIds :
       \/ Exists(t) /\ AcceptOffer(r, d, t)
       \/ AdvanceTrip(r, d, t)
       \/ \E target \in TripStatus : PatchTripStatus(r, d, t, target)
  \/ \E d \in Drivers, isOnline \in BOOLEAN : SetOnlineStatus(r, d, isOnline)

RideNext ==
  \/ \E r \in RideReqs : RideArrival(r) \/ RideStep(r) \/ CrashRide(r)
  \/ \E d \in Drivers, t \in TripIds : Exists(t) /\ DeclineOffer(d, t)
  \/ \E d \in Moderated : ModerateDriver(d)

RideSpec == RideInit /\ [][RideNext]_rideVars

\* Node's event loop resumes every handler whose query has been answered.
RideFairness == \A r \in RideReqs : WF_rideVars(RideStep(r))

FairRideSpec == RideSpec /\ RideFairness

-------------------------------------------------------------------------------
(***************************************************************************)
(* Properties                                                              *)
(***************************************************************************)

\* The columns and the handlers' local variables keep their types.  A price is
\* a total that was calculated, a number that was offered (a meter ride's may
\* be negative), 0 for a trip that has neither, or NULL; never anything else.
RideTypeOK ==
  /\ trips \in [TripIds -> TripRow]
  /\ tripEvents \in [TripIds -> Seq(TripEvent)]
  /\ drivers \in [Drivers -> DriverRow]
  /\ rideReqs \in [RideReqs -> RideRequest]

Lifecycle == INSTANCE TripLifecycle
  WITH Trips  <- TripIds,
       status <- [t \in TripIds |-> trips[t].status],
       driver <- [t \in TripIds |-> trips[t].driver]

\* Whatever the requests in flight have read before they write, the trips
\* table only ever takes documented transitions, and gets its driver once:
\* concurrent accepts, cancels, advances and patches cannot combine into a
\* status change VALID_TRIP_TRANSITIONS does not list, and the completing
\* advance's unconditional second UPDATE is a stutter of the life cycle.
ImplementsLifecycle == Lifecycle!Spec

\* No transition is recorded twice: of the requests that raced for a status
\* one committed and the others wrote no trip_events row.
TransitionAuditedOnce ==
  \A t \in TripIds : \A i, j \in DOMAIN tripEvents[t] :
    tripEvents[t][i].to = tripEvents[t][j].to => i = j

\* A trip.status_changed event is published only after its transition is
\* committed and audited, whatever happened to the trip in between.
PublishedIsAudited ==
  \A e \in published :
    e.type = "trip.status_changed" =>
      \E i \in DOMAIN tripEvents[e.trip] :
        tripEvents[e.trip][i] = [from |-> e.from, to |-> e.to]

\* trip_events is the audit trail of the trip's status: once no handler is
\* working on a trip, its rows lead from "requested" to the current status
\* without a gap.  (A handler that dies between its UPDATE and its INSERT
\* leaves one, so this is checked without crashes.)
NoHandlerOn(t) == \A r \in RideReqs : rideReqs[r].trip # t

AuditTrailComplete ==
  \A t \in TripIds : Exists(t) /\ NoHandlerOn(t) =>
    LET reached == {"requested"} \cup
                   {tripEvents[t][i].to : i \in DOMAIN tripEvents[t]}
    IN  /\ trips[t].status \in reached
        /\ \A i \in DOMAIN tripEvents[t] : tripEvents[t][i].from \in reached

\* A ride that was advanced to completion has a fare, the one the passenger
\* is to pay, whatever its ride type (README.md, "Ride Models").
CompletedHasFare ==
  \A t \in TripIds :
    trips[t].status = "completed" /\ trips[t].final # Null /\ NoHandlerOn(t)
      => trips[t].final > 0

\* A trip does not stay "requested": the handler that created it goes on to
\* "searching" (or finds the trip cancelled), unless the process dies.
RequestedIsSearched ==
  \A t \in TripIds :
    trips[t].status = "requested" ~> trips[t].status # "requested"
===============================================================================
