-------------------------------- MODULE Realtime --------------------------------
(***************************************************************************)
(* What a client is told: the gateway's RealtimeEventBridge and            *)
(* TripsGateway and the payment service's PaymentEventListener, fed by the *)
(* location service and by the status changes of the trips, next to the    *)
(* notification service on the same events.  Of the ride and payment       *)
(* services only what they announce is here: a status is committed and     *)
(* announced by another step, so that two handlers may announce in the     *)
(* other order (modules RideService and PaymentService have the handlers). *)
(***************************************************************************)
EXTENDS Location, Notification, TripStateMachine, FiniteSets

CONSTANTS Trips, PassengerOf, UserOf,   \* the accounts of trips and drivers
          Sockets,       \* bound: clients with a socket
          FirstStatus,   \* the status of the trips to begin with
          RadiusKm,      \* DRIVER_SEARCH_RADIUS_M
          Budgets        \* bounds: how much happens in a behaviour, by kind

ASSUME RealtimeAssumption ==
  /\ PassengerOf \in [Trips -> Users] /\ UserOf \in [Drivers -> Users]
  /\ FirstStatus \in TripStatus /\ RadiusKm \in Nat
  /\ Nowhere \notin Users
  /\ Trips \cap Users = {}    \* rooms are called trip:... and driver:...
  /\ Budgets \subseteq [{"moves", "rides", "kyc", "reports", "joins", "breaks",
                         "devices"} -> Nat]

VARIABLES status,        \* status[t]: trips.status
          due,           \* due[t]: statuses committed and not yet announced
          online,        \* drivers.is_online, of approved drivers
          sockets,       \* sockets[c]: the account and rooms of a connection
          screen,        \* screen[c]: trip:status messages c got, in order
          offers,        \* offers[c]: driver:new_ride messages c got: the trip, and
                         \* the account that used c (history)
          map,           \* map[c][d]: where c last saw d
          left           \* what is left of the budget

rideVars == <<status, due, online>>
gatewayVars == <<sockets, screen, offers, map>>
rtVars == <<published, queues, locVars, notifyVars, rideVars, gatewayVars, left>>

Spend(kind) == /\ left[kind] > 0
               /\ left' = [left EXCEPT ![kind] = @ - 1]

Offline == [user |-> Nowhere, rooms |-> {}]

RtInit == /\ published = {} /\ QueuesInit /\ LocInit /\ NotifyInit
          /\ status = [t \in Trips |-> FirstStatus]
          /\ due = [t \in Trips |-> {}]
          /\ online = [d \in Drivers |-> FALSE]
          /\ sockets = [c \in Sockets |-> Offline]
          /\ screen = [c \in Sockets |-> <<>>]
          /\ offers = [c \in Sockets |-> {}]
          /\ map = [c \in Sockets |-> [d \in Drivers |-> Nowhere]]
          /\ left \in Budgets

-------------------------------------------------------------------------------
\* What the other services announce

StatusEvent(t, to) == [type |-> "trip.status_changed", trip |-> t,
                       user |-> PassengerOf[t], to |-> to]
PaidEvent(t) == [type |-> "payment.completed", trip |-> t, user |-> PassengerOf[t]]
\* BaseEvent.timestamp tells two verifications of one user apart; here it is
\* what was left of the budget.
VerifiedEvent(u) == [type |-> "identity.verified", user |-> u, at |-> left["kyc"]]

\* What the ride service announces: accepting, advancing and cancelling.
AcceptAndAdvance == {<<"searching", "driver_assigned">>} \cup DriverTransitions

\* A status is committed, by the ride service or, from completed to paid, by
\* the payment service.
MoveTrip(t, to) ==
  /\ Spend("moves")
  /\ \/ <<status[t], to>> \in AcceptAndAdvance
     \/ to = "cancelled" /\ CanTransition(status[t], to)
     \/ to = "paid" /\ status[t] = "completed"
  /\ status' = [status EXCEPT ![t] = to]
  /\ due' = [due EXCEPT ![t] = @ \cup {to}]
  /\ UNCHANGED <<published, queues, locVars, notifyVars, online, gatewayVars>>

Announce(t, to) ==
  /\ to \in due[t]
  /\ due' = [due EXCEPT ![t] = @ \ {to}]
  /\ IF to = "paid" THEN Send("payment", PaidEvent(t))
                    ELSE Send("ride", StatusEvent(t, to))
  /\ UNCHANGED <<locVars, notifyVars, status, online, gatewayVars, left>>

VerifyIdentity(u) ==
  /\ Spend("kyc")
  /\ Send("identity", VerifiedEvent(u))
  /\ UNCHANGED <<locVars, notifyVars, rideVars, gatewayVars>>

\* PATCH /drivers/status
SetOnlineStatus(d) ==
  /\ Spend("rides")
  /\ online' = [online EXCEPT ![d] = ~@]
  /\ UNCHANGED <<published, queues, locVars, notifyVars, status, due, gatewayVars>>

\* DriverMatchingService: of one category; more than 20 are cut off.
NearbyDrivers(pickup) ==
  {d \in Drivers : online[d] /\ places[d] # Nowhere /\ Km[places[d], pickup] <= RadiusKm}

\* The end of createRide, for a trip that has just been inserted.
RequestTrip(t, pickup) ==
  /\ Spend("rides")
  /\ \A e \in published : e.type = "trip.requested" => e.trip # t
  /\ Send("ride", [type |-> "trip.requested", trip |-> t,
                   drivers |-> {UserOf[d] : d \in NearbyDrivers(pickup)}])
  /\ UNCHANGED <<locVars, notifyVars, rideVars, gatewayVars>>

-------------------------------------------------------------------------------
\* PaymentEventListener: a completed trip is announced once more, under the
\* next status.
AnnounceProcessing(s, i) ==
  LET event == queues[s][i] IN
  /\ s = <<"payment", "trip.status_changed">> /\ Ready(i)
  /\ IF event.to = "completed"
       THEN LET next == StatusEvent(event.trip, "payment_processing")
            IN  /\ Publish("payment", next)
                /\ queues' = Routed(Without(queues, s, i), "payment", next)
       ELSE queues' = Without(queues, s, i) /\ UNCHANGED published
  /\ UNCHANGED <<locVars, notifyVars, rideVars, gatewayVars, left>>

RestartPayment ==
  /\ Spend("breaks")
  /\ queues' = Emptied("payment")
  /\ UNCHANGED <<published, locVars, notifyVars, rideVars, gatewayVars>>

-------------------------------------------------------------------------------
\* TripsGateway

\* (faulty variant) one room for the drivers, and the roles not looked at
ConnectUnchecked(c, u) ==
  /\ Spend("joins")
  /\ sockets[c] = Offline
  /\ sockets' = [sockets EXCEPT ![c] =
       [user |-> u, rooms |-> {UserOf[d] : d \in Drivers}]]
  /\ map' = [map EXCEPT ![c] = [d \in Drivers |-> Nowhere]]
  /\ UNCHANGED <<published, queues, locVars, notifyVars, rideVars, screen, offers>>

\* handleConnection with a good token; a driver joins a room of his own.  The
\* client starts with an empty map.
Connect(c, u) ==
  /\ Spend("joins")
  /\ sockets[c] = Offline
  /\ sockets' = [sockets EXCEPT ![c] =
       [user |-> u, rooms |-> {UserOf[d] : d \in Drivers} \cap {u}]]
  /\ map' = [map EXCEPT ![c] = [d \in Drivers |-> Nowhere]]
  /\ UNCHANGED <<published, queues, locVars, notifyVars, rideVars, screen, offers>>

Disconnect(c) ==
  /\ Spend("joins")
  /\ sockets[c] # Offline
  /\ sockets' = [sockets EXCEPT ![c] = Offline]
  /\ UNCHANGED <<published, queues, locVars, notifyVars, rideVars, screen, offers, map>>

\* trip:join and trip:leave, of any trip by anybody
JoinTrip(c, t) ==
  /\ Spend("joins")
  /\ sockets[c] # Offline
  /\ sockets' = [sockets EXCEPT ![c].rooms = @ \cup {t}]
  /\ UNCHANGED <<published, queues, locVars, notifyVars, rideVars, screen, offers, map>>

LeaveTrip(c, t) ==
  /\ Spend("joins")
  /\ t \in sockets[c].rooms
  /\ sockets' = [sockets EXCEPT ![c].rooms = @ \ {t}]
  /\ UNCHANGED <<published, queues, locVars, notifyVars, rideVars, screen, offers, map>>

\* RealtimeEventBridge: a handler emits in the turn that takes the message.
Take(s, i) == /\ Ready(i) /\ queues' = Without(queues, s, i)
              /\ UNCHANGED <<published, locVars, notifyVars, rideVars, sockets, left>>

\* emitTripStatus: to the trip's room
ShowStatus(s, i) ==
  LET event == queues[s][i] IN
  /\ s = <<"gateway", "trip.status_changed">> /\ Take(s, i)
  /\ screen' = [c \in Sockets |->
                  IF event.trip \in sockets[c].rooms
                    THEN Append(screen[c], <<event.trip, event.to>>) ELSE screen[c]]
  /\ UNCHANGED <<offers, map>>

\* emitRideOffer: to the room of each driver that was found
ShowOffer(s, i) ==
  LET event == queues[s][i] IN
  /\ s = <<"gateway", "trip.requested">> /\ Take(s, i)
  /\ offers' = [c \in Sockets |->
                  IF event.drivers \cap sockets[c].rooms # {}
                    THEN offers[c] \cup {<<event.trip, sockets[c].user>>}
                    ELSE offers[c]]
  /\ UNCHANGED <<screen, map>>

\* broadcastDriverLocation: to everybody
ShowLocation(s, i) ==
  LET event == queues[s][i] IN
  /\ s = <<"gateway", "driver.location_updated">> /\ Take(s, i)
  /\ map' = [c \in Sockets |->
               IF sockets[c] # Offline
                 THEN [map[c] EXCEPT ![event.driver] = event.place] ELSE map[c]]
  /\ UNCHANGED <<screen, offers>>

RestartGateway ==
  /\ Spend("breaks")
  /\ queues' = Emptied("gateway")
  /\ sockets' = [c \in Sockets |-> Offline]
  /\ UNCHANGED <<published, locVars, notifyVars, rideVars, screen, offers, map>>

GatewayStep == \E s \in Subscriptions : \E i \in DOMAIN queues[s] :
                 ShowStatus(s, i) \/ ShowOffer(s, i) \/ ShowLocation(s, i)
GatewayArrival ==
  \E c \in Sockets : \/ \E u \in Users : Connect(c, u)
                     \/ \E t \in Trips : JoinTrip(c, t) \/ LeaveTrip(c, t)
                     \/ Disconnect(c)

-------------------------------------------------------------------------------
RideNext ==
  \/ \E t \in Trips, to \in TripStatus : MoveTrip(t, to) \/ Announce(t, to)
  \/ \E u \in Users : VerifyIdentity(u)
  \/ \E d \in Drivers : SetOnlineStatus(d)
  \/ \E t \in Trips, pickup \in Places : RequestTrip(t, pickup)

LocNext ==
  /\ \/ \E r \in LocReqs :
          \/ \E d \in Drivers, place \in Places, seconds \in Intervals :
               Spend("reports") /\ ReportLocation(r, d, place, seconds)
          \/ LocStep(r) /\ UNCHANGED left
          \/ Spend("breaks") /\ FailReport(r)
     \/ Spend("breaks") /\ RestartLocation
  /\ UNCHANGED <<notifyVars, rideVars, gatewayVars>>

Notify == NotifyStep /\ UNCHANGED <<locVars, rideVars, gatewayVars, left>>

NotifyNext ==
  \/ Notify
  \/ /\ \/ /\ Spend("devices")
           /\ \E u \in Users : \/ \E token \in DeviceTokens : RegisterDevice(u, token)
                               \/ \E i \in DOMAIN notifications : MarkRead(u, i)
        \/ /\ Spend("breaks")
           /\ RestartNotification \/ \E d \in deliveries : FailDelivery(d)
     /\ UNCHANGED <<locVars, rideVars, gatewayVars>>

PaymentNext == \/ \E s \in Subscriptions : \E i \in DOMAIN queues[s] :
                    AnnounceProcessing(s, i)
               \/ RestartPayment

GatewayNext == GatewayStep \/ GatewayArrival \/ RestartGateway

RtNext == RideNext \/ LocNext \/ NotifyNext \/ PaymentNext \/ GatewayNext

\* The event loop of a process that runs gets to every message and every
\* answer of the database.
RtSpec == RtInit /\ [][RtNext]_rtVars /\ WF_rtVars(Notify)

-------------------------------------------------------------------------------
(***************************************************************************)
(* Properties                                                              *)
(***************************************************************************)

\* The tables, the queues and what the clients hold keep their types.
RealtimeTypeOK ==
  /\ \A s \in Subscriptions : \A i \in DOMAIN queues[s] :
       queues[s][i].type = s[2] /\ queues[s][i] \in published
  /\ places \in [Drivers -> Places \cup {Nowhere}]
  /\ alerts \subseteq Drivers \X Places /\ disturbed \subseteq Drivers
  /\ \A i \in DOMAIN notifications : notifications[i].read \in BOOLEAN
  /\ devices \subseteq Users \X DeviceTokens
  /\ pushed \subseteq (DOMAIN notifications) \X devices
  /\ status \in [Trips -> TripStatus] /\ due \in [Trips -> SUBSET TripStatus]
  /\ sockets \in [Sockets -> [user  : Users \cup {Nowhere},
                               rooms : SUBSET (Trips \cup Users)]]
  /\ map \in [Sockets -> [Drivers -> Places \cup {Nowhere}]]

\* No user is notified twice of one event, whatever fails between the INSERT
\* of the notification, the push and the acknowledgement of the message.
NotifiedOnce ==
  \A i, j \in DOMAIN notifications :
    notifications[i].event = notifications[j].event => i = j

\* A ride is offered only to drivers whom the search for that ride found,
\* though a client may have changed accounts between the search and the offer.
OffersReachFoundDrivers ==
  \A c \in Sockets : \A offer \in offers[c] :
    \E e \in published : /\ e.type = "trip.requested" /\ e.trip = offer[1]
                         /\ offer[2] \in e.drivers

\* A client that was told that a trip is being paid for is never told after
\* that that it is completed, though two services announce the two statuses.
ScreenNeverGoesBack ==
  \A c \in Sockets : \A i, j \in DOMAIN screen[c] :
    /\ screen[c][i][2] = "payment_processing"
    /\ screen[c][j] = <<screen[c][i][1], "completed">>
    => j < i

\* When nothing is under way for a driver, a connected client that sees him
\* sees him where the drivers table, and so the search for drivers, has him,
\* unless two of his reports overlapped or a crash cut one off.
NothingUnderWay(d) ==
  /\ \A r \in LocReqs : locReqs[r].driver # d
  /\ LET q == queues[<<"gateway", "driver.location_updated">>]
     IN  \A i \in DOMAIN q : q[i].driver # d

MapShowsStored ==
  \A c \in Sockets, d \in Drivers :
    /\ NothingUnderWay(d) /\ d \notin disturbed
    /\ sockets[c] # Offline /\ map[c][d] # Nowhere
    => map[c][d] = places[d]

\* A status the ride service announced is saved for the passenger in the end,
\* unless a query failed or the notification service was started again.
StatusIsNotified ==
  \A t \in Trips, to \in {p[2] : p \in AcceptAndAdvance} \cup {"cancelled"} :
    StatusEvent(t, to) \in published ~>
      \/ \E i \in DOMAIN notifications : notifications[i].event = StatusEvent(t, to)
      \/ StatusEvent(t, to) \in dropped
===============================================================================
