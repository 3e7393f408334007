----------------------------- MODULE RealtimeProofs -----------------------------
(***************************************************************************)
(* Proofs about what clients and users are told, for any number of trips,  *)
(* users, drivers, sockets and reports, and any budget of failures.        *)
(*                                                                         *)
(* None of the promises speaks of what is still on its way.  The invariant *)
(* follows an event from the commit it announces through the queue and the *)
(* handler to the client, and says at each stage what is not there any     *)
(* more: that is what keeps an event from arriving twice or out of order.  *)
(***************************************************************************)
EXTENDS Realtime, SequenceTheorems, TLAPS

\* The queues the promises depend on.
StatusQueue   == <<"gateway", "trip.status_changed">>
LocationQueue == <<"gateway", "driver.location_updated">>
Notifying(s)  == s[1] = "notification"

-------------------------------------------------------------------------------
\* The inductive invariant: types

\* What the services publish.
EventOK(e) ==
  \/ \E t \in Trips, to \in TripStatus : e = StatusEvent(t, to)
  \/ \E t \in Trips : e = PaidEvent(t)
  \/ \E u \in Users, n \in Nat :
       e = [type |-> "identity.verified", user |-> u, at |-> n]
  \/ \E d \in Drivers, place \in Places : e = LocationEvent(d, place)
  \/ \E t \in Trips, found \in SUBSET Users :
       e = [type |-> "trip.requested", trip |-> t, drivers |-> found]

BusOK ==
  /\ \A e \in published : EventOK(e)
  /\ queues \in [Subscriptions -> Seq(published)]
  /\ \A s \in Subscriptions : \A i \in DOMAIN queues[s] : queues[s][i].type = s[2]

Report == [pc         : {"idle", "alert", "update", "publish"},
           driver     : Drivers \cup {Nowhere},
           place      : Places \cup {Nowhere},
           overlapped : BOOLEAN]

LocOK ==
  /\ places \in [Drivers -> Places \cup {Nowhere}]
  /\ locReqs \in [LocReqs -> Report]
  /\ \A r \in LocReqs : IF ReportAt(r, "idle")
                          THEN locReqs[r] = IdleReport
                          ELSE locReqs[r].driver \in Drivers /\ locReqs[r].place \in Places
  /\ alerts \subseteq Drivers \X Places /\ disturbed \subseteq Drivers

NotifyOK ==
  /\ notifications \in Seq([event : published, read : BOOLEAN])
  /\ devices \subseteq Users \X DeviceTokens
  /\ pushed \subseteq (DOMAIN notifications) \X devices
  /\ deliveries \subseteq [pc : {"save", "push"}, event : published, id : Nat]
  /\ \A d \in deliveries : d.pc = "push" => d.id \in DOMAIN notifications

TripsOK ==
  /\ status \in [Trips -> TripStatus]
  /\ due \in [Trips -> SUBSET TripStatus]
  /\ left \in [{"moves", "rides", "kyc", "reports", "joins", "breaks", "devices"} -> Nat]

\* A socket is in no driver's room but its own account's.
GatewayOK ==
  /\ sockets \in [Sockets -> [user : Users \cup {Nowhere}, rooms : SUBSET (Trips \cup Users)]]
  /\ \A c \in Sockets : /\ sockets[c].rooms \subseteq Trips \cup {sockets[c].user}
                        /\ sockets[c].user = Nowhere => sockets[c].rooms = {}
  /\ screen \in [Sockets -> Seq(Trips \X TripStatus)]
  /\ offers \in [Sockets -> SUBSET (Trips \X Users)]
  /\ map \in [Sockets -> [Drivers -> Places \cup {Nowhere}]]

TypesOK == BusOK /\ LocOK /\ NotifyOK /\ TripsOK /\ GatewayOK

-------------------------------------------------------------------------------
\* The inductive invariant: nothing is announced twice

\* The order in which a trip goes through its statuses.
Rank(s) == CASE s = "requested"       -> 0  [] s = "searching"          -> 1
             [] s = "driver_assigned" -> 2  [] s = "driver_arriving"    -> 3
             [] s = "picked_up"       -> 4  [] s = "in_progress"        -> 5
             [] s = "completed"       -> 6  [] s = "payment_processing" -> 7
             [] s = "paid"            -> 8  [] s = "rated"              -> 9
             [] s = "cancelled"       -> 10

\* A status is announced once it was committed, and then it is not due again.
StatusesAnnounced ==
  \A t \in Trips, to \in TripStatus \ {"payment_processing"} :
    StatusEvent(t, to) \in published => Rank(to) <= Rank(status[t]) /\ to \notin due[t]

AnnouncedOnce ==
  /\ \A t \in Trips : \A to \in due[t] :
       to # "payment_processing" /\ Rank(to) <= Rank(status[t])
  /\ StatusesAnnounced
  /\ \A t \in Trips : PaidEvent(t) \in published =>
       Rank("paid") <= Rank(status[t]) /\ "paid" \notin due[t]
  /\ \A e \in published : e.type = "identity.verified" => e.at > left["kyc"]

\* An event with a message is in one place: in the queue once, or with one
\* handler that has not yet saved it, or saved.
QueuedOnce ==
  \A s \in Subscriptions : Notifying(s) =>
    \A i \in DOMAIN queues[s] : HasMessage(queues[s][i]) =>
      /\ \A j \in DOMAIN queues[s] : queues[s][j] = queues[s][i] => j = i
      /\ \A d \in deliveries : d.event # queues[s][i]
      /\ \A n \in DOMAIN notifications : notifications[n].event # queues[s][i]

HandledOnce ==
  /\ \A d, f \in deliveries : d.event = f.event => d = f
  /\ \A d \in deliveries : d.pc = "save" =>
       \A n \in DOMAIN notifications : notifications[n].event # d.event

NotifyInv == QueuedOnce /\ HandledOnce /\ NotifiedOnce

-------------------------------------------------------------------------------
\* The inductive invariant: what clients see

CompletedEvent(t)  == StatusEvent(t, "completed")
ProcessingEvent(t) == StatusEvent(t, "payment_processing")

\* That a trip is being paid for is announced behind its completion, whether
\* that is still queued for the gateway, shown or lost in a restart.
ProcessingFollows ==
  \A t \in Trips : ProcessingEvent(t) \in published =>
    CompletedEvent(t) \in published

ScreenInv ==
  /\ ProcessingFollows
  /\ \A t \in Trips : \A i, j \in DOMAIN queues[StatusQueue] :
       /\ queues[StatusQueue][i] = ProcessingEvent(t)
       /\ queues[StatusQueue][j] = CompletedEvent(t)
       => j < i
  /\ \A c \in Sockets, t \in Trips : \A i \in DOMAIN screen[c] :
       screen[c][i] = <<t, "payment_processing">> =>
         /\ ProcessingEvent(t) \in published
         /\ \A j \in DOMAIN queues[StatusQueue] :
              queues[StatusQueue][j] # CompletedEvent(t)
  /\ ScreenNeverGoesBack

\* Reports of one driver that run together know it; one that runs alone
\* announces what is stored.
ReportsInv ==
  /\ \A r, q \in LocReqs :
       /\ r # q /\ locReqs[r].driver = locReqs[q].driver
       /\ locReqs[r].driver # Nowhere
       => locReqs[r].overlapped
  /\ \A r \in LocReqs :
       ReportAt(r, "publish") /\ ~locReqs[r].overlapped =>
         places[locReqs[r].driver] = locReqs[r].place

\* The drivers of whom all that was stored is announced, in the order stored.
Settled(reqs, troubled) ==
  {d \in Drivers \ troubled :
     \A r \in LocReqs : reqs[r].driver = d => reqs[r].pc # "publish"}

Online(table) == {c \in Sockets : table[c] # Offline}

\* The last announcement that the queue q has of a settled driver, or the map
\* of a client when it has none, has the place that is stored.
LastOf(q, i) == \A j \in DOMAIN q : j > i => q[j].driver # q[i].driver
Nobody(q, d) == \A i \in DOMAIN q : q[i].driver # d

MapOK(q, stored, settled, clients, seen) ==
  /\ ~({"location", "gateway"} \subseteq Connected) =>
       q = <<>> /\ \A c \in Sockets, d \in Drivers : seen[c][d] = Nowhere
  /\ \A i \in DOMAIN q : LastOf(q, i) /\ q[i].driver \in settled =>
       q[i].place = stored[q[i].driver]
  /\ \A c \in clients, d \in settled :
       Nobody(q, d) /\ seen[c][d] # Nowhere => seen[c][d] = stored[d]

MapInv == MapOK(queues[LocationQueue], places, Settled(locReqs, disturbed),
                Online(sockets), map)

RtInv == /\ TypesOK /\ AnnouncedOnce /\ NotifyInv
         /\ OffersReachFoundDrivers /\ ScreenInv /\ ReportsInv /\ MapInv

-------------------------------------------------------------------------------
\* Queues

\* What is left of a queue whose head was taken.
LEMMA TailElements ==
  ASSUME NEW S, NEW q \in Seq(S), q # <<>>
  PROVE  /\ Tail(q) \in Seq(S) /\ Len(q) \in Nat /\ 1 \in DOMAIN q
         /\ DOMAIN q = 1 .. Len(q) /\ DOMAIN Tail(q) = 1 .. Len(q) - 1
         /\ \A i \in DOMAIN Tail(q) : i + 1 \in DOMAIN q /\ Tail(q)[i] = q[i + 1]
BY HeadTailProperties, LenProperties, EmptySeq

\* What a queue holds after a message was routed to it.
LEMMA AppendElements ==
  ASSUME NEW S, NEW q \in Seq(S), NEW e \in S
  PROVE  /\ Append(q, e) \in Seq(S) /\ Len(q) \in Nat
         /\ DOMAIN q = 1 .. Len(q) /\ DOMAIN Append(q, e) = 1 .. Len(q) + 1
         /\ \A i \in DOMAIN q : Append(q, e)[i] = q[i]
         /\ Append(q, e)[Len(q) + 1] = e
BY AppendProperties, LenProperties

\* The element of a sequence is one of the set it is over.
LEMMA ElementIn ==
  ASSUME NEW S, NEW q \in Seq(S), NEW i \in DOMAIN q
  PROVE  q[i] \in S
BY ElementOfSeq, LenProperties

\* A sequence over a set is one over a larger set.
LEMMA SeqOverMore ==
  ASSUME NEW S, NEW T, S \subseteq T, NEW q \in Seq(S)
  PROVE  q \in Seq(T)
BY SeqMonotonic

\* Taking the message that is ready leaves the tail.
LEMMA RestIsTail ==
  ASSUME NEW S, NEW q \in Seq(S), q # <<>>
  PROVE  SubSeq(q, 1, 0) \o SubSeq(q, 2, Len(q)) = Tail(q)
<1>1. SubSeq(q, 1, 0) = <<>>
  BY SubSeqEmpty, 1 \in Int, 0 \in Int
<1>2. Tail(q) = SubSeq(q, 2, Len(q)) /\ Tail(q) \in Seq(S)
  BY TailIsSubSeq, HeadTailProperties
<1> QED
  BY <1>1, <1>2, ConcatEmptySeq

\* What the queues are when the head of one was taken.
Takes(q, s, i) ==
  /\ i = 1 /\ queues[s] # <<>> /\ 1 \in DOMAIN queues[s]
  /\ q \in [Subscriptions -> Seq(published)]
  /\ q[s] = Tail(queues[s])
  /\ \A o \in Subscriptions \ {s} : q[o] = queues[o]

LEMMA WithoutTakes ==
  ASSUME BusOK, NEW s \in Subscriptions, NEW i \in DOMAIN queues[s], Ready(i)
  PROVE  Takes(Without(queues, s, i), s, i)
<1> DEFINE q == queues[s]
<1>1. q \in Seq(published) /\ queues \in [Subscriptions -> Seq(published)]
  BY DEF BusOK
<1>2. i = 1
  BY DEF Ready
<1>3. q # <<>>
  BY <1>2, EmptySeq
<1>4. SubSeq(q, 1, i - 1) \o SubSeq(q, i + 1, Len(q)) = Tail(q)
  BY <1>1, <1>2, <1>3, RestIsTail
<1>5. Tail(q) \in Seq(published)
  BY <1>1, <1>3, TailElements
<1>6. Without(queues, s, i) = [queues EXCEPT ![s] = Tail(q)]
  BY <1>4 DEF Without
<1> QED
  BY <1>1, <1>2, <1>3, <1>5, <1>6 DEF Takes

\* An event was handed to the exchange after the queues were q.
Routes(q, service, e) ==
  /\ published \subseteq published' /\ published' \subseteq published \cup {e}
  /\ queues' \in [Subscriptions -> Seq(published')]
  /\ \A s \in Subscriptions :
       IF {service, s[1]} \subseteq Connected /\ s[2] = e.type
         THEN /\ e \in published'
              /\ queues'[s] = Append(q[s], e)
         ELSE queues'[s] = q[s]

\* The queues of one service were emptied.
Empties(service) ==
  /\ queues' \in [Subscriptions -> Seq(published)]
  /\ \A s \in Subscriptions :
       queues'[s] = IF s[1] = service THEN <<>> ELSE queues[s]

\* What holds of the messages of the queues q, when they are of published.
Typed(q) == \A s \in Subscriptions : \A i \in DOMAIN q[s] : q[s][i].type = s[2]

LEMMA RoutedRoutes ==
  ASSUME NEW q \in [Subscriptions -> Seq(published)], NEW service, NEW e,
         Publish(service, e), queues' = Routed(q, service, e)
  PROVE  Routes(q, service, e)
<1>1. /\ published \subseteq published' /\ published' \subseteq published \cup {e}
      /\ service \in Connected => e \in published'
  BY DEF Publish
<1>2. ASSUME NEW s \in Subscriptions
      PROVE  /\ queues'[s] \in Seq(published')
             /\ IF {service, s[1]} \subseteq Connected /\ s[2] = e.type
                  THEN e \in published' /\ queues'[s] = Append(q[s], e)
                  ELSE queues'[s] = q[s]
  <2>1. queues'[s] = IF {service, s[1]} \subseteq Connected /\ s[2] = e.type
                       THEN Append(q[s], e) ELSE q[s]
    BY DEF Routed
  <2>2. q[s] \in Seq(published')
    BY <1>1, SeqOverMore
  <2>3. CASE {service, s[1]} \subseteq Connected /\ s[2] = e.type
    BY <1>1, <2>1, <2>2, <2>3, AppendElements
  <2>4. CASE ~({service, s[1]} \subseteq Connected /\ s[2] = e.type)
    BY <2>1, <2>2, <2>4
  <2> QED
    BY <2>3, <2>4
<1>3. queues' \in [Subscriptions -> Seq(published')]
  BY <1>2 DEF Routed
<1> QED
  BY <1>1, <1>2, <1>3 DEF Routes

\* A routed event keeps the queues typed.
LEMMA RoutesTyped ==
  ASSUME NEW q \in [Subscriptions -> Seq(published)], Typed(q),
         \A f \in published : EventOK(f),
         NEW service, NEW e, EventOK(e), Routes(q, service, e)
  PROVE  BusOK'
<1>1. ASSUME NEW s \in Subscriptions, NEW i \in DOMAIN queues'[s]
      PROVE  queues'[s][i].type = s[2]
  <2>1. CASE queues'[s] = q[s]
    BY <2>1, <1>1 DEF Typed
  <2>2. CASE s[2] = e.type /\ e \in published' /\ queues'[s] = Append(q[s], e)
    <3>1. q[s] \in Seq(published')
      BY SeqOverMore DEF Routes
    <3>2. i = Len(q[s]) + 1 \/ i \in DOMAIN q[s]
      BY <3>1, <2>2, AppendElements
    <3> QED
      BY <3>1, <3>2, <2>2, AppendElements DEF Typed
  <2> QED
    BY <2>1, <2>2 DEF Routes
<1>2. \A f \in published' : EventOK(f)
  BY DEF Routes
<1> QED
  BY <1>1, <1>2 DEF BusOK, Routes

LEMMA SendRoutes ==
  ASSUME BusOK, NEW service, NEW e, EventOK(e), Send(service, e)
  PROVE  Routes(queues, service, e) /\ BusOK'
<1>1. /\ queues \in [Subscriptions -> Seq(published)] /\ Typed(queues)
      /\ \A f \in published : EventOK(f)
  BY DEF BusOK, Typed
<1>2. Routes(queues, service, e)
  BY <1>1, RoutedRoutes DEF Send
<1> QED
  BY <1>1, <1>2, RoutesTyped

\* Taking a message keeps the queues typed.
LEMMA TakesTyped ==
  ASSUME BusOK, NEW q, NEW s \in Subscriptions, NEW i, Takes(q, s, i)
  PROVE  Typed(q)
<1>1. ASSUME NEW o \in Subscriptions, NEW j \in DOMAIN q[o]
      PROVE  q[o][j].type = o[2]
  <2>1. CASE o = s
    <3>1. queues[s] \in Seq(published) /\ queues[s] # <<>> /\ q[s] = Tail(queues[s])
      BY DEF Takes, BusOK
    <3>2. j + 1 \in DOMAIN queues[s] /\ q[s][j] = queues[s][j + 1]
      BY <3>1, <2>1, <1>1, TailElements
    <3> QED
      BY <3>2, <2>1 DEF BusOK
  <2>2. CASE o # s
    <3>1. q[o] = queues[o]
      BY <2>2 DEF Takes
    <3> QED
      BY <3>1, <1>1 DEF BusOK
  <2> QED
    BY <2>1, <2>2
<1> QED
  BY <1>1 DEF Typed

LEMMA TakesKeepsBus ==
  ASSUME BusOK, NEW s \in Subscriptions, NEW i, Takes(queues', s, i),
         UNCHANGED published
  PROVE  BusOK'
BY TakesTyped DEF BusOK, Typed, Takes

LEMMA EmptiedEmpties ==
  ASSUME BusOK, NEW service, queues' = Emptied(service), UNCHANGED published
  PROVE  Empties(service) /\ BusOK'
<1>1. ASSUME NEW s \in Subscriptions
      PROVE  /\ queues'[s] = IF s[1] = service THEN <<>> ELSE queues[s]
             /\ queues'[s] \in Seq(published)
             /\ \A i \in DOMAIN queues'[s] : queues'[s][i].type = s[2]
  <2>1. queues'[s] = IF s[1] = service THEN <<>> ELSE queues[s]
    BY DEF Emptied
  <2>2. queues[s] \in Seq(published) /\ <<>> \in Seq(published) /\ DOMAIN <<>> = {}
    BY EmptySeq DEF BusOK
  <2> QED
    BY <2>1, <2>2 DEF BusOK
<1>2. queues' \in [Subscriptions -> Seq(published)]
  BY <1>1 DEF Emptied
<1> QED
  BY <1>1, <1>2 DEF Empties, BusOK

-------------------------------------------------------------------------------
\* What the components leave alone

LEMMA RideFrame ==
  ASSUME RideNext
  PROVE  UNCHANGED <<locVars, notifyVars, gatewayVars>>
BY DEF RideNext, MoveTrip, Announce, VerifyIdentity, SetOnlineStatus, RequestTrip

LEMMA NotifyFrame ==
  ASSUME NotifyNext
  PROVE  UNCHANGED <<published, locVars, rideVars, gatewayVars>>
BY DEF NotifyNext, Notify, NotifyStep, Deliver, SaveNotification, PushNotification,
       RegisterDevice, MarkRead, RestartNotification, FailDelivery

LEMMA PaymentFrame ==
  ASSUME PaymentNext
  PROVE  UNCHANGED <<locVars, notifyVars, rideVars, gatewayVars>>
BY DEF PaymentNext, AnnounceProcessing, RestartPayment

LEMMA GatewayFrame ==
  ASSUME GatewayNext
  PROVE  UNCHANGED <<published, locVars, notifyVars, rideVars>>
BY DEF GatewayNext, GatewayStep, GatewayArrival, ShowStatus, ShowOffer, ShowLocation,
       Take, Connect, Disconnect, JoinTrip, LeaveTrip, RestartGateway

-------------------------------------------------------------------------------
\* Events are what the services publish

LEMMA QueuesDistinct ==
  /\ StatusQueue \in Subscriptions /\ LocationQueue \in Subscriptions
  /\ <<"payment", "trip.status_changed">> \in Subscriptions
  /\ <<"gateway", "trip.requested">> \in Subscriptions
BY DEF StatusQueue, LocationQueue, Subscriptions

\* The kind of a message is known by the queue it is in.
LEMMA StatusEventKind ==
  ASSUME NEW e, EventOK(e), e.type = "trip.status_changed"
  PROVE  \E t \in Trips, to \in TripStatus :
           e = StatusEvent(t, to) /\ e.trip = t /\ e.to = to
BY DEF EventOK, StatusEvent, PaidEvent, LocationEvent

LEMMA LocationEventKind ==
  ASSUME NEW e, EventOK(e), e.type = "driver.location_updated"
  PROVE  e.driver \in Drivers /\ e.place \in Places
BY DEF EventOK, StatusEvent, PaidEvent, LocationEvent

LEMMA RequestEventKind ==
  ASSUME NEW e, EventOK(e), e.type = "trip.requested"
  PROVE  e.trip \in Trips /\ e.drivers \subseteq Users
BY DEF EventOK, StatusEvent, PaidEvent, LocationEvent

\* The head of a queue, and the event it is.
LEMMA QueuedEvent ==
  ASSUME BusOK, NEW s \in Subscriptions, NEW i \in DOMAIN queues[s]
  PROVE  /\ queues[s][i] \in published /\ EventOK(queues[s][i])
         /\ queues[s][i].type = s[2]
<1>1. queues[s] \in Seq(published)
  BY DEF BusOK
<1>2. queues[s][i] \in published
  BY <1>1, ElementIn
<1> QED
  BY <1>2 DEF BusOK

-------------------------------------------------------------------------------
\* What each action does to the queues

\* The event a committed status is announced by.
Announcement(t, to) == IF to = "paid" THEN PaidEvent(t) ELSE StatusEvent(t, to)

LEMMA AnnounceSends ==
  ASSUME BusOK, NEW t \in Trips, NEW to \in TripStatus, Announce(t, to)
  PROVE  /\ \E service : Routes(queues, service, Announcement(t, to))
         /\ BusOK'
<1>1. EventOK(PaidEvent(t)) /\ EventOK(StatusEvent(t, to))
  BY DEF EventOK
<1>2. CASE to = "paid"
  <2>1. Send("payment", PaidEvent(t))
    BY <1>2 DEF Announce
  <2>2. Announcement(t, to) = PaidEvent(t)
    BY <1>2 DEF Announcement
  <2> QED
    BY <1>1, <2>1, <2>2, SendRoutes
<1>3. CASE to # "paid"
  <2>1. Send("ride", StatusEvent(t, to))
    BY <1>3 DEF Announce
  <2>2. Announcement(t, to) = StatusEvent(t, to)
    BY <1>3 DEF Announcement
  <2> QED
    BY <1>1, <2>1, <2>2, SendRoutes
<1> QED
  BY <1>2, <1>3

LEMMA VerifySends ==
  ASSUME BusOK, TripsOK, NEW u \in Users, VerifyIdentity(u)
  PROVE  Routes(queues, "identity", VerifiedEvent(u)) /\ BusOK'
<1>1. left["kyc"] \in Nat
  BY DEF TripsOK
<1>2. EventOK(VerifiedEvent(u))
  BY <1>1 DEF EventOK, VerifiedEvent
<1>3. Send("identity", VerifiedEvent(u))
  BY DEF VerifyIdentity
<1> QED
  BY <1>2, <1>3, SendRoutes

\* The offer of a trip to the drivers found.
Offer(t, pickup) == [type |-> "trip.requested", trip |-> t,
                     drivers |-> {UserOf[d] : d \in NearbyDrivers(pickup)}]

LEMMA RequestSends ==
  ASSUME BusOK, NEW t \in Trips, NEW pickup \in Places, RequestTrip(t, pickup)
  PROVE  Routes(queues, "ride", Offer(t, pickup)) /\ BusOK'
<1>1. {UserOf[d] : d \in NearbyDrivers(pickup)} \subseteq Users
  BY RealtimeAssumption DEF NearbyDrivers
<1>2. EventOK(Offer(t, pickup))
  BY <1>1 DEF EventOK, Offer
<1>3. Send("ride", Offer(t, pickup))
  BY DEF RequestTrip, Offer
<1> QED
  BY <1>2, <1>3, SendRoutes

LEMMA LocationSends ==
  ASSUME BusOK, LocOK, NEW r \in LocReqs, PublishLocation(r)
  PROVE  /\ locReqs[r].driver \in Drivers /\ locReqs[r].place \in Places
         /\ Routes(queues, "location",
                   LocationEvent(locReqs[r].driver, locReqs[r].place))
         /\ BusOK'
<1>1. locReqs[r].driver \in Drivers /\ locReqs[r].place \in Places
  BY DEF LocOK, PublishLocation, ReportAt
<1>2. EventOK(LocationEvent(locReqs[r].driver, locReqs[r].place))
  BY <1>1 DEF EventOK
<1>3. Send("location", LocationEvent(locReqs[r].driver, locReqs[r].place))
  BY DEF PublishLocation
<1> QED
  BY <1>1, <1>2, <1>3, SendRoutes

\* The payment service takes a message, and answers a completed trip's.
LEMMA ProcessingSends ==
  ASSUME BusOK, NEW s \in Subscriptions, NEW i \in DOMAIN queues[s],
         AnnounceProcessing(s, i)
  PROVE  /\ s = <<"payment", "trip.status_changed">>
         /\ BusOK'
         /\ \/ Takes(queues', s, i) /\ UNCHANGED published
            \/ \E t \in Trips : \E q :
                 /\ CompletedEvent(t) \in published
                 /\ Takes(q, s, i)
                 /\ Routes(q, "payment", ProcessingEvent(t))
<1> DEFINE event == queues[s][i]
           q     == Without(queues, s, i)
<1>1. s = <<"payment", "trip.status_changed">> /\ Ready(i)
  BY DEF AnnounceProcessing
<1>2. Takes(q, s, i) /\ Typed(q)
  BY <1>1, WithoutTakes, TakesTyped
<1>3. CASE event.to = "completed"
  <2>1. PICK t \in Trips, to \in TripStatus :
          event = StatusEvent(t, to) /\ event.trip = t /\ event.to = to
    BY <1>1, QueuedEvent, StatusEventKind
  <2>2. event = CompletedEvent(t) /\ CompletedEvent(t) \in published
    BY <1>3, <2>1, QueuedEvent DEF CompletedEvent
  <2>3. Publish("payment", ProcessingEvent(t)) /\ queues' = Routed(q, "payment", ProcessingEvent(t))
    BY <1>3, <2>1 DEF AnnounceProcessing, ProcessingEvent
  <2>4. q \in [Subscriptions -> Seq(published)]
    BY <1>2 DEF Takes
  <2>5. EventOK(ProcessingEvent(t))
    BY DEF EventOK, ProcessingEvent, TripStatus
  <2> HIDE DEF q
  <2>6. Routes(q, "payment", ProcessingEvent(t))
    BY <2>3, <2>4, RoutedRoutes
  <2>7. BusOK'
    BY <1>2, <2>4, <2>5, <2>6, RoutesTyped DEF BusOK
  <2> QED
    BY <1>1, <1>2, <2>2, <2>6, <2>7
<1>4. CASE event.to # "completed"
  <2>1. queues' = q /\ UNCHANGED published
    BY <1>4 DEF AnnounceProcessing
  <2> QED
    BY <1>1, <1>2, <2>1, TakesKeepsBus
<1> QED
  BY <1>3, <1>4

LEMMA DeliverTakes ==
  ASSUME BusOK, NEW s \in Subscriptions, NEW i \in DOMAIN queues[s], Deliver(s, i)
  PROVE  Takes(queues', s, i) /\ UNCHANGED published /\ Notifying(s) /\ BusOK'
<1>1. Ready(i) /\ queues' = Without(queues, s, i) /\ UNCHANGED published /\ Notifying(s)
  BY DEF Deliver, Notifying
<1> QED
  BY <1>1, WithoutTakes, TakesKeepsBus

LEMMA ShowTakes ==
  ASSUME BusOK, NEW s \in Subscriptions, NEW i \in DOMAIN queues[s], Take(s, i)
  PROVE  Takes(queues', s, i) /\ UNCHANGED published /\ BusOK'
<1>1. Ready(i) /\ queues' = Without(queues, s, i) /\ UNCHANGED published
  BY DEF Take
<1> QED
  BY <1>1, WithoutTakes, TakesKeepsBus

\* Every step keeps the queues typed, and no event is taken back.
LEMMA BusStep ==
  ASSUME BusOK, LocOK, TripsOK, RtNext
  PROVE  BusOK' /\ published \subseteq published'
<1> DEFINE Goal == BusOK' /\ published \subseteq published'
<1>q. ASSUME UNCHANGED <<published, queues>>
      PROVE  Goal
  BY <1>q DEF BusOK
<1>e. ASSUME NEW service, queues' = Emptied(service), UNCHANGED published
      PROVE  Goal
  BY <1>e, EmptiedEmpties
<1>1. CASE RideNext
  <2>1. ASSUME NEW t \in Trips, NEW to \in TripStatus, Announce(t, to)
        PROVE  Goal
    BY <2>1, AnnounceSends DEF Routes
  <2>2. ASSUME NEW u \in Users, VerifyIdentity(u)
        PROVE  Goal
    BY <2>2, VerifySends DEF Routes
  <2>3. ASSUME NEW t \in Trips, NEW pickup \in Places, RequestTrip(t, pickup)
        PROVE  Goal
    BY <2>3, RequestSends DEF Routes
  <2>4. ASSUME NEW t \in Trips, NEW to \in TripStatus, MoveTrip(t, to)
        PROVE  Goal
    BY <2>4, <1>q DEF MoveTrip
  <2>5. ASSUME NEW d \in Drivers, SetOnlineStatus(d)
        PROVE  Goal
    BY <2>5, <1>q DEF SetOnlineStatus
  <2> QED
    BY <1>1, <2>1, <2>2, <2>3, <2>4, <2>5 DEF RideNext
<1>2. CASE LocNext
  <2>1. ASSUME NEW r \in LocReqs, PublishLocation(r)
        PROVE  Goal
    BY <2>1, LocationSends DEF Routes
  <2>2. CASE UNCHANGED <<published, queues>>
    BY <2>2, <1>q
  <2> QED
    BY <1>2, <2>1, <2>2
    DEF LocNext, ReportLocation, LocStep, LogFraudAlert, StoreLocation, FailReport,
        RestartLocation
<1>3. CASE NotifyNext
  <2>1. ASSUME NEW s \in Subscriptions, NEW i \in DOMAIN queues[s], Deliver(s, i)
        PROVE  Goal
    BY <2>1, DeliverTakes
  <2>2. CASE RestartNotification
    BY <2>2, <1>e DEF RestartNotification
  <2>3. CASE UNCHANGED <<published, queues>>
    BY <2>3, <1>q
  <2> QED
    BY <1>3, <2>1, <2>2, <2>3
    DEF NotifyNext, Notify, NotifyStep, SaveNotification, PushNotification,
        RegisterDevice, MarkRead, FailDelivery
<1>4. CASE PaymentNext
  <2>1. ASSUME NEW s \in Subscriptions, NEW i \in DOMAIN queues[s],
               AnnounceProcessing(s, i)
        PROVE  Goal
    BY <2>1, ProcessingSends DEF Routes
  <2>2. CASE RestartPayment
    BY <2>2, <1>e DEF RestartPayment
  <2> QED
    BY <1>4, <2>1, <2>2 DEF PaymentNext
<1>5. CASE GatewayNext
  <2>1. ASSUME NEW s \in Subscriptions, NEW i \in DOMAIN queues[s], Take(s, i)
        PROVE  Goal
    BY <2>1, ShowTakes
  <2>2. CASE RestartGateway
    BY <2>2, <1>e DEF RestartGateway
  <2>3. CASE UNCHANGED <<published, queues>>
    BY <2>3, <1>q
  <2> QED
    BY <1>5, <2>1, <2>2, <2>3
    DEF GatewayNext, GatewayStep, GatewayArrival, ShowStatus, ShowOffer, ShowLocation,
        Connect, Disconnect, JoinTrip, LeaveTrip
<1> QED
  BY <1>1, <1>2, <1>3, <1>4, <1>5 DEF RtNext

LEMMA SpendLeft ==
  ASSUME TripsOK,
         NEW kind \in {"moves", "rides", "kyc", "reports", "joins", "breaks", "devices"},
         Spend(kind)
  PROVE  /\ left' \in [{"moves", "rides", "kyc", "reports", "joins", "breaks",
                        "devices"} -> Nat]
         /\ left'["kyc"] <= left["kyc"]
         /\ kind = "kyc" => left'["kyc"] < left["kyc"]
BY DEF TripsOK, Spend

\* The budget never grows.
LEMMA LeftStep ==
  ASSUME TripsOK, RtNext
  PROVE  /\ left' \in [{"moves", "rides", "kyc", "reports", "joins", "breaks",
                        "devices"} -> Nat]
         /\ left'["kyc"] <= left["kyc"]
<1>1. CASE UNCHANGED left
  BY <1>1 DEF TripsOK
<1>2. ASSUME NEW kind \in {"moves", "rides", "kyc", "reports", "joins", "breaks",
                           "devices"}, Spend(kind)
      PROVE  /\ left' \in [{"moves", "rides", "kyc", "reports", "joins", "breaks",
                            "devices"} -> Nat]
             /\ left'["kyc"] <= left["kyc"]
  BY <1>2, SpendLeft
<1>3. UNCHANGED left \/ \E kind \in {"moves", "rides", "kyc", "reports", "joins",
                                     "breaks", "devices"} : Spend(kind)
  <2>1. CASE RideNext
    BY <2>1 DEF RideNext, MoveTrip, Announce, VerifyIdentity, SetOnlineStatus, RequestTrip
  <2>2. CASE LocNext
    BY <2>2 DEF LocNext
  <2>3. CASE NotifyNext
    BY <2>3 DEF NotifyNext, Notify
  <2>4. CASE PaymentNext
    BY <2>4 DEF PaymentNext, AnnounceProcessing, RestartPayment
  <2>5. CASE GatewayNext
    BY <2>5 DEF GatewayNext, GatewayStep, GatewayArrival, ShowStatus, ShowOffer,
                ShowLocation, Take, Connect, Disconnect, JoinTrip, LeaveTrip, RestartGateway
  <2> QED
    BY <2>1, <2>2, <2>3, <2>4, <2>5 DEF RtNext
<1> QED
  BY <1>1, <1>2, <1>3

LEMMA TripsStep ==
  ASSUME TripsOK, RtNext
  PROVE  TripsOK'
<1>1. CASE UNCHANGED <<status, due>>
  BY <1>1, LeftStep DEF TripsOK
<1>2. ASSUME NEW t \in Trips, NEW to \in TripStatus, MoveTrip(t, to) \/ Announce(t, to)
      PROVE  TripsOK'
  BY <1>2, LeftStep DEF TripsOK, MoveTrip, Announce
<1> QED
  BY <1>1, <1>2, NotifyFrame, PaymentFrame, GatewayFrame
  DEF RtNext, RideNext, LocNext, VerifyIdentity, SetOnlineStatus, RequestTrip, rideVars

-------------------------------------------------------------------------------
\* The location service

\* A report that arrives, in slot r; q is another slot.
LEMMA ReportArrives ==
  ASSUME LocOK, NEW r \in LocReqs, NEW d \in Drivers, NEW place \in Places,
         NEW seconds, ReportLocation(r, d, place, seconds)
  PROVE  /\ locReqs' \in [LocReqs -> Report]
         /\ locReqs'[r].pc \in {"alert", "update"}
         /\ locReqs'[r].driver = d /\ locReqs'[r].place = place
         /\ \A q \in LocReqs \ {r} :
              /\ locReqs[q].driver = d => locReqs'[r].overlapped /\ locReqs'[q].overlapped
              /\ locReqs[q].driver # d => locReqs'[q] = locReqs[q]
              /\ locReqs'[q].pc = locReqs[q].pc
              /\ locReqs'[q].driver = locReqs[q].driver
              /\ locReqs'[q].place = locReqs[q].place
<1> DEFINE others == {q \in LocReqs : locReqs[q].driver = d}
           new == [pc         |-> IF Detected(lastReport[d], place, seconds)
                                    THEN "alert" ELSE "update",
                   driver     |-> d,
                   place      |-> place,
                   overlapped |-> others # {}]
           marked(q) == [locReqs[q] EXCEPT !.overlapped = TRUE]
<1>1. /\ new.pc \in {"alert", "update"} /\ new.driver = d /\ new.place = place
      /\ (others # {} => new.overlapped) /\ new \in Report
  <2>1. new.pc \in {"alert", "update"} /\ new.driver = d /\ new.place = place
    OBVIOUS
  <2>2. new.overlapped \in BOOLEAN /\ (others # {} => new.overlapped)
    OBVIOUS
  <2> QED
    BY <2>1, <2>2 DEF Report
<1>2. ASSUME NEW q \in LocReqs
      PROVE  /\ marked(q) \in Report /\ marked(q).overlapped
             /\ marked(q).pc = locReqs[q].pc /\ marked(q).driver = locReqs[q].driver
             /\ marked(q).place = locReqs[q].place
  BY DEF LocOK, Report
<1>3. locReqs' = [q \in LocReqs |-> IF q = r THEN new
                                    ELSE IF q \in others THEN marked(q) ELSE locReqs[q]]
  BY DEF ReportLocation
<1>4. ReportAt(r, "idle") /\ \A q \in LocReqs : locReqs[q] \in Report
  BY DEF ReportLocation, LocOK
<1> HIDE DEF new, marked
<1>5. locReqs'[r] = new
  BY <1>3
<1>6. ASSUME NEW q \in LocReqs \ {r}
      PROVE  /\ locReqs[q].driver = d => locReqs'[r].overlapped /\ locReqs'[q].overlapped
             /\ locReqs[q].driver # d => locReqs'[q] = locReqs[q]
             /\ locReqs'[q].pc = locReqs[q].pc
             /\ locReqs'[q].driver = locReqs[q].driver
             /\ locReqs'[q].place = locReqs[q].place
  <2>1. CASE locReqs[q].driver = d
    <3>1. locReqs'[q] = marked(q) /\ others # {}
      BY <2>1, <1>3
    <3> QED
      BY <2>1, <3>1, <1>1, <1>2, <1>5
  <2>2. CASE locReqs[q].driver # d
    <3>1. locReqs'[q] = locReqs[q]
      BY <2>2, <1>3
    <3> QED
      BY <2>2, <3>1
  <2> QED
    BY <2>1, <2>2
<1>7. locReqs' \in [LocReqs -> Report]
  BY <1>1, <1>2, <1>3, <1>4
<1> QED
  BY <1>1, <1>5, <1>6, <1>7

\* A slot that is freed, and a slot that goes on to announce.
LEMMA ReportEnds ==
  ASSUME LocOK, NEW r \in LocReqs, EndReport(r)
  PROVE  /\ locReqs' \in [LocReqs -> Report] /\ locReqs'[r] = IdleReport
         /\ \A q \in LocReqs \ {r} : locReqs'[q] = locReqs[q]
<1>1. IdleReport \in Report
  BY DEF IdleReport, Report
<1> QED
  BY <1>1 DEF LocOK, EndReport

LEMMA ReportGoesOn ==
  ASSUME LocOK, NEW r \in LocReqs, GotoReport(r, "publish")
  PROVE  /\ locReqs' \in [LocReqs -> Report]
         /\ locReqs'[r].pc = "publish" /\ locReqs'[r].driver = locReqs[r].driver
         /\ locReqs'[r].place = locReqs[r].place
         /\ locReqs'[r].overlapped = locReqs[r].overlapped
         /\ \A q \in LocReqs \ {r} : locReqs'[q] = locReqs[q]
<1>1. locReqs[r] \in Report
  BY DEF LocOK
<1>2. [locReqs[r] EXCEPT !.pc = "publish"] \in Report
  BY <1>1 DEF Report
<1>3. locReqs' = [locReqs EXCEPT ![r] = [locReqs[r] EXCEPT !.pc = "publish"]]
  BY DEF GotoReport
<1>4. locReqs'[r] = [locReqs[r] EXCEPT !.pc = "publish"]
  BY <1>3 DEF LocOK
<1> QED
  BY <1>1, <1>2, <1>3, <1>4 DEF LocOK, Report

\* A slot is idle and nobody's, or one driver's.
SlotsOK(reqs) ==
  /\ reqs \in [LocReqs -> Report]
  /\ \A r \in LocReqs : IF reqs[r].pc = "idle"
                          THEN reqs[r] = IdleReport
                          ELSE reqs[r].driver \in Drivers /\ reqs[r].place \in Places

\* Reports of one driver that run together are marked.
Marked(reqs) ==
  \A r, q \in LocReqs :
    /\ r # q /\ reqs[r].driver = reqs[q].driver /\ reqs[r].driver # Nowhere
    => reqs[r].overlapped

LEMMA EndedSlots ==
  ASSUME LocOK, Marked(locReqs), NEW r \in LocReqs, EndReport(r)
  PROVE  SlotsOK(locReqs') /\ Marked(locReqs')
<1>1. /\ locReqs' \in [LocReqs -> Report] /\ locReqs'[r] = IdleReport
      /\ \A q \in LocReqs \ {r} : locReqs'[q] = locReqs[q]
  BY ReportEnds
<1>2. IdleReport.pc = "idle" /\ IdleReport.driver = Nowhere
  BY DEF IdleReport
<1> QED
  BY <1>1, <1>2 DEF LocOK, ReportAt, SlotsOK, Marked

LEMMA StoredSlots ==
  ASSUME LocOK, Marked(locReqs), NEW r \in LocReqs, ReportAt(r, "update"),
         GotoReport(r, "publish")
  PROVE  SlotsOK(locReqs') /\ Marked(locReqs')
<1>1. /\ locReqs' \in [LocReqs -> Report]
      /\ locReqs'[r].pc = "publish" /\ locReqs'[r].driver = locReqs[r].driver
      /\ locReqs'[r].place = locReqs[r].place
      /\ locReqs'[r].overlapped = locReqs[r].overlapped
      /\ \A q \in LocReqs \ {r} : locReqs'[q] = locReqs[q]
  BY ReportGoesOn
<1>2. SlotsOK(locReqs')
  BY <1>1 DEF LocOK, ReportAt, SlotsOK
<1>3. \A q \in LocReqs : /\ locReqs'[q].driver = locReqs[q].driver
                          /\ locReqs'[q].overlapped = locReqs[q].overlapped
  BY <1>1
<1>4. Marked(locReqs')
  BY <1>3 DEF Marked
<1> QED
  BY <1>2, <1>4

LEMMA ArrivedSlots ==
  ASSUME LocOK, Marked(locReqs), NEW r \in LocReqs, NEW d \in Drivers,
         NEW place \in Places, NEW seconds, ReportLocation(r, d, place, seconds)
  PROVE  SlotsOK(locReqs') /\ Marked(locReqs')
<1>1. /\ locReqs' \in [LocReqs -> Report]
      /\ locReqs'[r].pc \in {"alert", "update"}
      /\ locReqs'[r].driver = d /\ locReqs'[r].place = place
  BY ReportArrives
<1>2. \A q \in LocReqs \ {r} :
        /\ locReqs[q].driver = d => locReqs'[r].overlapped /\ locReqs'[q].overlapped
        /\ locReqs[q].driver # d => locReqs'[q] = locReqs[q]
        /\ locReqs'[q].pc = locReqs[q].pc
        /\ locReqs'[q].driver = locReqs[q].driver
        /\ locReqs'[q].place = locReqs[q].place
  BY ReportArrives
<1>3. SlotsOK(locReqs')
  <2>1. ASSUME NEW q \in LocReqs
        PROVE  IF locReqs'[q].pc = "idle"
                 THEN locReqs'[q] = IdleReport
                 ELSE locReqs'[q].driver \in Drivers /\ locReqs'[q].place \in Places
    <3>1. CASE q = r
      BY <1>1, <3>1
    <3>2. CASE q # r /\ locReqs[q].pc = "idle"
      <4>1. locReqs[q] = IdleReport /\ IdleReport.driver = Nowhere
        BY <3>2 DEF LocOK, ReportAt, IdleReport
      <4>2. locReqs'[q] = locReqs[q]
        BY <4>1, <3>2, <1>2, LocationAssumption
      <4> QED
        BY <4>1, <4>2, <3>2
    <3>3. CASE q # r /\ locReqs[q].pc # "idle"
      BY <3>3, <1>2 DEF LocOK, ReportAt
    <3> QED
      BY <3>1, <3>2, <3>3
  <2> QED
    BY <1>1, <2>1 DEF SlotsOK
<1>4. Marked(locReqs')
  <2>1. ASSUME NEW p \in LocReqs, NEW q \in LocReqs, p # q,
               locReqs'[p].driver = locReqs'[q].driver, locReqs'[p].driver # Nowhere
        PROVE  locReqs'[p].overlapped
    <3>1. CASE p = r
      BY <2>1, <3>1, <1>1, <1>2
    <3>2. CASE q = r
      BY <2>1, <3>2, <1>1, <1>2
    <3>3. CASE p # r /\ q # r
      <4>1. locReqs[p].overlapped
        BY <2>1, <3>3, <1>2 DEF Marked
      <4> QED
        BY <4>1, <3>3, <1>2
    <3> QED
      BY <3>1, <3>2, <3>3
  <2> QED
    BY <2>1 DEF Marked
<1> QED
  BY <1>3, <1>4

\* What a step of the location service is.
LEMMA LocCases ==
  ASSUME LocNext
  PROVE  \/ \E r \in LocReqs, d \in Drivers, place \in Places, seconds \in Intervals :
              ReportLocation(r, d, place, seconds)
         \/ \E r \in LocReqs : \/ LogFraudAlert(r) \/ StoreLocation(r)
                               \/ PublishLocation(r) \/ FailReport(r)
         \/ RestartLocation
BY DEF LocNext, LocStep

\* One that runs alone announces what is stored.
Current(reqs, stored) ==
  \A r \in LocReqs :
    reqs[r].pc = "publish" /\ ~reqs[r].overlapped =>
      stored[reqs[r].driver] = reqs[r].place

LEMMA ReportsParts ==
  /\ ReportsInv <=> Marked(locReqs) /\ Current(locReqs, places)
  /\ ReportsInv' <=> Marked(locReqs') /\ Current(locReqs', places')
BY DEF ReportsInv, Marked, Current, ReportAt

LEMMA LocParts ==
  /\ LocOK => SlotsOK(locReqs)
  /\ SlotsOK(locReqs') /\ places' \in [Drivers -> Places \cup {Nowhere}]
     /\ alerts' \subseteq Drivers \X Places /\ disturbed' \subseteq Drivers => LocOK'
BY DEF LocOK, SlotsOK, ReportAt

LEMMA EndedCurrent ==
  ASSUME LocOK, Current(locReqs, places), NEW r \in LocReqs, EndReport(r),
         UNCHANGED places
  PROVE  Current(locReqs', places')
<1>1. /\ locReqs'[r] = IdleReport
      /\ \A q \in LocReqs \ {r} : locReqs'[q] = locReqs[q]
  BY ReportEnds
<1>2. IdleReport.pc = "idle"
  BY DEF IdleReport
<1> QED
  BY <1>1, <1>2 DEF Current

LEMMA LocNextKeeps ==
  ASSUME LocOK, ReportsInv, LocNext
  PROVE  LocOK' /\ ReportsInv'
<1>1. /\ SlotsOK(locReqs) /\ Marked(locReqs) /\ Current(locReqs, places)
      /\ places \in [Drivers -> Places \cup {Nowhere}]
      /\ alerts \subseteq Drivers \X Places /\ disturbed \subseteq Drivers
  BY ReportsParts, LocParts DEF LocOK
<1>2. ASSUME NEW r \in LocReqs, NEW d \in Drivers, NEW place \in Places,
             NEW seconds \in Intervals, ReportLocation(r, d, place, seconds)
      PROVE  LocOK' /\ ReportsInv'
  <2>1. SlotsOK(locReqs') /\ Marked(locReqs')
    BY <1>1, <1>2, ArrivedSlots
  <2>2. UNCHANGED <<places, alerts, disturbed>>
    BY <1>2 DEF ReportLocation
  <2>3. Current(locReqs', places')
    <3>1. ASSUME NEW q \in LocReqs, locReqs'[q].pc = "publish", ~locReqs'[q].overlapped
          PROVE  places'[locReqs'[q].driver] = locReqs'[q].place
      <4>1. q # r
        BY <1>2, <3>1, ReportArrives
      <4>2. locReqs'[q] = locReqs[q]
        BY <1>2, <3>1, <4>1, ReportArrives
      <4> QED
        BY <1>1, <2>2, <3>1, <4>2 DEF Current
    <3> QED
      BY <3>1 DEF Current
  <2> QED
    BY <1>1, <2>1, <2>2, <2>3, ReportsParts, LocParts
<1>3. ASSUME NEW r \in LocReqs, EndReport(r), UNCHANGED places,
             alerts' \subseteq Drivers \X Places, disturbed' \subseteq Drivers
      PROVE  LocOK' /\ ReportsInv'
  <2>1. SlotsOK(locReqs') /\ Marked(locReqs')
    BY <1>1, <1>3, EndedSlots
  <2>2. Current(locReqs', places')
    BY <1>1, <1>3, EndedCurrent
  <2> QED
    BY <1>1, <1>3, <2>1, <2>2, ReportsParts, LocParts
<1>4. ASSUME NEW r \in LocReqs, ~ReportAt(r, "idle")
      PROVE  locReqs[r].driver \in Drivers /\ locReqs[r].place \in Places
  BY <1>4 DEF LocOK
<1>5. ASSUME NEW r \in LocReqs, LogFraudAlert(r)
      PROVE  LocOK' /\ ReportsInv'
  <2>1. locReqs[r].driver \in Drivers /\ locReqs[r].place \in Places
    BY <1>4, <1>5 DEF LogFraudAlert, ReportAt
  <2> QED
    BY <1>1, <1>3, <1>5, <2>1 DEF LogFraudAlert
<1>6. ASSUME NEW r \in LocReqs, PublishLocation(r)
      PROVE  LocOK' /\ ReportsInv'
  <2>1. locReqs[r].driver \in Drivers
    BY <1>4, <1>6 DEF PublishLocation, ReportAt
  <2> QED
    BY <1>1, <1>3, <1>6, <2>1 DEF PublishLocation
<1>7. ASSUME NEW r \in LocReqs, FailReport(r)
      PROVE  LocOK' /\ ReportsInv'
  BY <1>1, <1>3, <1>7 DEF FailReport
<1>8. ASSUME NEW r \in LocReqs, StoreLocation(r)
      PROVE  LocOK' /\ ReportsInv'
  <2>1. /\ ReportAt(r, "update") /\ GotoReport(r, "publish")
        /\ places' = [places EXCEPT ![locReqs[r].driver] = locReqs[r].place]
        /\ UNCHANGED <<alerts, disturbed>>
    BY <1>8 DEF StoreLocation
  <2>2. locReqs[r].driver \in Drivers /\ locReqs[r].place \in Places
    BY <1>4, <2>1 DEF ReportAt
  <2>3. places' \in [Drivers -> Places \cup {Nowhere}]
    BY <1>1, <2>1, <2>2
  <2>4. SlotsOK(locReqs') /\ Marked(locReqs')
    BY <1>1, <2>1, StoredSlots
  <2>5. /\ locReqs'[r].driver = locReqs[r].driver /\ locReqs'[r].place = locReqs[r].place
        /\ \A q \in LocReqs \ {r} : locReqs'[q] = locReqs[q]
    BY <2>1, ReportGoesOn
  <2>6. ASSUME NEW q \in LocReqs, locReqs'[q].pc = "publish", ~locReqs'[q].overlapped
        PROVE  places'[locReqs'[q].driver] = locReqs'[q].place
    <3>1. CASE q = r
      BY <3>1, <2>1, <2>2, <2>5, <1>1
    <3>2. CASE q # r
      <4>1. locReqs'[q] = locReqs[q]
        BY <2>5, <3>2
      <4>2. locReqs[q].driver \in Drivers
        BY <1>4, <2>6, <4>1 DEF ReportAt
      <4>3. locReqs[q].driver # locReqs[r].driver
        BY <1>1, <2>6, <3>2, <4>1, <4>2, LocationAssumption DEF Marked
      <4>4. places'[locReqs[q].driver] = places[locReqs[q].driver]
        BY <1>1, <2>1, <4>2, <4>3
      <4> QED
        BY <1>1, <2>6, <4>1, <4>4 DEF Current
    <3> QED
      BY <3>1, <3>2
  <2> QED
    BY <1>1, <2>1, <2>3, <2>4, <2>6, ReportsParts, LocParts DEF Current
<1>9. CASE RestartLocation
  <2>1. /\ locReqs' = [r \in LocReqs |-> IdleReport] /\ UNCHANGED <<places, alerts>>
        /\ disturbed' = disturbed \cup {locReqs[r].driver : r \in
                                          {q \in LocReqs : ReportAt(q, "publish")}}
    BY <1>9 DEF RestartLocation
  <2>2. IdleReport \in Report /\ IdleReport.pc = "idle" /\ IdleReport.driver = Nowhere
    BY DEF IdleReport, Report
  <2>3. SlotsOK(locReqs') /\ Marked(locReqs') /\ Current(locReqs', places')
    BY <2>1, <2>2 DEF SlotsOK, Marked, Current
  <2>4. disturbed' \subseteq Drivers
    BY <1>1, <1>4, <2>1 DEF ReportAt
  <2> QED
    BY <1>1, <2>1, <2>3, <2>4, ReportsParts, LocParts
<1> QED
  BY <1>2, <1>5, <1>6, <1>7, <1>8, <1>9, LocCases

LEMMA LocUnchanged ==
  ASSUME LocOK, ReportsInv, UNCHANGED locVars
  PROVE  LocOK' /\ ReportsInv'
BY DEF LocOK, ReportsInv, ReportAt, locVars

LEMMA ReportsStep ==
  ASSUME LocOK, ReportsInv, RtNext
  PROVE  LocOK' /\ ReportsInv'
BY LocNextKeeps, LocUnchanged, RideFrame, NotifyFrame, PaymentFrame, GatewayFrame DEF RtNext

-------------------------------------------------------------------------------
\* The notification service: types

\* What is saved of an event.
Saved(events) == [event : events, read : BOOLEAN]

\* MarkRead changes no event.
LEMMA MarkReadKeeps ==
  ASSUME NEW N \in Seq(Saved(published)), notifications = N,
         NEW u, NEW i \in DOMAIN N, MarkRead(u, i)
  PROVE  /\ notifications' \in Seq(Saved(published))
         /\ DOMAIN notifications' = DOMAIN N
         /\ \A j \in DOMAIN N : notifications'[j].event = N[j].event
<1> DEFINE new == [N[i] EXCEPT !.read = N[i].read \/ N[i].event.user = u]
<1>1. N[i] \in Saved(published)
  BY ElementIn
<1>2. new \in Saved(published) /\ new.event = N[i].event
  <2>1. (N[i].read \/ N[i].event.user = u) \in BOOLEAN
    OBVIOUS
  <2> QED
    BY <1>1, <2>1 DEF Saved
<1>3. notifications' = [N EXCEPT ![i] = new]
  BY DEF MarkRead
<1>4. DOMAIN N = 1 .. Len(N)
  BY LenProperties
<1> HIDE DEF new
<1>5. notifications' \in Seq(Saved(published))
  BY <1>2, <1>3, <1>4, ExceptSeq
<1> QED
  BY <1>2, <1>3, <1>5

\* A saved notification comes after the others.
LEMMA SaveAppends ==
  ASSUME NEW N \in Seq(Saved(published)), notifications = N,
         NEW e \in published, notifications' = Append(N, [event |-> e, read |-> FALSE])
  PROVE  /\ notifications' \in Seq(Saved(published))
         /\ Len(N) \in Nat /\ Len(notifications') = Len(N) + 1
         /\ DOMAIN N = 1 .. Len(N) /\ DOMAIN notifications' = 1 .. Len(N) + 1
         /\ \A j \in DOMAIN N : notifications'[j] = N[j]
         /\ notifications'[Len(N) + 1].event = e
<1> DEFINE new == [event |-> e, read |-> FALSE]
<1>1. new \in Saved(published) /\ new.event = e
  BY DEF Saved
<1>2. notifications' = Append(N, new)
  OBVIOUS
<1> HIDE DEF new
<1>3. Len(Append(N, new)) = Len(N) + 1
  BY <1>1, AppendProperties
<1> QED
  BY <1>1, <1>2, <1>3, AppendElements

\* The record a handler has after its INSERT.
Pushing(d, id) == [d EXCEPT !.pc = "push", !.id = id]

LEMMA PushingIs ==
  ASSUME NEW d \in [pc : {"save", "push"}, event : published, id : Nat], NEW id \in Nat
  PROVE  /\ Pushing(d, id) \in [pc : {"save", "push"}, event : published, id : Nat]
         /\ Pushing(d, id).pc = "push" /\ Pushing(d, id).id = id
         /\ Pushing(d, id).event = d.event
BY DEF Pushing

LEMMA NotifyNextTypes ==
  ASSUME NotifyOK, BusOK, NotifyNext
  PROVE  NotifyOK'
<1>1. /\ notifications \in Seq(Saved(published)) /\ devices \subseteq Users \X DeviceTokens
      /\ pushed \subseteq (DOMAIN notifications) \X devices
      /\ deliveries \subseteq [pc : {"save", "push"}, event : published, id : Nat]
      /\ \A d \in deliveries : d.pc = "push" => d.id \in DOMAIN notifications
  BY DEF NotifyOK, Saved
<1>2. UNCHANGED published
  BY NotifyFrame
<1>3. ASSUME NEW s \in Subscriptions, NEW i \in DOMAIN queues[s], Deliver(s, i)
      PROVE  NotifyOK'
  <2> DEFINE new == [pc |-> "save", event |-> queues[s][i], id |-> 0]
  <2>1. new \in [pc : {"save", "push"}, event : published, id : Nat] /\ new.pc = "save"
    BY QueuedEvent
  <2>2. deliveries' \subseteq deliveries \cup {new}
    BY <1>3 DEF Deliver
  <2>3. UNCHANGED <<notifications, devices, pushed>>
    BY <1>3 DEF Deliver
  <2> HIDE DEF new
  <2> QED
    BY <1>1, <1>2, <2>1, <2>2, <2>3 DEF NotifyOK, Saved
<1>4. ASSUME NEW d \in deliveries, SaveNotification(d)
      PROVE  NotifyOK'
  <2>1. d.event \in published /\ d \in [pc : {"save", "push"}, event : published, id : Nat]
    BY <1>1
  <2>2. /\ notifications' = Append(notifications, [event |-> d.event, read |-> FALSE])
        /\ deliveries' = (deliveries \ {d}) \cup {Pushing(d, Len(notifications'))}
        /\ UNCHANGED <<devices, pushed>>
    BY <1>4 DEF SaveNotification, Pushing
  <2>3. /\ notifications' \in Seq(Saved(published))
        /\ Len(notifications) \in Nat /\ Len(notifications') = Len(notifications) + 1
        /\ DOMAIN notifications = 1 .. Len(notifications)
        /\ DOMAIN notifications' = 1 .. Len(notifications) + 1
    BY <1>1, <2>1, <2>2, SaveAppends
  <2>4. /\ Pushing(d, Len(notifications')) \in [pc : {"save", "push"}, event : published, id : Nat]
        /\ Pushing(d, Len(notifications')).id \in DOMAIN notifications'
    <3>1. Len(notifications') \in Nat /\ Len(notifications') \in DOMAIN notifications'
      BY <2>3
    <3> QED
      BY <2>1, <3>1, PushingIs
  <2>5. DOMAIN notifications \subseteq DOMAIN notifications'
    BY <2>3
  <2> QED
    BY <1>1, <1>2, <2>2, <2>3, <2>4, <2>5 DEF NotifyOK, Saved
<1>5. ASSUME NEW d \in deliveries, PushNotification(d)
      PROVE  NotifyOK'
  <2>1. d.id \in DOMAIN notifications
    BY <1>1, <1>5 DEF PushNotification
  <2> QED
    BY <1>1, <1>2, <1>5, <2>1 DEF NotifyOK, Saved, PushNotification
<1>6. ASSUME NEW u \in Users, NEW token \in DeviceTokens, RegisterDevice(u, token)
      PROVE  NotifyOK'
  BY <1>1, <1>2, <1>6 DEF NotifyOK, Saved, RegisterDevice
<1>7. ASSUME NEW u \in Users, NEW i \in DOMAIN notifications, MarkRead(u, i)
      PROVE  NotifyOK'
  <2>1. notifications' \in Seq(Saved(published)) /\ DOMAIN notifications' = DOMAIN notifications
    BY <1>1, <1>7, MarkReadKeeps
  <2>2. UNCHANGED <<devices, deliveries, pushed>>
    BY <1>7 DEF MarkRead
  <2> QED
    BY <1>1, <1>2, <2>1, <2>2 DEF NotifyOK, Saved
<1>8. CASE RestartNotification
  BY <1>1, <1>2, <1>8 DEF NotifyOK, Saved, RestartNotification
<1>9. ASSUME NEW d \in deliveries, FailDelivery(d)
      PROVE  NotifyOK'
  BY <1>1, <1>2, <1>9 DEF NotifyOK, Saved, FailDelivery
<1> QED
  BY <1>3, <1>4, <1>5, <1>6, <1>7, <1>8, <1>9 DEF NotifyNext, Notify, NotifyStep

LEMMA NotifyTypesStep ==
  ASSUME NotifyOK, BusOK, RtNext, published \subseteq published'
  PROVE  NotifyOK'
<1>1. CASE NotifyNext
  BY <1>1, NotifyNextTypes
<1>2. CASE UNCHANGED notifyVars
  <2>1. UNCHANGED <<notifications, devices, deliveries, pushed>>
    BY <1>2 DEF notifyVars
  <2>2. Saved(published) \subseteq Saved(published')
    BY DEF Saved
  <2>3. notifications' \in Seq(Saved(published'))
    BY <2>1, <2>2, SeqOverMore DEF NotifyOK, Saved
  <2> QED
    BY <2>1, <2>3 DEF NotifyOK, Saved
<1> QED
  BY <1>1, <1>2, RideFrame, PaymentFrame, GatewayFrame DEF RtNext, LocNext

-------------------------------------------------------------------------------
\* Nothing is announced twice

\* Events are told apart by their type, their trip and their status.
LEMMA EventFields ==
  /\ \A t, to : /\ StatusEvent(t, to).type = "trip.status_changed"
                /\ StatusEvent(t, to).trip = t /\ StatusEvent(t, to).to = to
  /\ \A t : PaidEvent(t).type = "payment.completed" /\ PaidEvent(t).trip = t
  /\ \A u : VerifiedEvent(u).type = "identity.verified" /\ VerifiedEvent(u).at = left["kyc"]
  /\ \A d, place : LocationEvent(d, place).type = "driver.location_updated"
  /\ \A t, pickup : Offer(t, pickup).type = "trip.requested"
BY DEF StatusEvent, PaidEvent, VerifiedEvent, LocationEvent, Offer

LEMMA VerifiedEventKind ==
  ASSUME NEW e, EventOK(e), e.type = "identity.verified"
  PROVE  e.at \in Nat
BY DEF EventOK, StatusEvent, PaidEvent, LocationEvent

\* A status change goes up the ranks, and none leads to payment_processing.
LEMMA MovesRankUp ==
  ASSUME TripsOK, NEW t \in Trips, NEW to \in TripStatus, MoveTrip(t, to)
  PROVE  /\ to # "payment_processing" /\ Rank(status[t]) < Rank(to)
         /\ Rank(to) \in Nat /\ Rank(status[t]) \in Nat
<1>1. \/ <<status[t], to>> \in AcceptAndAdvance
      \/ to = "cancelled" /\ <<status[t], to>> \in ValidTripTransitions
      \/ to = "paid" /\ status[t] = "completed"
  BY DEF MoveTrip, CanTransition
<1> QED
  BY <1>1 DEF AcceptAndAdvance, DriverTransitions, ValidTripTransitions, Rank

LEMMA RankIsNat == \A s \in TripStatus : Rank(s) \in Nat
BY DEF TripStatus, Rank

\* What no other step may announce.
Restated(e) == \/ e.type = "trip.status_changed" /\ e.to # "payment_processing"
               \/ e.type = "payment.completed"
               \/ e.type = "identity.verified" /\ ~(e.at > left'["kyc"])

LEMMA AnnouncedKept ==
  ASSUME AnnouncedOnce, TripsOK, BusOK, UNCHANGED <<status, due>>,
         left'["kyc"] \in Nat, left'["kyc"] <= left["kyc"],
         \A e \in published' \ published : ~Restated(e)
  PROVE  AnnouncedOnce'
<1>1. \A t \in Trips, to \in TripStatus \ {"payment_processing"} :
        StatusEvent(t, to) \in published' => StatusEvent(t, to) \in published
  BY EventFields DEF Restated
<1>2. \A t \in Trips : PaidEvent(t) \in published' => PaidEvent(t) \in published
  BY EventFields DEF Restated
<1>3. ASSUME NEW e \in published', e.type = "identity.verified"
      PROVE  e.at > left'["kyc"]
  <2>1. CASE e \in published
    <3>1. e.at \in Nat /\ e.at > left["kyc"]
      BY <1>3, <2>1, VerifiedEventKind DEF BusOK, AnnouncedOnce
    <3> QED
      BY <3>1 DEF TripsOK
  <2>2. CASE e \notin published
    BY <1>3, <2>2 DEF Restated
  <2> QED
    BY <2>1, <2>2
<1>4. StatusesAnnounced'
  <2>1. ASSUME NEW t \in Trips, NEW to \in TripStatus \ {"payment_processing"},
               StatusEvent(t, to) \in published'
        PROVE  Rank(to) <= Rank(status'[t]) /\ to \notin due'[t]
    BY <2>1, <1>1 DEF AnnouncedOnce, StatusesAnnounced
  <2> QED
    BY <2>1 DEF StatusesAnnounced, StatusEvent
<1>5. \A t \in Trips : PaidEvent(t) \in published' =>
        Rank("paid") <= Rank(status'[t]) /\ "paid" \notin due'[t]
  BY <1>2 DEF AnnouncedOnce
<1>6. \A t \in Trips : \A to \in due'[t] :
        to # "payment_processing" /\ Rank(to) <= Rank(status'[t])
  BY DEF AnnouncedOnce
<1> QED
  BY <1>3, <1>4, <1>5, <1>6 DEF AnnouncedOnce, PaidEvent

\* What is announced was not announced before.
LEMMA AnnounceFresh ==
  ASSUME AnnouncedOnce, NEW t \in Trips, NEW to \in TripStatus, to \in due[t]
  PROVE  Announcement(t, to) \notin published /\ to # "payment_processing"
BY DEF AnnouncedOnce, StatusesAnnounced, Announcement

LEMMA VerifyFresh ==
  ASSUME AnnouncedOnce, TripsOK, NEW u
  PROVE  VerifiedEvent(u) \notin published
<1>1. left["kyc"] \in Nat
  BY DEF TripsOK
<1> QED
  BY <1>1, EventFields DEF AnnouncedOnce

LEMMA MoveTripAnnounced ==
  ASSUME AnnouncedOnce, TripsOK, BusOK, NEW t \in Trips, NEW to \in TripStatus,
         MoveTrip(t, to)
  PROVE  AnnouncedOnce'
<1>1. /\ to # "payment_processing" /\ Rank(status[t]) < Rank(to)
      /\ Rank(to) \in Nat /\ Rank(status[t]) \in Nat
  BY MovesRankUp
<1>2. /\ status' = [status EXCEPT ![t] = to] /\ due' = [due EXCEPT ![t] = due[t] \cup {to}]
      /\ UNCHANGED published
  BY DEF MoveTrip
<1>3. left'["kyc"] <= left["kyc"] /\ left'["kyc"] \in Nat /\ left["kyc"] \in Nat
  BY SpendLeft DEF MoveTrip, TripsOK
<1>4. ASSUME NEW o \in Trips
      PROVE  /\ status'[o] = IF o = t THEN to ELSE status[o]
             /\ due'[o] = IF o = t THEN due[t] \cup {to} ELSE due[o]
             /\ status[o] \in TripStatus /\ due[o] \subseteq TripStatus
             /\ Rank(status[o]) <= Rank(status'[o])
             /\ Rank(status[o]) \in Nat /\ Rank(status'[o]) \in Nat
  <2>1. /\ status'[o] = IF o = t THEN to ELSE status[o]
        /\ due'[o] = IF o = t THEN due[t] \cup {to} ELSE due[o]
        /\ status[o] \in TripStatus /\ due[o] \subseteq TripStatus
    BY <1>2 DEF TripsOK
  <2>2. Rank(status[o]) \in Nat
    BY <2>1, RankIsNat
  <2>3. CASE o = t
    BY <1>1, <2>1, <2>2, <2>3
  <2>4. CASE o # t
    <3>1. status'[o] = status[o]
      BY <2>1, <2>4
    <3> QED
      BY <2>1, <2>2, <3>1
  <2> QED
    BY <2>3, <2>4
<1>5. ASSUME NEW o \in Trips, NEW s \in due'[o]
      PROVE  s # "payment_processing" /\ Rank(s) <= Rank(status'[o])
  <2>1. CASE s \in due[o]
    <3>1. s # "payment_processing" /\ Rank(s) <= Rank(status[o]) /\ Rank(s) \in Nat
      BY <1>4, <2>1, RankIsNat DEF AnnouncedOnce
    <3> QED
      BY <1>4, <3>1
  <2>2. CASE s \notin due[o]
    <3>1. o = t /\ s = to /\ status'[o] = to
      BY <1>4, <1>5, <2>2
    <3> QED
      BY <1>1, <3>1
  <2> QED
    BY <2>1, <2>2
<1>6. ASSUME NEW o \in Trips, NEW s \in TripStatus, Rank(s) <= Rank(status[o]),
             s \notin due[o]
      PROVE  Rank(s) <= Rank(status'[o]) /\ s \notin due'[o]
  <2>1. Rank(s) \in Nat /\ Rank(s) <= Rank(status'[o])
    BY <1>4, <1>6, RankIsNat
  <2>2. CASE o = t
    <3>1. s # to
      BY <1>1, <1>6, <2>2
    <3> QED
      BY <1>4, <1>6, <2>1, <2>2, <3>1
  <2>3. CASE o # t
    BY <1>4, <1>6, <2>1, <2>3
  <2> QED
    BY <2>2, <2>3
<1>7. StatusesAnnounced'
  <2>1. ASSUME NEW o \in Trips, NEW s \in TripStatus \ {"payment_processing"},
               StatusEvent(o, s) \in published'
        PROVE  Rank(s) <= Rank(status'[o]) /\ s \notin due'[o]
    <3>1. Rank(s) <= Rank(status[o]) /\ s \notin due[o]
      BY <1>2, <2>1 DEF AnnouncedOnce, StatusesAnnounced
    <3> QED
      BY <1>6, <3>1
  <2> QED
    BY <2>1 DEF StatusesAnnounced, StatusEvent
<1>8. ASSUME NEW o \in Trips, PaidEvent(o) \in published'
      PROVE  Rank("paid") <= Rank(status'[o]) /\ "paid" \notin due'[o]
  <2>1. Rank("paid") <= Rank(status[o]) /\ "paid" \notin due[o]
    BY <1>2, <1>8 DEF AnnouncedOnce
  <2> QED
    BY <1>6, <2>1 DEF TripStatus
<1>9. ASSUME NEW e \in published', e.type = "identity.verified"
      PROVE  e.at > left'["kyc"]
  <2>1. e.at \in Nat /\ e.at > left["kyc"]
    BY <1>2, <1>9, VerifiedEventKind DEF BusOK, AnnouncedOnce
  <2> QED
    BY <1>3, <2>1
<1> QED
  BY <1>5, <1>7, <1>8, <1>9 DEF AnnouncedOnce, PaidEvent

LEMMA AnnounceAnnounced ==
  ASSUME AnnouncedOnce, TripsOK, BusOK, NEW t \in Trips, NEW to \in TripStatus,
         Announce(t, to)
  PROVE  AnnouncedOnce'
<1>1. /\ to \in due[t] /\ due' = [due EXCEPT ![t] = due[t] \ {to}]
      /\ UNCHANGED <<status, left>>
  BY DEF Announce
<1>2. published' \subseteq published \cup {Announcement(t, to)}
  BY AnnounceSends DEF Routes
<1>3. to # "payment_processing" /\ Rank(to) <= Rank(status[t])
  BY <1>1 DEF AnnouncedOnce
<1>4. ASSUME NEW o \in Trips
      PROVE  due'[o] = IF o = t THEN due[t] \ {to} ELSE due[o]
  BY <1>1 DEF TripsOK
<1>5. ASSUME NEW o \in Trips, NEW s \in due'[o]
      PROVE  s # "payment_processing" /\ Rank(s) <= Rank(status'[o])
  BY <1>1, <1>4, <1>5 DEF AnnouncedOnce
<1>6. StatusesAnnounced'
  <2>1. ASSUME NEW o \in Trips, NEW s \in TripStatus \ {"payment_processing"},
               StatusEvent(o, s) \in published'
        PROVE  Rank(s) <= Rank(status'[o]) /\ s \notin due'[o]
    <3>1. CASE StatusEvent(o, s) \in published
      BY <1>1, <1>4, <3>1 DEF AnnouncedOnce, StatusesAnnounced
    <3>2. CASE StatusEvent(o, s) = Announcement(t, to)
      <4>1. o = t /\ s = to
        BY <3>2, EventFields DEF Announcement
      <4> QED
        BY <1>1, <1>3, <1>4, <4>1
    <3> QED
      BY <1>2, <2>1, <3>1, <3>2
  <2> QED
    BY <2>1 DEF StatusesAnnounced, StatusEvent
<1>7. ASSUME NEW o \in Trips, PaidEvent(o) \in published'
      PROVE  Rank("paid") <= Rank(status'[o]) /\ "paid" \notin due'[o]
  <2>1. CASE PaidEvent(o) \in published
    BY <1>1, <1>4, <2>1 DEF AnnouncedOnce
  <2>2. CASE PaidEvent(o) = Announcement(t, to)
    <3>1. o = t /\ to = "paid"
      BY <2>2, EventFields DEF Announcement
    <3> QED
      BY <1>1, <1>3, <1>4, <3>1
  <2> QED
    BY <1>2, <1>7, <2>1, <2>2
<1>8. ASSUME NEW e \in published', e.type = "identity.verified"
      PROVE  e.at > left'["kyc"]
  <2>1. e \in published
    BY <1>2, <1>8, EventFields DEF Announcement
  <2> QED
    BY <1>1, <1>8, <2>1 DEF AnnouncedOnce
<1> QED
  BY <1>5, <1>6, <1>7, <1>8 DEF AnnouncedOnce, PaidEvent

LEMMA AnnouncedStep ==
  ASSUME AnnouncedOnce, TripsOK, LocOK, BusOK, RtNext
  PROVE  AnnouncedOnce'
<1>1. left'["kyc"] \in Nat /\ left["kyc"] \in Nat /\ left'["kyc"] <= left["kyc"]
  BY LeftStep DEF TripsOK
<1>2. ASSUME UNCHANGED <<status, due>>, \A e \in published' \ published : ~Restated(e)
      PROVE  AnnouncedOnce'
  BY <1>1, <1>2, AnnouncedKept
<1>3. CASE RideNext
  <2>1. ASSUME NEW u \in Users, VerifyIdentity(u)
        PROVE  AnnouncedOnce'
    <3>1. left'["kyc"] < left["kyc"] /\ UNCHANGED <<status, due>>
      BY <2>1, SpendLeft DEF VerifyIdentity, rideVars
    <3>2. published' \subseteq published \cup {VerifiedEvent(u)}
      BY <2>1, VerifySends DEF Routes
    <3>3. ~Restated(VerifiedEvent(u))
      BY <1>1, <3>1, EventFields DEF Restated
    <3> QED
      BY <1>2, <3>1, <3>2, <3>3
  <2>2. ASSUME NEW t \in Trips, NEW pickup \in Places, RequestTrip(t, pickup)
        PROVE  AnnouncedOnce'
    <3>1. published' \subseteq published \cup {Offer(t, pickup)} /\ UNCHANGED <<status, due>>
      BY <2>2, RequestSends DEF Routes, RequestTrip, rideVars
    <3>2. ~Restated(Offer(t, pickup))
      BY EventFields DEF Restated
    <3> QED
      BY <1>2, <3>1, <3>2
  <2>3. ASSUME NEW d \in Drivers, SetOnlineStatus(d)
        PROVE  AnnouncedOnce'
    BY <1>2, <2>3 DEF SetOnlineStatus
  <2> QED
    BY <1>3, <2>1, <2>2, <2>3, MoveTripAnnounced, AnnounceAnnounced DEF RideNext
<1>4. CASE LocNext
  <2>1. UNCHANGED <<status, due>>
    BY <1>4 DEF LocNext, rideVars
  <2>2. ASSUME NEW r \in LocReqs, PublishLocation(r)
        PROVE  AnnouncedOnce'
    <3> DEFINE e == LocationEvent(locReqs[r].driver, locReqs[r].place)
    <3>1. published' \subseteq published \cup {e}
      BY <2>2, LocationSends DEF Routes
    <3>2. ~Restated(e)
      BY EventFields DEF Restated
    <3> QED
      BY <1>2, <2>1, <3>1, <3>2
  <2>3. CASE UNCHANGED published
    BY <1>2, <2>1, <2>3
  <2> QED
    BY <1>4, <2>2, <2>3, LocCases
    DEF ReportLocation, LogFraudAlert, StoreLocation, FailReport, RestartLocation
<1>5. CASE NotifyNext \/ GatewayNext
  BY <1>2, <1>5, NotifyFrame, GatewayFrame DEF rideVars
<1>6. CASE PaymentNext
  <2>1. UNCHANGED <<status, due>>
    BY <1>6, PaymentFrame DEF rideVars
  <2>2. ASSUME NEW s \in Subscriptions, NEW i \in DOMAIN queues[s],
               AnnounceProcessing(s, i)
        PROVE  AnnouncedOnce'
    <3>1. CASE UNCHANGED published
      BY <1>2, <2>1, <3>1
    <3>2. ASSUME NEW t \in Trips, published' \subseteq published \cup {ProcessingEvent(t)}
          PROVE  AnnouncedOnce'
      <4>1. ~Restated(ProcessingEvent(t))
        BY EventFields DEF Restated, ProcessingEvent
      <4> QED
        BY <1>2, <2>1, <3>2, <4>1
    <3> QED
      BY <2>2, <3>1, <3>2, ProcessingSends DEF Routes
  <2>3. CASE RestartPayment
    BY <1>2, <2>1, <2>3 DEF RestartPayment
  <2> QED
    BY <1>6, <2>2, <2>3 DEF PaymentNext
<1> QED
  BY <1>3, <1>4, <1>5, <1>6 DEF RtNext

-------------------------------------------------------------------------------
\* The notification service: nobody is notified twice

LEMMA NotifyingQueues ==
  \A s, o \in Subscriptions : Notifying(s) /\ Notifying(o) =>
    /\ s[2] \in {"trip.status_changed", "identity.verified", "payment.completed"}
    /\ s # o => s[2] # o[2]
BY DEF Notifying, Subscriptions

\* An event no user was told of before, or none will be told of.
NewToUsers(e) == \/ e \notin published
                 \/ ~HasMessage(e)
                 \/ e.type \in {"trip.requested", "driver.location_updated"}

\* Where events are before the step, in one place.
LEMMA EventsPublished ==
  ASSUME BusOK, NotifyOK
  PROVE  /\ \A s \in Subscriptions : \A i \in DOMAIN queues[s] : queues[s][i] \in published
         /\ \A d \in deliveries : d.event \in published
         /\ \A n \in DOMAIN notifications : notifications[n].event \in published
<1>1. \A n \in DOMAIN notifications : notifications[n] \in [event : published, read : BOOLEAN]
  BY ElementIn DEF NotifyOK
<1> QED
  BY <1>1, QueuedEvent DEF NotifyOK

\* One such event more in a queue, or none.
LEMMA NotifyKept ==
  ASSUME NotifyInv, NotifyOK, BusOK, UNCHANGED <<deliveries, notifications>>,
         NEW e, NewToUsers(e),
         \A s \in Subscriptions : Notifying(s) =>
           \/ queues'[s] = queues[s]
           \/ s[2] = e.type /\ queues'[s] = Append(queues[s], e) /\ e \in published'
  PROVE  NotifyInv'
<1>1. ASSUME NEW s \in Subscriptions, Notifying(s), NEW i \in DOMAIN queues'[s],
             HasMessage(queues'[s][i])
      PROVE  /\ \A j \in DOMAIN queues'[s] : queues'[s][j] = queues'[s][i] => j = i
             /\ \A d \in deliveries' : d.event # queues'[s][i]
             /\ \A n \in DOMAIN notifications' : notifications'[n].event # queues'[s][i]
  <2>1. CASE queues'[s] = queues[s]
    BY <1>1, <2>1 DEF NotifyInv, QueuedOnce
  <2>2. CASE s[2] = e.type /\ queues'[s] = Append(queues[s], e)
    <3> DEFINE q == queues[s]
               n == Len(q) + 1
    <3>1. q \in Seq(published \cup {e})
      BY SeqOverMore DEF BusOK
    <3>2. /\ Len(q) \in Nat /\ DOMAIN q = 1 .. Len(q) /\ DOMAIN queues'[s] = 1 .. n
          /\ \A j \in DOMAIN q : queues'[s][j] = q[j]
          /\ queues'[s][n] = e
      BY <3>1, <2>2, AppendElements
    <3>3. ~HasMessage(e) \/ e \notin published
      BY <1>1, <2>2, NotifyingQueues DEF NewToUsers
    <3>4. HasMessage(e) => \A j \in DOMAIN q : q[j] # e
      BY <3>3, EventsPublished
    <3>5. CASE i = n
      <4>1. queues'[s][i] = e /\ e \notin published
        BY <1>1, <3>2, <3>3, <3>5
      <4>2. \A j \in DOMAIN queues'[s] : queues'[s][j] = e => j = n
        BY <1>1, <3>2, <3>4, <4>1
      <4> QED
        BY <4>1, <4>2, <3>5, EventsPublished
    <3>6. CASE i # n
      <4>1. i \in DOMAIN q /\ queues'[s][i] = q[i] /\ HasMessage(q[i])
        BY <1>1, <3>2, <3>6
      <4>2. \A j \in DOMAIN queues'[s] : queues'[s][j] = q[i] => j = i
        <5>1. ASSUME NEW j \in DOMAIN queues'[s], queues'[s][j] = q[i]
              PROVE  j = i
          <6>1. CASE j = n
            BY <3>2, <3>4, <4>1, <5>1, <6>1
          <6>2. CASE j # n
            <7>1. j \in DOMAIN q /\ q[j] = q[i]
              BY <3>2, <5>1, <6>2
            <7> QED
              BY <1>1, <4>1, <7>1 DEF NotifyInv, QueuedOnce
          <6> QED
            BY <6>1, <6>2
        <5> QED
          BY <5>1
      <4> QED
        BY <1>1, <4>1, <4>2 DEF NotifyInv, QueuedOnce
    <3> QED
      BY <3>5, <3>6
  <2> QED
    BY <1>1, <2>1, <2>2
<1>2. QueuedOnce'
  BY <1>1 DEF QueuedOnce, Notifying, HasMessage
<1>3. HandledOnce' /\ NotifiedOnce'
  BY DEF NotifyInv, HandledOnce, NotifiedOnce
<1> QED
  BY <1>2, <1>3 DEF NotifyInv

\* No notifying queue changed.
LEMMA NotifyIdle ==
  ASSUME NotifyInv, UNCHANGED <<deliveries, notifications>>,
         \A s \in Subscriptions : Notifying(s) => queues'[s] = queues[s]
  PROVE  NotifyInv'
<1>1. QueuedOnce'
  BY DEF NotifyInv, QueuedOnce, Notifying, HasMessage
<1>2. HandledOnce' /\ NotifiedOnce'
  BY DEF NotifyInv, HandledOnce, NotifiedOnce
<1> QED
  BY <1>1, <1>2 DEF NotifyInv

LEMMA DeliverOnce ==
  ASSUME NotifyInv, NotifyOK, BusOK, NEW s \in Subscriptions,
         NEW i \in DOMAIN queues[s], Deliver(s, i)
  PROVE  NotifyInv'
<1> DEFINE event == queues[s][1]
           new   == [pc |-> "save", event |-> event, id |-> 0]
<1>1. Takes(queues', s, i) /\ Notifying(s)
  BY DeliverTakes
<1>2. /\ i = 1 /\ 1 \in DOMAIN queues[s] /\ queues[s] # <<>> /\ queues'[s] = Tail(queues[s])
      /\ \A o \in Subscriptions \ {s} : queues'[o] = queues[o]
  BY <1>1 DEF Takes
<1>3. /\ deliveries' = IF HasMessage(event) THEN deliveries \cup {new} ELSE deliveries
      /\ UNCHANGED notifications
  BY <1>2 DEF Deliver
<1>4. new.event = event /\ new.pc = "save"
  OBVIOUS
<1> HIDE DEF new
<1>5. HasMessage(event) =>
        /\ \A j \in DOMAIN queues[s] : queues[s][j] = event => j = 1
        /\ \A d \in deliveries : d.event # event
        /\ \A n \in DOMAIN notifications : notifications[n].event # event
  BY <1>1, <1>2 DEF NotifyInv, QueuedOnce
<1>6. /\ \A j \in DOMAIN queues'[s] : j \in Nat \ {0} /\ j + 1 \in DOMAIN queues[s]
                                      /\ queues'[s][j] = queues[s][j + 1]
  <2>1. queues[s] \in Seq(published)
    BY DEF BusOK
  <2> QED
    BY <1>2, <2>1, TailElements
<1>7. ASSUME NEW o \in Subscriptions, Notifying(o), NEW j \in DOMAIN queues'[o],
             HasMessage(queues'[o][j])
      PROVE  /\ \A k \in DOMAIN queues'[o] : queues'[o][k] = queues'[o][j] => k = j
             /\ \A d \in deliveries' : d.event # queues'[o][j]
             /\ \A n \in DOMAIN notifications' : notifications'[n].event # queues'[o][j]
  <2>1. CASE o = s
    <3>1. j \in Nat \ {0} /\ j + 1 \in DOMAIN queues[s] /\ queues'[s][j] = queues[s][j + 1]
      BY <1>6, <1>7, <2>1
    <3>2. /\ \A k \in DOMAIN queues[s] : queues[s][k] = queues[s][j + 1] => k = j + 1
          /\ \A d \in deliveries : d.event # queues[s][j + 1]
          /\ \A n \in DOMAIN notifications : notifications[n].event # queues[s][j + 1]
      BY <1>1, <1>7, <2>1, <3>1 DEF NotifyInv, QueuedOnce
    <3>3. event # queues[s][j + 1]
      BY <1>2, <3>1, <3>2
    <3>4. \A k \in DOMAIN queues'[s] : queues'[s][k] = queues'[s][j] => k = j
      BY <1>6, <3>1, <3>2
    <3> QED
      BY <1>3, <1>4, <2>1, <3>1, <3>2, <3>3, <3>4
  <2>2. CASE o # s
    <3>1. queues'[o] = queues[o]
      BY <1>2, <2>2
    <3>2. queues[o][j].type = o[2] /\ event.type = s[2] /\ o[2] # s[2]
      BY <1>1, <1>2, <1>7, <2>2, <3>1, QueuedEvent, NotifyingQueues
    <3>3. event # queues[o][j]
      BY <3>2
    <3>4. /\ \A k \in DOMAIN queues[o] : queues[o][k] = queues[o][j] => k = j
          /\ \A d \in deliveries : d.event # queues[o][j]
          /\ \A n \in DOMAIN notifications : notifications[n].event # queues[o][j]
      BY <1>7, <3>1 DEF NotifyInv, QueuedOnce
    <3> QED
      BY <1>3, <1>4, <3>1, <3>3, <3>4
  <2> QED
    BY <2>1, <2>2
<1>8. QueuedOnce'
  BY <1>7 DEF QueuedOnce, Notifying, HasMessage
<1>9. HandledOnce'
  BY <1>3, <1>4, <1>5 DEF NotifyInv, HandledOnce
<1> QED
  BY <1>3, <1>8, <1>9 DEF NotifyInv, NotifiedOnce

LEMMA SaveOnce ==
  ASSUME NotifyInv, NotifyOK, BusOK, NEW d \in deliveries, SaveNotification(d)
  PROVE  NotifyInv'
<1> DEFINE last == Len(notifications) + 1
           done == Pushing(d, Len(notifications'))
<1>1. /\ d \in [pc : {"save", "push"}, event : published, id : Nat]
      /\ notifications \in Seq(Saved(published))
  BY DEF NotifyOK, Saved
<1>2. /\ d.pc = "save"
      /\ notifications' = Append(notifications, [event |-> d.event, read |-> FALSE])
      /\ deliveries' = (deliveries \ {d}) \cup {done}
      /\ UNCHANGED queues
  BY DEF SaveNotification, Pushing
<1>3. /\ Len(notifications) \in Nat /\ Len(notifications') = last
      /\ DOMAIN notifications = 1 .. Len(notifications) /\ DOMAIN notifications' = 1 .. last
      /\ \A n \in DOMAIN notifications : notifications'[n] = notifications[n]
      /\ notifications'[last].event = d.event
  BY <1>1, <1>2, SaveAppends
<1>4. done.event = d.event /\ done.pc = "push"
  BY <1>1, <1>3, PushingIs
<1> HIDE DEF done
<1>5. ASSUME NEW n \in DOMAIN notifications'
      PROVE  \/ n = last /\ notifications'[n].event = d.event
             \/ n \in DOMAIN notifications /\ notifications'[n].event = notifications[n].event
  BY <1>3
<1>6. \A f \in deliveries \ {d} : f.event # d.event
  BY DEF NotifyInv, HandledOnce
<1>7. \A n \in DOMAIN notifications : notifications[n].event # d.event
  BY <1>2 DEF NotifyInv, HandledOnce
<1>8. ASSUME NEW s \in Subscriptions, Notifying(s), NEW i \in DOMAIN queues'[s],
             HasMessage(queues'[s][i])
      PROVE  /\ \A j \in DOMAIN queues'[s] : queues'[s][j] = queues'[s][i] => j = i
             /\ \A f \in deliveries' : f.event # queues'[s][i]
             /\ \A n \in DOMAIN notifications' : notifications'[n].event # queues'[s][i]
  <2>1. /\ \A j \in DOMAIN queues[s] : queues[s][j] = queues[s][i] => j = i
        /\ \A f \in deliveries : f.event # queues[s][i]
        /\ \A n \in DOMAIN notifications : notifications[n].event # queues[s][i]
    BY <1>2, <1>8 DEF NotifyInv, QueuedOnce
  <2> QED
    BY <1>2, <1>4, <1>5, <2>1
<1>9. QueuedOnce'
  BY <1>8 DEF QueuedOnce, Notifying, HasMessage
<1>10. HandledOnce'
  <2>1. \A f, g \in deliveries' : f.event = g.event => f = g
    BY <1>2, <1>4, <1>6 DEF NotifyInv, HandledOnce
  <2>2. ASSUME NEW f \in deliveries', f.pc = "save", NEW n \in DOMAIN notifications'
        PROVE  notifications'[n].event # f.event
    <3>1. f \in deliveries \ {d}
      BY <1>2, <1>4, <2>2
    <3> QED
      BY <1>5, <1>6, <2>2, <3>1 DEF NotifyInv, HandledOnce
  <2> QED
    BY <2>1, <2>2 DEF HandledOnce
<1>11. NotifiedOnce'
  <2>1. ASSUME NEW i \in DOMAIN notifications', NEW j \in DOMAIN notifications',
               notifications'[i].event = notifications'[j].event
        PROVE  i = j
    BY <1>5, <1>7, <2>1 DEF NotifyInv, NotifiedOnce
  <2> QED
    BY <2>1 DEF NotifiedOnce
<1> QED
  BY <1>9, <1>10, <1>11 DEF NotifyInv

\* A handler that ends, or a notification that is marked read, repeats nothing.
LEMMA FewerOnce ==
  ASSUME NotifyInv, UNCHANGED queues, deliveries' \subseteq deliveries,
         DOMAIN notifications' = DOMAIN notifications,
         \A n \in DOMAIN notifications : notifications'[n].event = notifications[n].event
  PROVE  NotifyInv'
<1>1. QueuedOnce'
  BY DEF NotifyInv, QueuedOnce, Notifying, HasMessage
<1>2. HandledOnce' /\ NotifiedOnce'
  BY DEF NotifyInv, HandledOnce, NotifiedOnce
<1> QED
  BY <1>1, <1>2 DEF NotifyInv

LEMMA NotifyNextOnce ==
  ASSUME NotifyInv, NotifyOK, BusOK, NotifyNext
  PROVE  NotifyInv'
<1>1. ASSUME NEW d \in deliveries, PushNotification(d) \/ FailDelivery(d)
      PROVE  NotifyInv'
  BY <1>1, FewerOnce DEF PushNotification, FailDelivery
<1>2. ASSUME NEW u \in Users, NEW i \in DOMAIN notifications, MarkRead(u, i)
      PROVE  NotifyInv'
  <2>1. notifications \in Seq(Saved(published))
    BY DEF NotifyOK, Saved
  <2>2. /\ DOMAIN notifications' = DOMAIN notifications
        /\ \A n \in DOMAIN notifications : notifications'[n].event = notifications[n].event
    BY <1>2, <2>1, MarkReadKeeps
  <2> QED
    BY <1>2, <2>2, FewerOnce DEF MarkRead
<1>3. ASSUME NEW u, NEW token, RegisterDevice(u, token)
      PROVE  NotifyInv'
  BY <1>3, FewerOnce DEF RegisterDevice
<1>4. CASE RestartNotification
  <2>1. deliveries' = {} /\ queues' = Emptied("notification") /\ UNCHANGED <<notifications, published>>
    BY <1>4 DEF RestartNotification
  <2>2. \A s \in Subscriptions : Notifying(s) => queues'[s] = <<>>
    BY <2>1, EmptiedEmpties DEF Empties, Notifying
  <2>3. QueuedOnce'
    BY <2>2, EmptySeq DEF QueuedOnce, Notifying
  <2> QED
    BY <2>1, <2>3 DEF NotifyInv, HandledOnce, NotifiedOnce
<1> QED
  BY <1>1, <1>2, <1>3, <1>4, DeliverOnce, SaveOnce DEF NotifyNext, Notify, NotifyStep

LEMMA OnceStep ==
  ASSUME NotifyInv, NotifyOK, AnnouncedOnce, TripsOK, LocOK, BusOK, RtNext
  PROVE  NotifyInv'
<1>1. ASSUME NEW service, NEW e, NewToUsers(e), Routes(queues, service, e),
             UNCHANGED <<deliveries, notifications>>
      PROVE  NotifyInv'
  BY <1>1, NotifyKept DEF Routes
<1>2. ASSUME UNCHANGED <<queues, deliveries, notifications>>
      PROVE  NotifyInv'
  BY <1>2, NotifyIdle
<1>3. ASSUME NEW service, service # "notification", queues' = Emptied(service),
             UNCHANGED <<published, deliveries, notifications>>
      PROVE  NotifyInv'
  <2>1. Empties(service)
    BY <1>3, EmptiedEmpties
  <2> QED
    BY <1>3, <2>1, NotifyIdle DEF Empties, Notifying
<1>4. CASE RideNext
  <2>1. UNCHANGED <<deliveries, notifications>>
    BY <1>4, RideFrame DEF notifyVars
  <2>2. ASSUME NEW t \in Trips, NEW to \in TripStatus, Announce(t, to)
        PROVE  NotifyInv'
    <3>1. to \in due[t]
      BY <2>2 DEF Announce
    <3>2. NewToUsers(Announcement(t, to))
      BY <3>1, AnnounceFresh DEF NewToUsers
    <3> QED
      BY <1>1, <2>1, <2>2, <3>2, AnnounceSends
  <2>3. ASSUME NEW u \in Users, VerifyIdentity(u)
        PROVE  NotifyInv'
    BY <1>1, <2>1, <2>3, VerifyFresh, VerifySends DEF NewToUsers
  <2>4. ASSUME NEW t \in Trips, NEW pickup \in Places, RequestTrip(t, pickup)
        PROVE  NotifyInv'
    BY <1>1, <2>1, <2>4, RequestSends, EventFields DEF NewToUsers
  <2> QED
    BY <1>2, <1>4, <2>1, <2>2, <2>3, <2>4 DEF RideNext, MoveTrip, SetOnlineStatus
<1>5. CASE LocNext
  <2>1. UNCHANGED <<deliveries, notifications>>
    BY <1>5 DEF LocNext, notifyVars
  <2>2. ASSUME NEW r \in LocReqs, PublishLocation(r)
        PROVE  NotifyInv'
    BY <1>1, <2>1, <2>2, LocationSends, EventFields DEF NewToUsers
  <2>3. CASE UNCHANGED queues
    BY <1>2, <2>1, <2>3
  <2> QED
    BY <1>5, <2>2, <2>3, LocCases
    DEF ReportLocation, LogFraudAlert, StoreLocation, FailReport, RestartLocation
<1>6. CASE PaymentNext
  <2>1. UNCHANGED <<deliveries, notifications>>
    BY <1>6, PaymentFrame DEF notifyVars
  <2>2. ASSUME NEW s \in Subscriptions, NEW i \in DOMAIN queues[s],
               AnnounceProcessing(s, i)
        PROVE  NotifyInv'
    <3>1. ~Notifying(s)
      BY <2>2, ProcessingSends DEF Notifying
    <3>2. CASE Takes(queues', s, i)
      BY <2>1, <3>1, <3>2, NotifyIdle DEF Takes
    <3>3. ASSUME NEW t \in Trips, NEW q, Takes(q, s, i), Routes(q, "payment", ProcessingEvent(t))
          PROVE  NotifyInv'
      <4>1. NewToUsers(ProcessingEvent(t))
        BY EventFields DEF NewToUsers, HasMessage, ProcessingEvent, MessageStatus
      <4>2. \A o \in Subscriptions : Notifying(o) => q[o] = queues[o]
        BY <3>1, <3>3 DEF Takes
      <4> QED
        BY <2>1, <3>3, <4>1, <4>2, NotifyKept DEF Routes
    <3> QED
      BY <2>2, <3>2, <3>3, ProcessingSends
  <2> QED
    BY <1>3, <1>6, <2>1, <2>2 DEF PaymentNext, RestartPayment
<1>7. CASE GatewayNext
  <2>1. UNCHANGED <<deliveries, notifications, published>>
    BY <1>7, GatewayFrame DEF notifyVars
  <2>2. ASSUME NEW s \in Subscriptions, NEW i \in DOMAIN queues[s], s[1] = "gateway", Take(s, i)
        PROVE  NotifyInv'
    BY <2>1, <2>2, ShowTakes, NotifyIdle DEF Takes, Notifying
  <2>3. CASE RestartGateway
    BY <1>3, <2>1, <2>3 DEF RestartGateway
  <2>4. CASE UNCHANGED queues
    BY <1>2, <2>1, <2>4
  <2> QED
    BY <1>7, <2>2, <2>3, <2>4
    DEF GatewayNext, GatewayStep, GatewayArrival, ShowStatus, ShowOffer, ShowLocation,
        Connect, Disconnect, JoinTrip, LeaveTrip
<1> QED
  BY <1>4, <1>5, <1>6, <1>7, NotifyNextOnce DEF RtNext

-------------------------------------------------------------------------------
\* The gateway: types, and offers

Socket == [user : Users \cup {Nowhere}, rooms : SUBSET (Trips \cup Users)]

\* A socket is in no driver's room but its own account's.
OwnRooms(s) == /\ s \in Socket /\ s.rooms \subseteq Trips \cup {s.user}
               /\ s.user = Nowhere => s.rooms = {}

SocketsOK(table) == table \in [Sockets -> Socket] /\ \A c \in Sockets : OwnRooms(table[c])

LEMMA GatewayParts ==
  /\ GatewayOK => SocketsOK(sockets)
  /\ SocketsOK(sockets') /\ screen' \in [Sockets -> Seq(Trips \X TripStatus)]
     /\ offers' \in [Sockets -> SUBSET (Trips \X Users)]
     /\ map' \in [Sockets -> [Drivers -> Places \cup {Nowhere}]] => GatewayOK'
BY DEF GatewayOK, SocketsOK, OwnRooms, Socket

LEMMA OfflineOwn == OwnRooms(Offline) /\ Offline.user = Nowhere /\ Offline.rooms = {}
BY DEF OwnRooms, Offline, Socket

\* A connected socket has an account.
LEMMA OnlineHasUser ==
  ASSUME NEW s, OwnRooms(s), s # Offline
  PROVE  s.user \in Users
BY DEF OwnRooms, Offline, Socket

LEMMA ArrivalSockets ==
  ASSUME GatewayOK, GatewayArrival \/ RestartGateway
  PROVE  SocketsOK(sockets')
<1>1. SocketsOK(sockets)
  BY GatewayParts
<1>2. ASSUME NEW c \in Sockets, NEW new, OwnRooms(new), sockets' = [sockets EXCEPT ![c] = new]
      PROVE  SocketsOK(sockets')
  BY <1>1, <1>2 DEF SocketsOK, OwnRooms
<1>3. ASSUME NEW c \in Sockets, NEW u \in Users, Connect(c, u)
      PROVE  SocketsOK(sockets')
  <2> DEFINE new == [user |-> u, rooms |-> {UserOf[d] : d \in Drivers} \cap {u}]
  <2>1. sockets' = [sockets EXCEPT ![c] = new]
    BY <1>3 DEF Connect
  <2>2. OwnRooms(new)
    BY RealtimeAssumption DEF OwnRooms, Socket
  <2> QED
    BY <1>2, <2>1, <2>2
<1>4. ASSUME NEW c \in Sockets, NEW rooms \in SUBSET (sockets[c].rooms \cup Trips),
             sockets[c] # Offline \/ rooms = {},
             sockets' = [sockets EXCEPT ![c] = [sockets[c] EXCEPT !.rooms = rooms]]
      PROVE  SocketsOK(sockets')
  <2> DEFINE new == [sockets[c] EXCEPT !.rooms = rooms]
  <2>1. OwnRooms(sockets[c])
    BY <1>1 DEF SocketsOK
  <2>2. new \in Socket /\ new.user = sockets[c].user /\ new.rooms = rooms
    BY <2>1 DEF OwnRooms, Socket
  <2>3. new.user = Nowhere => rooms = {}
    BY <1>4, <2>1, <2>2, OnlineHasUser, RealtimeAssumption
  <2>4. OwnRooms(new)
    BY <2>1, <2>2, <2>3 DEF OwnRooms
  <2> QED
    BY <1>2, <1>4, <2>4
<1>5. ASSUME NEW c \in Sockets, NEW t \in Trips, JoinTrip(c, t)
      PROVE  SocketsOK(sockets')
  <2> DEFINE rooms == sockets[c].rooms \cup {t}
  <2>1. /\ sockets[c] # Offline /\ rooms \in SUBSET (sockets[c].rooms \cup Trips)
        /\ sockets' = [sockets EXCEPT ![c] = [sockets[c] EXCEPT !.rooms = rooms]]
    BY <1>5 DEF JoinTrip
  <2> HIDE DEF rooms
  <2> QED
    BY <1>4, <2>1
<1>6. ASSUME NEW c \in Sockets, NEW t \in Trips, LeaveTrip(c, t)
      PROVE  SocketsOK(sockets')
  <2> DEFINE rooms == sockets[c].rooms \ {t}
  <2>1. /\ sockets[c] # Offline /\ rooms \in SUBSET (sockets[c].rooms \cup Trips)
        /\ sockets' = [sockets EXCEPT ![c] = [sockets[c] EXCEPT !.rooms = rooms]]
    BY <1>6, OfflineOwn DEF LeaveTrip
  <2> HIDE DEF rooms
  <2> QED
    BY <1>4, <2>1
<1>7. ASSUME NEW c \in Sockets, Disconnect(c)
      PROVE  SocketsOK(sockets')
  BY <1>2, <1>7, OfflineOwn DEF Disconnect
<1>8. CASE RestartGateway
  BY <1>8, OfflineOwn DEF RestartGateway, SocketsOK, OwnRooms
<1> QED
  BY <1>3, <1>5, <1>6, <1>7, <1>8 DEF GatewayArrival

\* An offer reaches an account that is among the drivers found.
LEMMA OfferIsFor ==
  ASSUME SocketsOK(sockets), NEW c \in Sockets, NEW found \in SUBSET Users,
         found \cap sockets[c].rooms # {}
  PROVE  sockets[c].user \in found
<1>1. PICK u \in found : u \in sockets[c].rooms
  OBVIOUS
<1>2. u \notin Trips
  BY RealtimeAssumption
<1> QED
  BY <1>1, <1>2 DEF SocketsOK, OwnRooms

LEMMA ShowKeepsTypes ==
  ASSUME GatewayOK, BusOK, OffersReachFoundDrivers, NEW s \in Subscriptions,
         NEW i \in DOMAIN queues[s], ShowStatus(s, i) \/ ShowOffer(s, i) \/ ShowLocation(s, i)
  PROVE  GatewayOK' /\ OffersReachFoundDrivers'
<1> DEFINE event == queues[s][i]
<1>1. event \in published /\ EventOK(event) /\ event.type = s[2]
  BY QueuedEvent
<1>2. SocketsOK(sockets) /\ SocketsOK(sockets') /\ UNCHANGED <<published, sockets>>
  <2>1. UNCHANGED <<published, sockets>>
    BY DEF ShowStatus, ShowOffer, ShowLocation, Take
  <2> QED
    BY <2>1, GatewayParts
<1>3. /\ screen \in [Sockets -> Seq(Trips \X TripStatus)]
      /\ offers \in [Sockets -> SUBSET (Trips \X Users)]
      /\ map \in [Sockets -> [Drivers -> Places \cup {Nowhere}]]
  BY DEF GatewayOK
<1> HIDE DEF event
<1>4. CASE ShowStatus(s, i)
  <2>1. /\ event.type = "trip.status_changed" /\ UNCHANGED <<offers, map>>
        /\ screen' = [c \in Sockets |-> IF event.trip \in sockets[c].rooms
                        THEN Append(screen[c], <<event.trip, event.to>>) ELSE screen[c]]
    BY <1>1, <1>4 DEF ShowStatus, event
  <2>2. <<event.trip, event.to>> \in Trips \X TripStatus
    BY <1>1, <2>1, StatusEventKind
  <2>3. screen' \in [Sockets -> Seq(Trips \X TripStatus)]
    <3>1. ASSUME NEW c \in Sockets
          PROVE  Append(screen[c], <<event.trip, event.to>>) \in Seq(Trips \X TripStatus)
      BY <1>3, <2>2, AppendElements
    <3> QED
      BY <1>3, <2>1, <3>1
  <2> QED
    BY <1>2, <1>3, <2>1, <2>3, GatewayParts DEF OffersReachFoundDrivers
<1>5. CASE ShowOffer(s, i)
  <2>1. /\ event.type = "trip.requested" /\ UNCHANGED <<screen, map>>
        /\ offers' = [c \in Sockets |-> IF event.drivers \cap sockets[c].rooms # {}
                        THEN offers[c] \cup {<<event.trip, sockets[c].user>>} ELSE offers[c]]
    BY <1>1, <1>5 DEF ShowOffer, event
  <2>2. event.trip \in Trips /\ event.drivers \subseteq Users
    BY <1>1, <2>1, RequestEventKind
  <2>3. ASSUME NEW c \in Sockets, NEW offer \in offers'[c]
        PROVE  \/ offer \in offers[c]
               \/ /\ offer = <<event.trip, sockets[c].user>>
                  /\ sockets[c].user \in event.drivers
    BY <1>2, <2>1, <2>2, <2>3, OfferIsFor
  <2>4. offers' \in [Sockets -> SUBSET (Trips \X Users)]
    <3>1. ASSUME NEW c \in Sockets
          PROVE  offers'[c] \subseteq Trips \X Users
      <4>1. ASSUME NEW offer \in offers'[c]
            PROVE  offer \in Trips \X Users
        <5>1. CASE offer \in offers[c]
          <6>1. offers[c] \subseteq Trips \X Users
            BY <1>3
          <6> QED
            BY <5>1, <6>1
        <5>2. CASE /\ offer = <<event.trip, sockets[c].user>>
                   /\ sockets[c].user \in event.drivers
          BY <2>2, <5>2
        <5> QED
          BY <2>3, <4>1, <5>1, <5>2
      <4> QED
        BY <4>1
    <3> QED
      BY <2>1, <3>1
  <2>5. ASSUME NEW c \in Sockets, NEW offer \in offers'[c]
        PROVE  \E e \in published' : /\ e.type = "trip.requested" /\ e.trip = offer[1]
                                     /\ offer[2] \in e.drivers
    BY <1>1, <1>2, <2>1, <2>3, <2>5 DEF OffersReachFoundDrivers
  <2> QED
    BY <1>2, <1>3, <2>1, <2>4, <2>5, GatewayParts DEF OffersReachFoundDrivers
<1>6. CASE ShowLocation(s, i)
  <2>1. /\ event.type = "driver.location_updated" /\ UNCHANGED <<screen, offers>>
        /\ map' = [c \in Sockets |-> IF sockets[c] # Offline
                     THEN [map[c] EXCEPT ![event.driver] = event.place] ELSE map[c]]
    BY <1>1, <1>6 DEF ShowLocation, event
  <2>2. event.driver \in Drivers /\ event.place \in Places
    BY <1>1, <2>1, LocationEventKind
  <2>3. map' \in [Sockets -> [Drivers -> Places \cup {Nowhere}]]
    <3>1. ASSUME NEW c \in Sockets
          PROVE  [map[c] EXCEPT ![event.driver] = event.place]
                   \in [Drivers -> Places \cup {Nowhere}]
      BY <1>3, <2>2
    <3> QED
      BY <1>3, <2>1, <3>1
  <2> QED
    BY <1>2, <1>3, <2>1, <2>3, GatewayParts DEF OffersReachFoundDrivers
<1> QED
  BY <1>4, <1>5, <1>6

LEMMA GatewayStepKeeps ==
  ASSUME GatewayOK, BusOK, OffersReachFoundDrivers, RtNext, published \subseteq published'
  PROVE  GatewayOK' /\ OffersReachFoundDrivers'
<1>1. CASE GatewayArrival \/ RestartGateway
  <2>1. /\ UNCHANGED <<screen, offers>>
        /\ map' \in [Sockets -> [Drivers -> Places \cup {Nowhere}]]
    <3>1. map \in [Sockets -> [Drivers -> Places \cup {Nowhere}]]
      BY DEF GatewayOK
    <3>2. ASSUME NEW c \in Sockets, NEW u \in Users, Connect(c, u)
          PROVE  /\ UNCHANGED <<screen, offers>>
                 /\ map' \in [Sockets -> [Drivers -> Places \cup {Nowhere}]]
      <4>1. [d \in Drivers |-> Nowhere] \in [Drivers -> Places \cup {Nowhere}]
        OBVIOUS
      <4> QED
        BY <3>1, <3>2, <4>1 DEF Connect
    <3> QED
      BY <1>1, <3>1, <3>2 DEF GatewayArrival, Disconnect, JoinTrip, LeaveTrip, RestartGateway
  <2>2. SocketsOK(sockets')
    BY <1>1, ArrivalSockets
  <2>3. GatewayOK'
    BY <2>1, <2>2, GatewayParts DEF GatewayOK
  <2> QED
    BY <2>1, <2>3 DEF OffersReachFoundDrivers
<1>2. CASE UNCHANGED gatewayVars
  BY <1>2 DEF GatewayOK, OffersReachFoundDrivers, gatewayVars
<1> QED
  BY <1>1, <1>2, RideFrame, NotifyFrame, PaymentFrame, ShowKeepsTypes
  DEF RtNext, LocNext, GatewayNext, GatewayStep

-------------------------------------------------------------------------------
\* The gateway: the order of statuses

LEMMA MilestoneEvents ==
  \A t, u : /\ CompletedEvent(t) # ProcessingEvent(u)
            /\ CompletedEvent(t) = CompletedEvent(u) => t = u
            /\ ProcessingEvent(t) = ProcessingEvent(u) => t = u
BY EventFields DEF CompletedEvent, ProcessingEvent

\* The event e does not disturb the order: a completion is announced for the
\* first time, and that a trip is being paid for after its completion.
InOrder(e) ==
  /\ \A t \in Trips : e = CompletedEvent(t) => e \notin published
  /\ \A t \in Trips : e = ProcessingEvent(t) => CompletedEvent(t) \in published

LEMMA ScreenKept ==
  ASSUME ScreenInv, BusOK, UNCHANGED screen, NEW e, InOrder(e),
         published \subseteq published', published' \subseteq published \cup {e},
         \/ queues'[StatusQueue] = queues[StatusQueue]
         \/ e \in published' /\ queues'[StatusQueue] = Append(queues[StatusQueue], e)
  PROVE  ScreenInv'
<1> DEFINE q == queues[StatusQueue]
           n == Len(q) + 1
           new == queues'[StatusQueue]
<1>1. \A i \in DOMAIN q : q[i] \in published
  BY QueuedEvent, QueuesDistinct
<1>2. Len(q) \in Nat /\ DOMAIN q = 1 .. Len(q)
  BY QueuesDistinct, LenProperties DEF BusOK
<1>3. ASSUME NEW i \in DOMAIN new
      PROVE  \/ i \in DOMAIN q /\ new[i] = q[i]
             \/ i = n /\ new[i] = e /\ \A j \in DOMAIN q : j < i
  <2>1. CASE new = q
    BY <1>3, <2>1
  <2>2. CASE new = Append(q, e)
    <3>1. q \in Seq(published \cup {e})
      BY SeqOverMore, QueuesDistinct DEF BusOK
    <3> QED
      BY <1>2, <1>3, <2>2, <3>1, AppendElements
  <2> QED
    BY <2>1, <2>2
<1>4. ProcessingFollows'
  <2>1. ASSUME NEW t \in Trips, ProcessingEvent(t) \in published'
        PROVE  CompletedEvent(t) \in published'
    BY <2>1 DEF ScreenInv, ProcessingFollows, InOrder
  <2> QED
    BY <2>1 DEF ProcessingFollows, ProcessingEvent, CompletedEvent, StatusEvent
<1>5. ASSUME NEW t \in Trips, NEW i \in DOMAIN new, NEW j \in DOMAIN new,
             new[i] = ProcessingEvent(t), new[j] = CompletedEvent(t)
      PROVE  j < i
  <2>1. CASE j \in DOMAIN q /\ new[j] = q[j]
    <3>1. CASE i \in DOMAIN q /\ new[i] = q[i]
      BY <1>5, <2>1, <3>1 DEF ScreenInv
    <3>2. CASE \A k \in DOMAIN q : k < i
      BY <2>1, <3>2
    <3> QED
      BY <1>3, <3>1, <3>2
  <2>2. CASE new[j] = e
    <3>1. e \notin published /\ e # ProcessingEvent(t)
      BY <1>5, <2>2, MilestoneEvents DEF InOrder
    <3>2. ProcessingEvent(t) \notin published
      BY <1>5, <2>2, <3>1 DEF ScreenInv, ProcessingFollows
    <3> QED
      BY <1>1, <1>3, <1>5, <3>1, <3>2
  <2> QED
    BY <1>3, <2>1, <2>2
<1>6. ASSUME NEW c \in Sockets, NEW t \in Trips, NEW i \in DOMAIN screen[c],
             screen[c][i] = <<t, "payment_processing">>
      PROVE  /\ ProcessingEvent(t) \in published'
             /\ \A j \in DOMAIN new : new[j] # CompletedEvent(t)
  <2>1. /\ ProcessingEvent(t) \in published /\ CompletedEvent(t) \in published
        /\ \A j \in DOMAIN q : q[j] # CompletedEvent(t)
    BY <1>6 DEF ScreenInv, ProcessingFollows
  <2>2. e # CompletedEvent(t)
    BY <2>1 DEF InOrder
  <2> QED
    BY <1>3, <2>1, <2>2
<1>7. ScreenNeverGoesBack'
  BY DEF ScreenInv, ScreenNeverGoesBack
<1> QED
  BY <1>4, <1>5, <1>6, <1>7
  DEF ScreenInv, StatusQueue, ProcessingEvent, CompletedEvent, StatusEvent

\* The gateway's queues are lost, or taken from, and the screens stay.
LEMMA ScreenFewer ==
  ASSUME ScreenInv, UNCHANGED <<screen, published>>,
         queues'[StatusQueue] \in {queues[StatusQueue], <<>>}
  PROVE  ScreenInv'
<1>1. CASE queues'[StatusQueue] = queues[StatusQueue]
  BY <1>1 DEF ScreenInv, ProcessingFollows, ScreenNeverGoesBack, StatusQueue,
              ProcessingEvent, CompletedEvent, StatusEvent
<1>2. CASE queues'[StatusQueue] = <<>>
  <2>1. DOMAIN queues'[StatusQueue] = {}
    BY <1>2, EmptySeq
  <2> QED
    BY <2>1 DEF ScreenInv, ProcessingFollows, ScreenNeverGoesBack, StatusQueue,
                ProcessingEvent, CompletedEvent, StatusEvent
<1> QED
  BY <1>1, <1>2

LEMMA ShowStatusInOrder ==
  ASSUME ScreenInv, BusOK, GatewayOK, NEW s \in Subscriptions,
         NEW i \in DOMAIN queues[s], ShowStatus(s, i)
  PROVE  ScreenInv'
<1> DEFINE q == queues[StatusQueue]
           new == queues'[StatusQueue]
           event == q[1]
           shown == <<event.trip, event.to>>
<1>1. s = StatusQueue /\ Take(s, i)
  BY DEF ShowStatus, StatusQueue
<1>2. Takes(queues', s, i) /\ UNCHANGED published
  BY <1>1, ShowTakes
<1>3. i = 1 /\ 1 \in DOMAIN q /\ q # <<>> /\ new = Tail(q) /\ q \in Seq(published)
  BY <1>1, <1>2 DEF Takes, BusOK
<1>4. PICK t \in Trips, to \in TripStatus :
        event = StatusEvent(t, to) /\ event.trip = t /\ event.to = to
  BY <1>1, <1>3, QueuedEvent, StatusEventKind DEF StatusQueue
<1>5. event \in published /\ shown = <<t, to>> /\ shown \in Trips \X TripStatus
  BY <1>1, <1>3, <1>4, QueuedEvent
<1>6. screen' = [c \in Sockets |-> IF event.trip \in sockets[c].rooms
                                     THEN Append(screen[c], shown) ELSE screen[c]]
  BY <1>1, <1>3 DEF ShowStatus
<1>7. \A j \in DOMAIN new : j \in Nat \ {0} /\ j + 1 \in DOMAIN q /\ new[j] = q[j + 1]
  BY <1>3, TailElements
<1> HIDE DEF event, shown, new
<1>8. ASSUME NEW c \in Sockets
      PROVE  /\ Len(screen[c]) \in Nat /\ DOMAIN screen[c] = 1 .. Len(screen[c])
             /\ screen[c] \in Seq(Trips \X TripStatus)
             /\ \A k \in DOMAIN screen'[c] :
                  \/ k \in DOMAIN screen[c] /\ screen'[c][k] = screen[c][k]
                  \/ screen'[c][k] = shown /\ \A l \in DOMAIN screen[c] : l < k
  <2>1. screen[c] \in Seq(Trips \X TripStatus)
    BY DEF GatewayOK
  <2>2. Len(screen[c]) \in Nat /\ DOMAIN screen[c] = 1 .. Len(screen[c])
    BY <2>1, LenProperties
  <2>3. ASSUME NEW k \in DOMAIN screen'[c]
        PROVE  \/ k \in DOMAIN screen[c] /\ screen'[c][k] = screen[c][k]
               \/ screen'[c][k] = shown /\ \A l \in DOMAIN screen[c] : l < k
    <3>1. CASE screen'[c] = screen[c]
      BY <2>3, <3>1
    <3>2. CASE screen'[c] = Append(screen[c], shown)
      <4>1. /\ DOMAIN screen'[c] = 1 .. Len(screen[c]) + 1
            /\ \A l \in DOMAIN screen[c] : screen'[c][l] = screen[c][l]
            /\ screen'[c][Len(screen[c]) + 1] = shown
        BY <1>5, <2>1, <3>2, AppendElements
      <4> QED
        BY <2>2, <2>3, <4>1
    <3> QED
      BY <1>6, <3>1, <3>2
  <2> QED
    BY <2>1, <2>2, <2>3
<1>9. ProcessingFollows'
  BY <1>2 DEF ScreenInv, ProcessingFollows, ProcessingEvent, CompletedEvent, StatusEvent
<1>10. ASSUME NEW u \in Trips, NEW k \in DOMAIN new, NEW j \in DOMAIN new,
              new[k] = ProcessingEvent(u), new[j] = CompletedEvent(u)
       PROVE  j < k
  <2>1. j + 1 < k + 1 /\ j \in Nat /\ k \in Nat
    BY <1>7, <1>10 DEF ScreenInv
  <2> QED
    BY <2>1
<1>11. ASSUME NEW c \in Sockets, NEW u \in Trips, NEW k \in DOMAIN screen'[c],
              screen'[c][k] = <<u, "payment_processing">>
       PROVE  /\ ProcessingEvent(u) \in published'
              /\ \A j \in DOMAIN new : new[j] # CompletedEvent(u)
  <2>1. CASE k \in DOMAIN screen[c] /\ screen'[c][k] = screen[c][k]
    <3>1. /\ ProcessingEvent(u) \in published
          /\ \A j \in DOMAIN q : q[j] # CompletedEvent(u)
      BY <1>11, <2>1 DEF ScreenInv
    <3> QED
      BY <1>2, <1>7, <3>1
  <2>2. CASE screen'[c][k] = shown
    <3>1. event = ProcessingEvent(u) /\ q[1] = ProcessingEvent(u)
      BY <1>4, <1>5, <1>11, <2>2 DEF ProcessingEvent, event
    <3>2. \A j \in DOMAIN q : q[j] = CompletedEvent(u) => j < 1
      BY <1>3, <3>1 DEF ScreenInv
    <3>3. ASSUME NEW j \in DOMAIN new
          PROVE  new[j] # CompletedEvent(u)
      <4>1. j \in Nat \ {0} /\ j + 1 \in DOMAIN q /\ new[j] = q[j + 1] /\ ~(j + 1 < 1)
        BY <1>7
      <4> QED
        BY <3>2, <4>1
    <3> QED
      BY <1>2, <1>5, <3>1, <3>3
  <2> QED
    BY <1>8, <2>1, <2>2
<1>12. ScreenNeverGoesBack'
  <2>1. ASSUME NEW c \in Sockets, NEW k \in DOMAIN screen'[c], NEW l \in DOMAIN screen'[c],
               screen'[c][k][2] = "payment_processing",
               screen'[c][l] = <<screen'[c][k][1], "completed">>
        PROVE  l < k
    <3>1. CASE l \in DOMAIN screen[c] /\ screen'[c][l] = screen[c][l]
      <4>1. CASE k \in DOMAIN screen[c] /\ screen'[c][k] = screen[c][k]
        BY <2>1, <3>1, <4>1 DEF ScreenInv, ScreenNeverGoesBack
      <4>2. CASE \A m \in DOMAIN screen[c] : m < k
        BY <3>1, <4>2
      <4> QED
        BY <1>8, <4>1, <4>2
    <3>2. CASE screen'[c][l] = shown
      <4>1. shown = <<t, "completed">> /\ t = screen'[c][k][1] /\ to = "completed"
        BY <1>5, <2>1, <3>2
      <4>2. CASE k \in DOMAIN screen[c] /\ screen'[c][k] = screen[c][k]
        <5>1. screen[c][k] \in Trips \X TripStatus
          BY <1>8, <4>2, ElementIn
        <5>2. screen[c][k] = <<t, "payment_processing">>
          BY <2>1, <4>1, <4>2, <5>1
        <5>3. \A j \in DOMAIN q : q[j] # CompletedEvent(t)
          BY <5>2, <4>2 DEF ScreenInv
        <5> QED
          BY <1>3, <1>4, <4>1, <5>3 DEF CompletedEvent, event
      <4>3. CASE screen'[c][k] = shown
        BY <2>1, <4>1, <4>3
      <4> QED
        BY <1>8, <4>2, <4>3
    <3> QED
      BY <1>8, <3>1, <3>2
  <2> QED
    BY <2>1 DEF ScreenNeverGoesBack
<1> QED
  BY <1>9, <1>10, <1>11, <1>12
  DEF ScreenInv, StatusQueue, ProcessingEvent, CompletedEvent, StatusEvent, new

\* A queue of the gateway that holds no statuses was taken from.
LEMMA ShowOtherInOrder ==
  ASSUME ScreenInv, BusOK, NEW s \in Subscriptions, NEW i \in DOMAIN queues[s],
         s # StatusQueue, Take(s, i), UNCHANGED screen
  PROVE  ScreenInv'
<1>1. Takes(queues', s, i) /\ UNCHANGED published
  BY ShowTakes
<1>2. queues'[StatusQueue] = queues[StatusQueue]
  BY <1>1, QueuesDistinct DEF Takes
<1> QED
  BY <1>1, <1>2, ScreenFewer

\* The queue of statuses gets what a service routes to it.
LEMMA RoutedInOrder ==
  ASSUME ScreenInv, BusOK, UNCHANGED screen, NEW q, q[StatusQueue] = queues[StatusQueue],
         NEW service, NEW e, InOrder(e), Routes(q, service, e)
  PROVE  ScreenInv'
<1>1. /\ published \subseteq published' /\ published' \subseteq published \cup {e}
      /\ \/ queues'[StatusQueue] = queues[StatusQueue]
         \/ e \in published' /\ queues'[StatusQueue] = Append(queues[StatusQueue], e)
  BY QueuesDistinct DEF Routes
<1> QED
  BY <1>1, ScreenKept

LEMMA AnnounceInOrder ==
  ASSUME AnnouncedOnce, NEW t \in Trips, NEW to \in TripStatus, to \in due[t]
  PROVE  InOrder(Announcement(t, to))
<1>1. Announcement(t, to) \notin published /\ to # "payment_processing"
  BY AnnounceFresh
<1>2. \A u : Announcement(t, to) # ProcessingEvent(u)
  BY <1>1, EventFields DEF Announcement, ProcessingEvent
<1> QED
  BY <1>1, <1>2 DEF InOrder

\* Events of another type do not concern the order.
LEMMA OtherInOrder ==
  ASSUME NEW e, e.type # "trip.status_changed"
  PROVE  InOrder(e)
BY EventFields DEF InOrder, CompletedEvent, ProcessingEvent

LEMMA ScreenStep ==
  ASSUME ScreenInv, AnnouncedOnce, BusOK, LocOK, TripsOK, GatewayOK, RtNext
  PROVE  ScreenInv'
<1>1. ASSUME NEW service, NEW e, InOrder(e), Routes(queues, service, e), UNCHANGED screen
      PROVE  ScreenInv'
  BY <1>1, RoutedInOrder
<1>2. ASSUME UNCHANGED <<queues, published, screen>>
      PROVE  ScreenInv'
  BY <1>2, ScreenFewer
<1>3. ASSUME NEW service, queues' = Emptied(service), UNCHANGED <<published, screen>>
      PROVE  ScreenInv'
  <2>1. queues'[StatusQueue] \in {queues[StatusQueue], <<>>}
    BY <1>3, EmptiedEmpties, QueuesDistinct DEF Empties
  <2> QED
    BY <1>3, <2>1, ScreenFewer
<1>4. CASE RideNext
  <2>1. UNCHANGED screen
    BY <1>4, RideFrame DEF gatewayVars
  <2>2. ASSUME NEW t \in Trips, NEW to \in TripStatus, Announce(t, to)
        PROVE  ScreenInv'
    <3>1. InOrder(Announcement(t, to))
      BY <2>2, AnnounceInOrder DEF Announce
    <3> QED
      BY <1>1, <2>1, <2>2, <3>1, AnnounceSends
  <2>3. ASSUME NEW u \in Users, VerifyIdentity(u)
        PROVE  ScreenInv'
    BY <1>1, <2>1, <2>3, VerifySends, OtherInOrder, EventFields
  <2>4. ASSUME NEW t \in Trips, NEW pickup \in Places, RequestTrip(t, pickup)
        PROVE  ScreenInv'
    BY <1>1, <2>1, <2>4, RequestSends, OtherInOrder, EventFields
  <2> QED
    BY <1>2, <1>4, <2>1, <2>2, <2>3, <2>4 DEF RideNext, MoveTrip, SetOnlineStatus
<1>5. CASE LocNext
  <2>1. UNCHANGED screen
    BY <1>5 DEF LocNext, gatewayVars
  <2>2. ASSUME NEW r \in LocReqs, PublishLocation(r)
        PROVE  ScreenInv'
    BY <1>1, <2>1, <2>2, LocationSends, OtherInOrder, EventFields
  <2>3. CASE UNCHANGED <<queues, published>>
    BY <1>2, <2>1, <2>3
  <2> QED
    BY <1>5, <2>2, <2>3, LocCases
    DEF ReportLocation, LogFraudAlert, StoreLocation, FailReport, RestartLocation
<1>6. CASE NotifyNext
  <2>1. UNCHANGED <<published, screen>>
    BY <1>6, NotifyFrame DEF gatewayVars
  <2>2. ASSUME NEW s \in Subscriptions, NEW i \in DOMAIN queues[s], Deliver(s, i)
        PROVE  ScreenInv'
    <3>1. queues'[StatusQueue] = queues[StatusQueue]
      BY <2>2, DeliverTakes, QueuesDistinct DEF Takes, Notifying, StatusQueue
    <3> QED
      BY <2>1, <3>1, ScreenFewer
  <2>3. CASE RestartNotification
    BY <1>3, <2>1, <2>3 DEF RestartNotification
  <2>4. CASE UNCHANGED queues
    BY <1>2, <2>1, <2>4
  <2> QED
    BY <1>6, <2>2, <2>3, <2>4
    DEF NotifyNext, Notify, NotifyStep, SaveNotification, PushNotification,
        RegisterDevice, MarkRead, FailDelivery
<1>7. CASE PaymentNext
  <2>1. UNCHANGED screen
    BY <1>7, PaymentFrame DEF gatewayVars
  <2>2. ASSUME NEW s \in Subscriptions, NEW i \in DOMAIN queues[s],
               AnnounceProcessing(s, i)
        PROVE  ScreenInv'
    <3>1. s # StatusQueue
      BY <2>2, ProcessingSends DEF StatusQueue
    <3>2. ASSUME NEW q, Takes(q, s, i)
          PROVE  q[StatusQueue] = queues[StatusQueue]
      BY <3>1, <3>2, QueuesDistinct DEF Takes
    <3>3. CASE Takes(queues', s, i) /\ UNCHANGED published
      BY <2>1, <3>2, <3>3, ScreenFewer
    <3>4. ASSUME NEW t \in Trips, NEW q, CompletedEvent(t) \in published, Takes(q, s, i),
                 Routes(q, "payment", ProcessingEvent(t))
          PROVE  ScreenInv'
      <4>1. InOrder(ProcessingEvent(t))
        BY <3>4, MilestoneEvents DEF InOrder
      <4> QED
        BY <2>1, <3>2, <3>4, <4>1, RoutedInOrder
    <3> QED
      BY <2>2, <3>3, <3>4, ProcessingSends
  <2> QED
    BY <1>3, <1>7, <2>1, <2>2 DEF PaymentNext, RestartPayment
<1>8. CASE GatewayNext
  <2>1. UNCHANGED published
    BY <1>8, GatewayFrame
  <2>2. ASSUME NEW s \in Subscriptions, NEW i \in DOMAIN queues[s],
               ShowOffer(s, i) \/ ShowLocation(s, i)
        PROVE  ScreenInv'
    BY <2>2, ShowOtherInOrder DEF ShowOffer, ShowLocation, StatusQueue
  <2>3. CASE RestartGateway
    BY <1>3, <2>1, <2>3 DEF RestartGateway
  <2>4. CASE GatewayArrival
    BY <1>2, <2>1, <2>4 DEF GatewayArrival, Connect, Disconnect, JoinTrip, LeaveTrip
  <2> QED
    BY <1>8, <2>2, <2>3, <2>4, ShowStatusInOrder DEF GatewayNext, GatewayStep
<1> QED
  BY <1>4, <1>5, <1>6, <1>7, <1>8 DEF RtNext

-------------------------------------------------------------------------------
\* The gateway: the map

LEMMA MapParts ==
  MapInv' <=> MapOK(queues'[LocationQueue], places', Settled(locReqs', disturbed'),
                    Online(sockets'), map')
BY DEF MapInv, MapOK, Settled, Online, LastOf, Nobody, LocationQueue

LEMMA LocationQueueIs ==
  ASSUME BusOK
  PROVE  /\ queues[LocationQueue] \in Seq(published)
         /\ \A i \in DOMAIN queues[LocationQueue] :
              /\ queues[LocationQueue][i].driver \in Drivers
              /\ queues[LocationQueue][i].place \in Places
BY QueuesDistinct, QueuedEvent, LocationEventKind DEF BusOK, LocationQueue

\* What is stored of the settled drivers and what is queued stays; maps are
\* kept or begun anew.
LEMMA MapKept ==
  ASSUME MapInv, queues'[LocationQueue] = queues[LocationQueue],
         Settled(locReqs', disturbed') \subseteq Settled(locReqs, disturbed),
         \A d \in Settled(locReqs', disturbed') : places'[d] = places[d],
         \A c \in Sockets, d \in Drivers :
           \/ map'[c][d] = Nowhere
           \/ /\ map'[c][d] = map[c][d]
              /\ c \in Online(sockets') => c \in Online(sockets)
  PROVE  MapInv'
<1> DEFINE q == queues[LocationQueue]
           settled == Settled(locReqs', disturbed')
<1>1. MapOK(q, places, Settled(locReqs, disturbed), Online(sockets), map)
  BY DEF MapInv
<1>2. settled \subseteq Drivers /\ Online(sockets') \subseteq Sockets
  BY DEF Settled, Online
<1> HIDE DEF q, settled
<1>3. MapOK(q, places', settled, Online(sockets'), map')
  BY <1>1, <1>2 DEF MapOK, settled
<1> QED
  BY <1>3, MapParts DEF q, settled

\* A service without a channel: nothing is ever shown.
LEMMA MapDark ==
  ASSUME MapInv, ~({"location", "gateway"} \subseteq Connected),
         queues'[LocationQueue] = queues[LocationQueue], UNCHANGED map
  PROVE  MapInv'
<1>1. queues[LocationQueue] = <<>> /\ \A c \in Sockets, d \in Drivers : map[c][d] = Nowhere
  BY DEF MapInv, MapOK
<1>2. DOMAIN queues'[LocationQueue] = {}
  BY <1>1, EmptySeq
<1>3. Online(sockets') \subseteq Sockets /\ Settled(locReqs', disturbed') \subseteq Drivers
  BY DEF Online, Settled
<1> QED
  BY <1>1, <1>2, <1>3, MapParts DEF MapOK

\* The gateway is started again.
LEMMA MapLost ==
  ASSUME MapInv, queues'[LocationQueue] = <<>>, Online(sockets') = {}, UNCHANGED map
  PROVE  MapInv'
<1>1. DOMAIN queues'[LocationQueue] = {}
  BY EmptySeq
<1> QED
  BY <1>1, MapParts DEF MapInv, MapOK

\* A place is announced; it is what is stored, unless the driver is disturbed.
LEMMA MapAnnounced ==
  ASSUME MapInv, BusOK, NEW e, {"location", "gateway"} \subseteq Connected,
         e \in published', published \subseteq published',
         queues'[LocationQueue] = Append(queues[LocationQueue], e),
         e.driver \in Settled(locReqs', disturbed') => e.place = places[e.driver],
         \A d \in Settled(locReqs', disturbed') :
           d # e.driver => d \in Settled(locReqs, disturbed),
         UNCHANGED <<places, sockets, map>>
  PROVE  MapInv'
<1> DEFINE q == queues[LocationQueue]
           new == queues'[LocationQueue]
           settled == Settled(locReqs, disturbed)
           settledNow == Settled(locReqs', disturbed')
           n == Len(q) + 1
<1>1. MapOK(q, places, settled, Online(sockets), map)
  BY DEF MapInv
<1>2. q \in Seq(published')
  BY LocationQueueIs, SeqOverMore
<1>3. /\ Len(q) \in Nat /\ DOMAIN q = 1 .. Len(q) /\ DOMAIN new = 1 .. n
      /\ \A i \in DOMAIN q : new[i] = q[i]
      /\ new[n] = e
  BY <1>2, AppendElements
<1> HIDE DEF q, new, settled, settledNow
<1>4. ASSUME NEW i \in DOMAIN new, LastOf(new, i), new[i].driver \in settledNow
      PROVE  new[i].place = places[new[i].driver]
  <2>1. CASE i = n
    BY <1>3, <1>4, <2>1 DEF settledNow
  <2>2. CASE i # n
    <3>1. i \in DOMAIN q /\ new[i] = q[i] /\ n \in DOMAIN new /\ n > i
      BY <1>3, <2>2
    <3>2. q[i].driver # e.driver
      BY <1>3, <1>4, <3>1 DEF LastOf
    <3>3. LastOf(q, i)
      BY <1>3, <1>4, <3>1 DEF LastOf
    <3>4. q[i].driver \in settled
      BY <1>4, <3>1, <3>2 DEF settled, settledNow
    <3> QED
      BY <1>1, <3>1, <3>3, <3>4 DEF MapOK
  <2> QED
    BY <2>1, <2>2
<1>5. ASSUME NEW c \in Online(sockets), NEW d \in settledNow, Nobody(new, d),
             map[c][d] # Nowhere
      PROVE  map[c][d] = places[d]
  <2>1. n \in DOMAIN new /\ d # e.driver
    BY <1>3, <1>5 DEF Nobody
  <2>2. Nobody(q, d)
    BY <1>3, <1>5 DEF Nobody
  <2>3. d \in settled
    BY <1>5, <2>1 DEF settled, settledNow
  <2> QED
    BY <1>1, <1>5, <2>2, <2>3 DEF MapOK
<1>6. MapOK(new, places, settledNow, Online(sockets), map)
  BY <1>4, <1>5 DEF MapOK
<1> QED
  BY <1>6, MapParts DEF new, settledNow

\* A place is shown to everybody.
LEMMA MapShown ==
  ASSUME MapInv, BusOK, GatewayOK, NEW s \in Subscriptions, NEW i \in DOMAIN queues[s],
         ShowLocation(s, i)
  PROVE  MapInv'
<1> DEFINE q == queues[LocationQueue]
           new == queues'[LocationQueue]
           settled == Settled(locReqs, disturbed)
           event == q[1]
<1>1. s = LocationQueue /\ Take(s, i)
  BY DEF ShowLocation, LocationQueue
<1>2. Takes(queues', s, i) /\ UNCHANGED <<places, locReqs, disturbed, sockets>>
  BY <1>1, ShowTakes DEF Take, locVars
<1>3. /\ q \in Seq(published) /\ i = 1 /\ 1 \in DOMAIN q /\ q # <<>> /\ new = Tail(q)
      /\ event.driver \in Drivers /\ event.place \in Places
  BY <1>1, <1>2, LocationQueueIs DEF Takes
<1>4. /\ Len(q) \in Nat /\ DOMAIN q = 1 .. Len(q) /\ DOMAIN new = 1 .. Len(q) - 1
      /\ \A k \in DOMAIN new : k + 1 \in DOMAIN q /\ new[k] = q[k + 1]
  BY <1>3, TailElements
<1>5. map' = [c \in Sockets |-> IF sockets[c] # Offline
                                  THEN [map[c] EXCEPT ![event.driver] = event.place]
                                  ELSE map[c]]
  BY <1>1, <1>3 DEF ShowLocation
<1>6. \A c \in Sockets : map[c] \in [Drivers -> Places \cup {Nowhere}]
  BY DEF GatewayOK
<1>7. MapOK(q, places, settled, Online(sockets), map)
  BY DEF MapInv
<1>8. settled \subseteq Drivers
  BY DEF Settled
<1> HIDE DEF q, new, settled, event
<1>9. \A c \in Online(sockets), d \in Drivers :
        map'[c][d] = IF d = event.driver THEN event.place ELSE map[c][d]
  BY <1>3, <1>5, <1>6 DEF Online
<1>10. ASSUME NEW k \in DOMAIN new, LastOf(new, k), new[k].driver \in settled
       PROVE  new[k].place = places[new[k].driver]
  <2>1. k \in Nat /\ k + 1 \in DOMAIN q /\ new[k] = q[k + 1]
    BY <1>4
  <2>2. ASSUME NEW j \in DOMAIN q, j > k + 1
        PROVE  q[j].driver # q[k + 1].driver
    <3>1. j - 1 \in DOMAIN new /\ j - 1 > k /\ new[j - 1] = q[j]
      BY <1>4, <2>1, <2>2
    <3> QED
      BY <1>10, <2>1, <3>1 DEF LastOf
  <2> QED
    BY <1>7, <1>10, <2>1, <2>2 DEF MapOK, LastOf
<1>11. ASSUME NEW c \in Online(sockets), NEW d \in settled, Nobody(new, d),
              map'[c][d] # Nowhere
       PROVE  map'[c][d] = places[d]
  <2>1. \A j \in DOMAIN q : j > 1 => q[j].driver # d
    <3>1. ASSUME NEW j \in DOMAIN q, j > 1
          PROVE  q[j].driver # d
      <4>1. j - 1 \in DOMAIN new /\ new[j - 1] = q[j]
        BY <1>4, <3>1
      <4> QED
        BY <1>11, <4>1 DEF Nobody
    <3> QED
      BY <3>1
  <2>2. CASE d = event.driver
    <3>1. LastOf(q, 1) /\ q[1].driver \in settled
      BY <1>11, <2>1, <2>2 DEF LastOf, event
    <3>2. event.place = places[d]
      BY <1>3, <1>7, <2>2, <3>1 DEF MapOK, event
    <3> QED
      BY <1>8, <1>9, <2>2, <3>2
  <2>3. CASE d # event.driver
    <3>1. Nobody(q, d)
      BY <1>4, <2>1, <2>3 DEF Nobody, event
    <3>2. map'[c][d] = map[c][d]
      BY <1>8, <1>9, <2>3
    <3> QED
      BY <1>7, <1>11, <3>1, <3>2 DEF MapOK
  <2> QED
    BY <2>2, <2>3
<1>12. {"location", "gateway"} \subseteq Connected
  BY <1>3, <1>7 DEF MapOK
<1>13. MapOK(new, places, settled, Online(sockets), map')
  BY <1>10, <1>11, <1>12 DEF MapOK
<1> QED
  BY <1>2, <1>13, MapParts DEF new, settled

\* A step of the location service that announces nothing: it settles nobody,
\* and stores nothing of the drivers that stay settled.
LEMMA ReportSettles ==
  ASSUME LocOK, LocNext, \A r \in LocReqs : ~PublishLocation(r)
  PROVE  /\ Settled(locReqs', disturbed') \subseteq Settled(locReqs, disturbed)
         /\ \A d \in Settled(locReqs', disturbed') : places'[d] = places[d]
         /\ UNCHANGED queues
<1>1. ASSUME NEW r \in LocReqs, NEW d \in Drivers, NEW place \in Places,
             NEW seconds \in Intervals, ReportLocation(r, d, place, seconds)
      PROVE  /\ Settled(locReqs', disturbed') \subseteq Settled(locReqs, disturbed)
             /\ UNCHANGED <<places, queues>>
  <2>1. ReportAt(r, "idle") /\ UNCHANGED <<places, disturbed, queues>>
    BY <1>1 DEF ReportLocation
  <2>2. \A q \in LocReqs \ {r} : /\ locReqs'[q].pc = locReqs[q].pc
                                 /\ locReqs'[q].driver = locReqs[q].driver
    BY <1>1, ReportArrives
  <2> QED
    BY <2>1, <2>2 DEF Settled, ReportAt
<1>2. ASSUME NEW r \in LocReqs, LogFraudAlert(r) \/ FailReport(r)
      PROVE  /\ Settled(locReqs', disturbed') \subseteq Settled(locReqs, disturbed)
             /\ UNCHANGED <<places, queues>>
  <2>1. /\ ~ReportAt(r, "publish") /\ EndReport(r)
        /\ UNCHANGED <<places, disturbed, queues>>
    BY <1>2 DEF LogFraudAlert, FailReport, ReportAt
  <2>2. \A q \in LocReqs \ {r} : locReqs'[q] = locReqs[q]
    BY <2>1, ReportEnds
  <2> QED
    BY <2>1, <2>2 DEF Settled, ReportAt
<1>3. ASSUME NEW r \in LocReqs, StoreLocation(r)
      PROVE  /\ Settled(locReqs', disturbed') \subseteq Settled(locReqs, disturbed)
             /\ \A d \in Settled(locReqs', disturbed') : places'[d] = places[d]
             /\ UNCHANGED queues
  <2>1. /\ ReportAt(r, "update") /\ GotoReport(r, "publish")
        /\ places' = [places EXCEPT ![locReqs[r].driver] = locReqs[r].place]
        /\ UNCHANGED <<disturbed, queues>>
    BY <1>3 DEF StoreLocation
  <2>2. /\ locReqs'[r].pc = "publish" /\ locReqs'[r].driver = locReqs[r].driver
        /\ \A q \in LocReqs \ {r} : locReqs'[q] = locReqs[q]
    BY <2>1, ReportGoesOn
  <2>3. Settled(locReqs', disturbed') \subseteq Settled(locReqs, disturbed)
    BY <2>1, <2>2 DEF Settled, ReportAt
  <2>4. ASSUME NEW d \in Settled(locReqs', disturbed')
        PROVE  places'[d] = places[d]
    <3>1. d # locReqs[r].driver /\ d \in Drivers
      BY <2>2, <2>4 DEF Settled
    <3> QED
      BY <2>1, <3>1 DEF LocOK
  <2> QED
    BY <2>1, <2>3, <2>4
<1>4. CASE RestartLocation
  <2>1. /\ disturbed' = disturbed \cup {locReqs[r].driver : r \in
                                         {q \in LocReqs : ReportAt(q, "publish")}}
        /\ UNCHANGED <<places, queues>>
    BY <1>4 DEF RestartLocation
  <2> QED
    BY <2>1 DEF Settled, ReportAt
<1> QED
  BY <1>1, <1>2, <1>3, <1>4, LocCases

\* Who is still settled when a report was announced.
LEMMA PublishSettles ==
  ASSUME LocOK, ReportsInv, NEW r \in LocReqs, PublishLocation(r)
  PROVE  /\ \A d \in Settled(locReqs', disturbed') :
              d # locReqs[r].driver => d \in Settled(locReqs, disturbed)
         /\ locReqs[r].driver \in Settled(locReqs', disturbed') =>
              locReqs[r].place = places[locReqs[r].driver]
         /\ UNCHANGED places
<1>1. /\ ReportAt(r, "publish") /\ EndReport(r) /\ UNCHANGED places
      /\ disturbed' = IF locReqs[r].overlapped THEN disturbed \cup {locReqs[r].driver}
                                               ELSE disturbed \ {locReqs[r].driver}
  BY DEF PublishLocation
<1>2. \A q \in LocReqs \ {r} : locReqs'[q] = locReqs[q]
  BY <1>1, ReportEnds
<1>3. ASSUME NEW d \in Settled(locReqs', disturbed'), d # locReqs[r].driver
      PROVE  d \in Settled(locReqs, disturbed)
  BY <1>1, <1>2, <1>3 DEF Settled
<1>4. locReqs[r].driver \in Settled(locReqs', disturbed') => ~locReqs[r].overlapped
  BY <1>1 DEF Settled
<1>5. ~locReqs[r].overlapped => places[locReqs[r].driver] = locReqs[r].place
  BY <1>1 DEF ReportsInv
<1> QED
  BY <1>1, <1>3, <1>4, <1>5

\* A location that is announced reaches the map's queue, or nothing ever does.
LEMMA PublishMap ==
  ASSUME MapInv, BusOK, LocOK, ReportsInv, NEW r \in LocReqs, PublishLocation(r),
         UNCHANGED <<sockets, map>>
  PROVE  MapInv'
<1> DEFINE e == LocationEvent(locReqs[r].driver, locReqs[r].place)
<1>1. Routes(queues, "location", e)
  BY LocationSends
<1>2. e.type = "driver.location_updated" /\ e.driver = locReqs[r].driver
      /\ e.place = locReqs[r].place
  BY DEF LocationEvent
<1> HIDE DEF e
<1>3. CASE {"location", "gateway"} \subseteq Connected
  <2>1. /\ e \in published' /\ published \subseteq published'
        /\ queues'[LocationQueue] = Append(queues[LocationQueue], e)
    BY <1>1, <1>2, <1>3, QueuesDistinct DEF Routes, LocationQueue
  <2> QED
    BY <1>2, <1>3, <2>1, PublishSettles, MapAnnounced
<1>4. CASE ~({"location", "gateway"} \subseteq Connected)
  <2>1. queues'[LocationQueue] = queues[LocationQueue]
    BY <1>1, <1>4, QueuesDistinct DEF Routes, LocationQueue
  <2> QED
    BY <1>4, <2>1, MapDark
<1> QED
  BY <1>3, <1>4

\* What else is routed or taken is not in the map's queue.
LEMMA OtherEvents ==
  ASSUME BusOK, LocOK, TripsOK, RtNext, ~LocNext, ~GatewayNext
  PROVE  queues'[LocationQueue] = queues[LocationQueue]
<1>1. ASSUME NEW q, q[LocationQueue] = queues[LocationQueue], NEW service, NEW e,
             e.type # "driver.location_updated", Routes(q, service, e)
      PROVE  queues'[LocationQueue] = queues[LocationQueue]
  BY <1>1, QueuesDistinct DEF Routes, LocationQueue
<1>2. ASSUME NEW service, service # "gateway", queues' = Emptied(service), UNCHANGED published
      PROVE  queues'[LocationQueue] = queues[LocationQueue]
  BY <1>2, EmptiedEmpties, QueuesDistinct DEF Empties, LocationQueue
<1>3. ASSUME NEW q, NEW s \in Subscriptions, NEW i, s[1] # "gateway", Takes(q, s, i)
      PROVE  q[LocationQueue] = queues[LocationQueue]
  BY <1>3, QueuesDistinct DEF Takes, LocationQueue
<1>4. CASE RideNext
  <2>1. ASSUME NEW t \in Trips, NEW to \in TripStatus, Announce(t, to)
        PROVE  queues'[LocationQueue] = queues[LocationQueue]
    <3>1. Announcement(t, to).type # "driver.location_updated"
      BY EventFields DEF Announcement
    <3> QED
      BY <1>1, <2>1, <3>1, AnnounceSends
  <2>2. ASSUME NEW u \in Users, VerifyIdentity(u)
        PROVE  queues'[LocationQueue] = queues[LocationQueue]
    BY <1>1, <2>2, VerifySends, EventFields
  <2>3. ASSUME NEW t \in Trips, NEW pickup \in Places, RequestTrip(t, pickup)
        PROVE  queues'[LocationQueue] = queues[LocationQueue]
    BY <1>1, <2>3, RequestSends, EventFields
  <2> QED
    BY <1>4, <2>1, <2>2, <2>3 DEF RideNext, MoveTrip, SetOnlineStatus
<1>5. CASE NotifyNext
  <2>1. UNCHANGED published
    BY <1>5, NotifyFrame
  <2>2. ASSUME NEW s \in Subscriptions, NEW i \in DOMAIN queues[s], Deliver(s, i)
        PROVE  queues'[LocationQueue] = queues[LocationQueue]
    BY <1>3, <2>2, DeliverTakes DEF Notifying
  <2>3. CASE RestartNotification
    BY <1>2, <2>1, <2>3 DEF RestartNotification
  <2> QED
    BY <1>5, <2>2, <2>3
    DEF NotifyNext, Notify, NotifyStep, SaveNotification, PushNotification,
        RegisterDevice, MarkRead, FailDelivery
<1>6. CASE PaymentNext
  <2>1. ASSUME NEW s \in Subscriptions, NEW i \in DOMAIN queues[s],
               AnnounceProcessing(s, i)
        PROVE  queues'[LocationQueue] = queues[LocationQueue]
    <3>1. s[1] # "gateway"
      BY <2>1, ProcessingSends
    <3>2. \A t : ProcessingEvent(t).type # "driver.location_updated"
      BY EventFields DEF ProcessingEvent
    <3>3. CASE Takes(queues', s, i)
      BY <1>3, <3>1, <3>3
    <3>4. ASSUME NEW t \in Trips, NEW q, Takes(q, s, i),
                 Routes(q, "payment", ProcessingEvent(t))
          PROVE  queues'[LocationQueue] = queues[LocationQueue]
      <4>1. q[LocationQueue] = queues[LocationQueue]
        BY <1>3, <3>1, <3>4
      <4> QED
        BY <1>1, <3>2, <3>4, <4>1
    <3> QED
      BY <2>1, <3>3, <3>4, ProcessingSends
  <2> QED
    BY <1>2, <1>6, <2>1 DEF PaymentNext, RestartPayment
<1> QED
  BY <1>4, <1>5, <1>6 DEF RtNext

LEMMA MapStep ==
  ASSUME MapInv, BusOK, LocOK, TripsOK, GatewayOK, ReportsInv, RtNext
  PROVE  MapInv'
<1>1. ASSUME UNCHANGED <<locVars, sockets, map>>,
             queues'[LocationQueue] = queues[LocationQueue]
      PROVE  MapInv'
  BY <1>1, MapKept DEF locVars
<1>2. CASE LocNext
  <2>1. UNCHANGED <<sockets, map>>
    BY <1>2 DEF LocNext, gatewayVars
  <2>2. CASE \A r \in LocReqs : ~PublishLocation(r)
    BY <1>2, <2>1, <2>2, ReportSettles, MapKept
  <2> QED
    BY <2>1, <2>2, PublishMap
<1>3. CASE GatewayNext
  <2>1. UNCHANGED <<published, places, locReqs, disturbed>>
    BY <1>3, GatewayFrame DEF locVars
  <2>2. ASSUME NEW s \in Subscriptions, NEW i \in DOMAIN queues[s],
               ShowStatus(s, i) \/ ShowOffer(s, i)
        PROVE  MapInv'
    <3>1. Take(s, i) /\ s # LocationQueue /\ UNCHANGED <<sockets, map>>
      BY <2>2 DEF ShowStatus, ShowOffer, Take, LocationQueue
    <3>2. queues'[LocationQueue] = queues[LocationQueue]
      BY <3>1, ShowTakes, QueuesDistinct DEF Takes
    <3> QED
      BY <2>1, <3>1, <3>2, MapKept
  <2>3. CASE RestartGateway
    <3>1. queues' = Emptied("gateway") /\ sockets' = [c \in Sockets |-> Offline]
          /\ UNCHANGED map
      BY <2>3 DEF RestartGateway
    <3>2. queues'[LocationQueue] = <<>>
      BY <2>1, <3>1, EmptiedEmpties, QueuesDistinct DEF Empties, LocationQueue
    <3>3. Online(sockets') = {}
      BY <3>1 DEF Online
    <3> QED
      BY <3>1, <3>2, <3>3, MapLost
  <2>4. CASE GatewayArrival
    <3>1. UNCHANGED queues
      BY <2>4 DEF GatewayArrival, Connect, Disconnect, JoinTrip, LeaveTrip
    <3>2. ASSUME NEW c \in Sockets, NEW d \in Drivers
          PROVE  \/ map'[c][d] = Nowhere
                 \/ /\ map'[c][d] = map[c][d]
                    /\ c \in Online(sockets') => c \in Online(sockets)
      <4>1. ASSUME NEW b \in Sockets, NEW u \in Users, Connect(b, u)
            PROVE  \/ map'[c][d] = Nowhere
                   \/ /\ map'[c][d] = map[c][d]
                      /\ c \in Online(sockets') => c \in Online(sockets)
        BY <4>1 DEF Connect, Online, GatewayOK
      <4>2. ASSUME NEW b \in Sockets, sockets[b] # Offline,
                   \A x \in Sockets \ {b} : sockets'[x] = sockets[x], UNCHANGED map
            PROVE  \/ map'[c][d] = Nowhere
                   \/ /\ map'[c][d] = map[c][d]
                      /\ c \in Online(sockets') => c \in Online(sockets)
        BY <4>2 DEF Online
      <4>3. ASSUME NEW b \in Sockets, Disconnect(b)
            PROVE  /\ sockets[b] # Offline /\ UNCHANGED map
                   /\ \A x \in Sockets \ {b} : sockets'[x] = sockets[x]
        BY <4>3 DEF Disconnect, GatewayOK
      <4>4. ASSUME NEW b \in Sockets, NEW t \in Trips, JoinTrip(b, t) \/ LeaveTrip(b, t)
            PROVE  /\ sockets[b] # Offline /\ UNCHANGED map
                   /\ \A x \in Sockets \ {b} : sockets'[x] = sockets[x]
        BY <4>4, OfflineOwn DEF JoinTrip, LeaveTrip, GatewayOK
      <4> QED
        BY <2>4, <4>1, <4>2, <4>3, <4>4 DEF GatewayArrival
    <3> QED
      BY <2>1, <3>1, <3>2, MapKept
  <2> QED
    BY <1>3, <2>2, <2>3, <2>4, MapShown DEF GatewayNext, GatewayStep
<1>4. CASE ~LocNext /\ ~GatewayNext
  <2>1. UNCHANGED <<locVars, sockets, map>>
    BY <1>4, RideFrame, NotifyFrame, PaymentFrame DEF RtNext, gatewayVars
  <2> QED
    BY <1>1, <1>4, <2>1, OtherEvents
<1> QED
  BY <1>2, <1>3, <1>4

-------------------------------------------------------------------------------
\* The invariant

LEMMA RtInitial ==
  ASSUME RtInit
  PROVE  RtInv
<1>1. \A s \in Subscriptions : queues[s] = <<>> /\ DOMAIN queues[s] = {}
  BY EmptySeq DEF RtInit, QueuesInit
<1>2. BusOK
  <2>1. \A s \in Subscriptions : queues[s] \in Seq(published)
    BY <1>1, EmptySeq
  <2> QED
    BY <1>1, <2>1 DEF RtInit, QueuesInit, BusOK
<1>3. IdleReport \in Report /\ IdleReport.pc = "idle" /\ IdleReport.driver = Nowhere
  BY DEF IdleReport, Report
<1>4. LocOK /\ ReportsInv
  BY <1>3 DEF RtInit, LocInit, LocOK, ReportsInv, ReportAt
<1>5. notifications = <<>> /\ DOMAIN notifications = {} /\ deliveries = {}
      /\ devices = {} /\ pushed = {} /\ published = {}
  BY EmptySeq DEF RtInit, NotifyInit
<1>6. NotifyOK
  BY <1>5, EmptySeq DEF NotifyOK
<1>7. TripsOK
  BY RealtimeAssumption DEF RtInit, TripsOK
<1>8. sockets = [c \in Sockets |-> Offline] /\ screen = [c \in Sockets |-> <<>>]
      /\ offers = [c \in Sockets |-> {}]
      /\ map = [c \in Sockets |-> [d \in Drivers |-> Nowhere]]
  BY DEF RtInit
<1>9. GatewayOK
  <2>1. <<>> \in Seq(Trips \X TripStatus)
    BY EmptySeq
  <2>2. screen \in [Sockets -> Seq(Trips \X TripStatus)]
    BY <1>8, <2>1
  <2>3. [d \in Drivers |-> Nowhere] \in [Drivers -> Places \cup {Nowhere}]
    OBVIOUS
  <2>4. map \in [Sockets -> [Drivers -> Places \cup {Nowhere}]]
    BY <1>8, <2>3
  <2> QED
    BY <1>8, <2>2, <2>4 DEF GatewayOK, Offline
<1>10. AnnouncedOnce
  BY <1>5 DEF RtInit, AnnouncedOnce, StatusesAnnounced
<1>11. NotifyInv
  BY <1>1, <1>5 DEF NotifyInv, QueuedOnce, HandledOnce, NotifiedOnce
<1>12. OffersReachFoundDrivers
  BY <1>8 DEF OffersReachFoundDrivers
<1>13. ScreenInv
  <2>1. \A c \in Sockets : DOMAIN screen[c] = {}
    BY <1>8, EmptySeq
  <2> QED
    BY <1>1, <1>5, <2>1, QueuesDistinct
    DEF ScreenInv, ProcessingFollows, ScreenNeverGoesBack
<1>14. MapInv
  <2>1. \A c \in Sockets, d \in Drivers : map[c][d] = Nowhere
    BY <1>8
  <2> QED
    BY <1>1, <2>1, QueuesDistinct DEF MapInv, MapOK, Online, Settled
<1> QED
  BY <1>2, <1>4, <1>6, <1>7, <1>9, <1>10, <1>11, <1>12, <1>13, <1>14 DEF RtInv, TypesOK

LEMMA RtInductive ==
  ASSUME RtInv, RtNext
  PROVE  RtInv'
<1>1. /\ BusOK /\ LocOK /\ NotifyOK /\ TripsOK /\ GatewayOK /\ AnnouncedOnce /\ NotifyInv
      /\ OffersReachFoundDrivers /\ ScreenInv /\ ReportsInv /\ MapInv
  BY DEF RtInv, TypesOK
<1>2. BusOK' /\ published \subseteq published'
  BY <1>1, BusStep
<1>3. LocOK' /\ ReportsInv'
  BY <1>1, ReportsStep
<1>4. NotifyOK'
  BY <1>1, <1>2, NotifyTypesStep
<1>5. TripsOK'
  BY <1>1, TripsStep
<1>6. GatewayOK' /\ OffersReachFoundDrivers'
  BY <1>1, <1>2, GatewayStepKeeps
<1>7. AnnouncedOnce'
  BY <1>1, AnnouncedStep
<1>8. NotifyInv'
  BY <1>1, OnceStep
<1>9. ScreenInv'
  BY <1>1, ScreenStep
<1>10. MapInv'
  BY <1>1, MapStep
<1> QED
  BY <1>2, <1>3, <1>4, <1>5, <1>6, <1>7, <1>8, <1>9, <1>10 DEF RtInv, TypesOK

LEMMA RtStutters ==
  ASSUME RtInv, UNCHANGED rtVars
  PROVE  RtInv'
<1>1. /\ UNCHANGED <<published, queues>> /\ UNCHANGED locVars /\ UNCHANGED notifyVars
      /\ UNCHANGED rideVars /\ UNCHANGED gatewayVars /\ UNCHANGED left
  BY DEF rtVars
<1>2. BusOK' /\ TripsOK' /\ GatewayOK' /\ OffersReachFoundDrivers'
  BY <1>1 DEF RtInv, TypesOK, BusOK, TripsOK, GatewayOK, OffersReachFoundDrivers,
              rideVars, gatewayVars
<1>3. LocOK' /\ ReportsInv'
  BY <1>1, LocUnchanged DEF RtInv, TypesOK
<1>4. NotifyOK' /\ NotifyInv'
  BY <1>1, NotifyIdle DEF RtInv, TypesOK, NotifyOK, notifyVars
<1>5. AnnouncedOnce'
  BY <1>1 DEF RtInv, AnnouncedOnce, StatusesAnnounced, rideVars, StatusEvent, PaidEvent
<1>6. ScreenInv'
  BY <1>1, ScreenFewer DEF RtInv, gatewayVars
<1>7. MapInv'
  BY <1>1, MapKept DEF RtInv, locVars, gatewayVars
<1> QED
  BY <1>2, <1>3, <1>4, <1>5, <1>6, <1>7 DEF RtInv, TypesOK

\* What the gateway and the notification service hold of the events stays
\* consistent with what was announced, stored and handled, whatever restarts,
\* fails or overlaps: the inductive invariant of this module.
THEOREM RealtimeInvariant == RtSpec => []RtInv
<1>1. RtInit => RtInv
  BY RtInitial
<1>2. RtInv /\ [RtNext]_rtVars => RtInv'
  BY RtInductive, RtStutters
<1> QED
  BY <1>1, <1>2, PTL DEF RtSpec

\* The tables, the queues and what the clients hold keep their types.
THEOREM RealtimeTypeCorrect == RtSpec => []RealtimeTypeOK
<1>1. RtInv => RealtimeTypeOK
  <2> SUFFICES ASSUME RtInv PROVE RealtimeTypeOK
    OBVIOUS
  <2>1. BusOK /\ LocOK /\ NotifyOK /\ TripsOK /\ GatewayOK
    BY DEF RtInv, TypesOK
  <2>2. \A s \in Subscriptions : \A i \in DOMAIN queues[s] :
          queues[s][i].type = s[2] /\ queues[s][i] \in published
    BY <2>1, QueuedEvent
  <2>3. \A i \in DOMAIN notifications : notifications[i].read \in BOOLEAN
    <3>1. ASSUME NEW i \in DOMAIN notifications
          PROVE  notifications[i] \in [event : published, read : BOOLEAN]
      BY <2>1, ElementIn DEF NotifyOK
    <3> QED
      BY <3>1
  <2> QED
    BY <2>1, <2>2, <2>3 DEF RealtimeTypeOK, LocOK, NotifyOK, TripsOK, GatewayOK
<1> QED
  BY <1>1, RealtimeInvariant, PTL

\* No user is notified twice of one event: the message is taken from the queue
\* before its notification is saved, so neither a failed query nor a restart
\* brings it back.
THEOREM RealtimeNotifiedOnce == RtSpec => []NotifiedOnce
<1>1. RtInv => NotifiedOnce
  BY DEF RtInv, NotifyInv
<1> QED
  BY <1>1, RealtimeInvariant, PTL

\* A ride is offered only to drivers whom the search for that ride found: each
\* driver has a room of his own, which his sockets leave when they disconnect.
THEOREM RealtimeOffersReachFound == RtSpec => []OffersReachFoundDrivers
<1>1. RtInv => OffersReachFoundDrivers
  BY DEF RtInv
<1> QED
  BY <1>1, RealtimeInvariant, PTL

\* A client that was told that a trip is being paid for is never told after
\* that that it is completed: the payment service announces the one when it
\* got the other, and the gateway's queue keeps the order.
THEOREM RealtimeScreenNeverGoesBack == RtSpec => []ScreenNeverGoesBack
<1>1. RtInv => ScreenNeverGoesBack
  BY DEF RtInv, ScreenInv
<1> QED
  BY <1>1, RealtimeInvariant, PTL

\* When nothing is under way for a driver, a client sees him where the drivers
\* table has him, unless two of his reports overlapped or a crash cut one off.
THEOREM RealtimeMapShowsStored == RtSpec => []MapShowsStored
<1>1. RtInv => MapShowsStored
  <2> SUFFICES ASSUME RtInv, NEW c \in Sockets, NEW d \in Drivers, NothingUnderWay(d),
                      d \notin disturbed, sockets[c] # Offline, map[c][d] # Nowhere
               PROVE  map[c][d] = places[d]
    BY DEF MapShowsStored
  <2>1. c \in Online(sockets) /\ d \in Settled(locReqs, disturbed)
    BY DEF Online, Settled, NothingUnderWay
  <2>2. Nobody(queues[LocationQueue], d)
    BY DEF Nobody, NothingUnderWay, LocationQueue
  <2> QED
    BY <2>1, <2>2 DEF RtInv, MapInv, MapOK
<1> QED
  BY <1>1, RealtimeInvariant, PTL

===============================================================================
