---------------------------- MODULE SettlementProofs ----------------------------
(***************************************************************************)
(* Proofs about both services over one database.  The inductive invariant  *)
(* is the conjunction of theirs: a step of the ride service keeps trips    *)
(* that are over, which is all the payment service's handlers rely on, and *)
(* a step of the payment service marks a trip that is over as paid, which  *)
(* is all it does to what the ride service's handlers rely on.             *)
(***************************************************************************)
EXTENDS TripSettlement, RideServiceProofs, LedgerProofs

Inv == RideInv /\ PayInv

\* What either service may do to a trip.
LegalMove == TripsMove \/ MarksPaid

\* The ride service's knowledge of the trips table suffices for payments.
LEMMA RideInvTypesTrips ==
  ASSUME RideInv
  PROVE  TripsTyped
BY DEF RideInv, RideTypeOK, NeverReached, TripsTyped

\* The payment service writes no audit row.
LEMMA PayKeepsEvents ==
  ASSUME PayNext
  PROVE  UNCHANGED tripEvents
<1>1. PICK r \in PayReqs : PayArrival(r) \/ PayStep(r) \/ CrashPay(r)
  BY DEF PayNext
<1>2. CASE PayArrival(r)
  BY <1>2 DEF PayArrival, ProcessPayment, ConfirmExternalPayment,
              RequestRefund, TopUp, GetBalance
<1>3. CASE PayStep(r)
  BY <1>3 DEF PayStep, CreatePayment, ProviderFails, ProviderSettles,
              ProviderInvoices, FailProcess, CheckBalance, DebitWallet,
              FinalizePayment, FinalizeTrip, CreditDriverEarnings,
              PublishPaid, CommitRefund, CreditRefund, InsertWallet,
              CreditWallet
<1>4. CASE CrashPay(r)
  BY <1>4 DEF CrashPay
<1> QED
  BY <1>1, <1>2, <1>3, <1>4

\* Marking a trip paid leaves the ride service's handlers what they know.
LEMMA MarksPaidKeepsRideInv ==
  ASSUME RideInv, MarksPaid, UNCHANGED <<tripEvents, drivers, rideReqs>>
  PROVE  RideInv'
<1>1. TripsTyped' /\ SettleableKept
  BY RideInvTypesTrips, MarksPaidKeeps
<1>2. OverKept
  BY <1>1 DEF SettleableKept, Settleable, OverKept, Over
<1>3. RideTypeOK'
  BY <1>1 DEF RideInv, RideTypeOK, TripsTyped
<1>4. NoDriverYet' /\ NeverReached'
  <2>1. CASE UNCHANGED trips
    BY <2>1 DEF RideInv, NoDriverYet, NeverReached
  <2>2. ASSUME NEW t \in TripIds, trips' = [trips EXCEPT ![t].status = "paid"]
        PROVE  NoDriverYet' /\ NeverReached'
    <3>1. /\ trips'[t].status = "paid"
          /\ \A u \in TripIds : u # t => trips'[u] = trips[u]
      BY <2>2 DEF RideInv, RideTypeOK, TripRow
    <3> QED
      BY <3>1 DEF RideInv, NoDriverYet, NeverReached
  <2> QED
    BY <2>1, <2>2 DEF MarksPaid
<1>5. RequestsOK'
  BY <1>2, OthersKeepRequest DEF RideInv, RequestsOK
<1> QED
  BY <1>3, <1>4, <1>5 DEF RideInv

\* A step of either service preserves the invariant by a legal move.
LEMMA InvStep ==
  ASSUME Inv, [Next]_vars
  PROVE  Inv' /\ LegalMove
<1>1. CASE RideNext /\ UNCHANGED payVars
  <2>1. RideTypeOK' /\ TripsMove /\ RequestsMove
    BY <1>1, RideNextMoves DEF Inv
  <2>2. SettleableKept
    BY <2>1, MovesKeepRows DEF Inv, OverKept, Over, SettleableKept, Settleable
  <2> QED
    BY <1>1, <2>1, <2>2, RideInvStep, PayInvKept DEF Inv, LegalMove
<1>2. CASE PayNext /\ UNCHANGED <<drivers, rideReqs>>
  <2>1. PICK r \in PayReqs : PayMove(r)
    BY <1>2, PayNextMoves, RideInvTypesTrips DEF Inv
  <2>2. MarksPaid /\ UNCHANGED <<tripEvents, drivers, rideReqs>>
    BY <1>2, <2>1, PayKeepsEvents DEF PayMove
  <2> QED
    BY <2>1, <2>2, PayInvStep, RideInvTypesTrips, MarksPaidKeepsRideInv
       DEF Inv, LegalMove
<1>3. CASE UNCHANGED vars
  <2>1. TripsMove /\ SettleableKept /\ UNCHANGED payVars
    BY <1>3 DEF vars, payVars, TripsMove, SettleableKept
  <2>2. RequestsMove /\ RideTypeOK'
    BY <1>3 DEF vars, RequestsMove, Inv, RideInv, RideTypeOK
  <2> QED
    BY <2>1, <2>2, RideInvStep, PayInvKept DEF Inv, LegalMove
<1> QED
  BY <1>1, <1>2, <1>3 DEF Next

-------------------------------------------------------------------------------
\* The inductive invariant of the two services together.
THEOREM SettlementInvariant == Spec => []Inv
<1>1. Init => Inv
  BY RideInvInit, PayInvInit DEF Init, Inv
<1> QED
  BY <1>1, InvStep, PTL DEF Spec

\* Both services keep their types while they share the trips table.
THEOREM SettlementTypesCorrect == Spec => [](RideTypeOK /\ PayTypeOK)
<1>1. Inv => RideTypeOK /\ PayTypeOK
  BY DEF Inv, RideInv, PayInv
<1> QED
  BY <1>1, SettlementInvariant, PTL

\* Only finished trips are charged: whatever a payment handler has read, its
\* trip is finished when it acts, and so is the trip of every payments row.
THEOREM SettlementChargesFinished == Spec => []OnlyFinishedTripsCharged
<1>1. Inv => OnlyFinishedTripsCharged
  BY DEF Inv, PayInv, PayOK, RowOK, Settleable, OnlyFinishedTripsCharged,
         Finished
<1> QED
  BY <1>1, SettlementInvariant, PTL

\* What a legal move does to one trip.
LEMMA LegalMoveOfTrip ==
  ASSUME Inv, LegalMove, NEW t \in TripIds
  PROVE  /\ trips[t].status = "cancelled" => trips'[t].status = "cancelled"
         /\ trips[t].status \in Finished => trips'[t].status \in Finished
         /\ trips[t].driver # Null => trips'[t].driver = trips[t].driver
<1>1. CASE UNCHANGED trips
  BY <1>1
<1>2. CASE TripsMove /\ RowMoves(t)
  <2>1. trips[t].status # "cancelled"
    BY <1>2 DEF RowMoves, Cancellable, Driving, Over
  <2>2. trips[t].status \in Finished => trips'[t].status \in Finished
    BY <1>2 DEF RowMoves, Cancellable, Driving, Over, Finished
  <2>3. trips[t].driver # Null => trips'[t].driver = trips[t].driver
    BY <1>2 DEF RowMoves
  <2> QED
    BY <2>1, <2>2, <2>3
<1>3. CASE trips'[t] = trips[t]
  BY <1>3
<1>4. CASE \E u \in TripIds : /\ trips[u].status \in Settleable
                              /\ trips' = [trips EXCEPT ![u].status = "paid"]
  <2>1. PICK u \in TripIds : /\ trips[u].status \in Settleable
                             /\ trips' = [trips EXCEPT ![u].status = "paid"]
    BY <1>4
  <2>2. /\ trips'[u].status = "paid" /\ trips'[u].driver = trips[u].driver
        /\ u # t => trips'[t] = trips[t]
    BY <2>1 DEF Inv, RideInv, RideTypeOK, TripRow
  <2> QED
    BY <2>1, <2>2 DEF Settleable, Finished
<1> QED
  BY <1>1, <1>2, <1>3, <1>4 DEF LegalMove, TripsMove, MarksPaid

\* No late statement of either service revives a cancelled trip, although two
\* of their UPDATEs do not test the status.
THEOREM SettlementCancelledIsFinal == Spec => CancelledIsFinal
<1>1. Inv /\ [Next]_vars =>
        [\A t \in TripIds :
           trips[t].status = "cancelled" => trips'[t].status = "cancelled"]_vars
  BY InvStep, LegalMoveOfTrip
<1> QED
  BY <1>1, SettlementInvariant, PTL DEF Spec, CancelledIsFinal

\* No late statement of either service takes a finished trip back.
THEOREM SettlementFinishedStays == Spec => FinishedStaysFinished
<1>1. Inv /\ [Next]_vars =>
        [\A t \in TripIds :
           trips[t].status \in Finished => trips'[t].status \in Finished]_vars
  BY InvStep, LegalMoveOfTrip
<1> QED
  BY <1>1, SettlementInvariant, PTL DEF Spec, FinishedStaysFinished

\* However many drivers accept a trip at once, it has one driver for ever.
THEOREM SettlementOneDriver == Spec => DriverNeverReassigned
<1>1. Inv /\ [Next]_vars =>
        [\A t \in TripIds :
           trips[t].driver # Null => trips'[t].driver = trips[t].driver]_vars
  BY InvStep, LegalMoveOfTrip
<1> QED
  BY <1>1, SettlementInvariant, PTL DEF Spec, DriverNeverReassigned

-------------------------------------------------------------------------------
(***************************************************************************)
(* A passenger is charged the fare of the trip, for any number of trips,   *)
(* payments and concurrent requests of both services.                      *)
(*                                                                         *)
(* A payment may read its trip before, between or after the two UPDATEs of *)
(* a completing advance.  It reads the same fare each time, because the    *)
(* price that advance is about to write is still the one the columns agree *)
(* on, and nothing else writes them once the row is inserted.              *)
(***************************************************************************)

\* The handlers that are on their way to set a trip's final price.
Pricing(q) == \/ q.pc = "advance.price"
              \/ q.pc = "advance.event" /\ q.to = "completed"

\* They have the price the columns of the trip still agree on.
PricesInHand ==
  \A r \in RideReqs :
    Pricing(rideReqs[r]) => rideReqs[r].price = AgreedPrice(rideReqs[r].trip)

\* An amount is still what a new payment of the trip would be asked for.
Due(t, amount) == amount # 0 /\ amount = FareDue(t)

AmountsDue ==
  /\ \A p \in PaymentIds :
       PaymentExists(p) => Due(payments[p].trip, payments[p].amount)
  /\ \A r \in PayReqs :
       PayAt(r, "process.insert") => Due(payReqs[r].trip, payReqs[r].amount)

FareInv == Inv /\ PricesInHand /\ AmountsDue

\* What a step may do to the prices of a trip that exists; whose it is, is
\* kept along with them.
PricesKept ==
  \A t \in TripIds : Exists(t) =>
    /\ trips'[t].passenger = trips[t].passenger
    /\ trips'[t].fixed = trips[t].fixed
    /\ trips'[t].offered = trips[t].offered
    /\ trips'[t].final \in {trips[t].final, AgreedPrice(t)}

\* What a step of the ride service does to its handlers.
HandlersPriced ==
  \A r \in RideReqs :
    \/ rideReqs'[r] = rideReqs[r]
    \/ rideReqs'[r].pc \notin {"advance.event", "advance.price"}
    \/ /\ rideReqs'[r].trip \in TripIds /\ Exists(rideReqs'[r].trip)
       /\ rideReqs'[r].price = AgreedPrice(rideReqs'[r].trip)

-------------------------------------------------------------------------------
\* The price the columns agree on survives its own assignment.
LEMMA AgreedPriceKept ==
  ASSUME RideTypeOK, PricesKept, NEW t \in TripIds, Exists(t)
  PROVE  AgreedPrice(t)' = AgreedPrice(t)
<1>1. Null \notin Nat
  BY NullIsNew
<1>2. AgreedPrice(t) # Null
  BY <1>1 DEF AgreedPrice, Coalesce
<1> QED
  BY <1>2 DEF PricesKept, AgreedPrice, Coalesce

\* So does a fare that is due.
LEMMA DueKept ==
  ASSUME PricesKept, NEW t \in TripIds, Exists(t), NEW amount, Due(t, amount)
  PROVE  Due(t, amount)'
BY DEF PricesKept, AgreedPrice, FareDue, Coalesce, Due

\* A step that writes no price, status changes included.
LEMMA StatusKeepsPrices ==
  ASSUME RideTypeOK, NEW t \in TripIds, NEW s,
         trips' = [trips EXCEPT ![t].status = s]
  PROVE  PricesKept
BY DEF RideTypeOK, TripRow, PricesKept

\* Marking trips paid is such a step.
LEMMA MarksPaidKeepsPrices ==
  ASSUME RideTypeOK, MarksPaid
  PROVE  PricesKept
<1>1. CASE UNCHANGED trips
  BY <1>1 DEF PricesKept
<1> QED
  BY <1>1, StatusKeepsPrices DEF MarksPaid

\* A handler that begins, or moves to an await that needs no price.
LEMMA SlotPriced ==
  ASSUME RideTypeOK, NEW r \in RideReqs, NEW q,
         rideReqs' = [rideReqs EXCEPT ![r] = q],
         q.pc \notin {"advance.event", "advance.price"}
  PROVE  HandlersPriced
BY DEF RideTypeOK, HandlersPriced

\* The three ways to write a slot, for such an await.
LEMMA SlotsPriced ==
  ASSUME RideTypeOK, NEW r \in RideReqs,
         \/ End(r)
         \/ \E pc \in RidePc \ {"advance.event", "advance.price"} :
              \/ Goto(r, pc)
              \/ \E t, d, from, to : Begin(r, pc, t, d, from, to)
  PROVE  HandlersPriced
<1>1. CASE End(r)
  BY <1>1, SlotPriced DEF End, IdleRide
<1>2. ASSUME NEW pc \in RidePc \ {"advance.event", "advance.price"}, Goto(r, pc)
      PROVE  HandlersPriced
  <2>1. [rideReqs[r] EXCEPT !.pc = pc].pc = pc
    BY DEF RideTypeOK, RideRequest
  <2> QED
    BY <1>2, <2>1, SlotPriced DEF Goto
<1>3. ASSUME NEW pc \in RidePc \ {"advance.event", "advance.price"},
             NEW t, NEW d, NEW from, NEW to, Begin(r, pc, t, d, from, to)
      PROVE  HandlersPriced
  <2> DEFINE q == [IdleRide EXCEPT !.pc = pc, !.trip = t, !.driver = d,
                                   !.from = from, !.to = to]
  <2>1. q.pc = pc
    BY DEF IdleRide
  <2>2. rideReqs' = [rideReqs EXCEPT ![r] = q]
    BY <1>3 DEF Begin
  <2> HIDE DEF q
  <2> QED
    BY <1>3, <2>1, <2>2, SlotPriced
<1> QED
  BY <1>1, <1>2, <1>3

-------------------------------------------------------------------------------
\* Requests that arrive at the ride service write no price of a trip that
\* exists, and start no pricing.
LEMMA ArrivalPrices ==
  ASSUME RideInv, NEW r \in RideReqs, RideArrival(r)
  PROVE  PricesKept /\ HandlersPriced
<1>1. RideTypeOK
  BY DEF RideInv
<1>2. ASSUME UNCHANGED trips
      PROVE  PricesKept
  BY <1>2 DEF PricesKept
<1>3. {"create.update", "cancel.update", "accept.update", "advance.update",
       "patch.update", "online.update", "offline.update"}
        \subseteq RidePc \ {"advance.event", "advance.price"}
  BY DEF RidePc
<1>4. ASSUME NEW p \in Passengers, NEW dto \in RideDto, NEW total \in Fares,
             CreateRide(r, p, dto, total)
      PROVE  PricesKept /\ HandlersPriced
  <2>1. PICK t \in TripIds :
          /\ InsertTrip(t, p, IF dto.rideType = "fixed" THEN total ELSE Null,
                        dto.offered)
          /\ Begin(r, "create.update", t, Null, "requested", "searching")
    BY <1>4 DEF CreateRide
  <2>2. PricesKept
    BY <1>1, <2>1 DEF InsertTrip, PricesKept, RideTypeOK
  <2> QED
    BY <1>1, <1>3, <2>1, <2>2, SlotsPriced
<1>5. ASSUME NEW t \in TripIds, CancelTrip(r, t)
      PROVE  PricesKept /\ HandlersPriced
  BY <1>1, <1>2, <1>3, <1>5, SlotsPriced DEF CancelTrip
<1>6. ASSUME NEW d \in Drivers, NEW t \in TripIds, AcceptOffer(r, d, t)
      PROVE  PricesKept /\ HandlersPriced
  BY <1>1, <1>2, <1>3, <1>6, SlotsPriced DEF AcceptOffer
<1>7. ASSUME NEW d \in Drivers, NEW t \in TripIds, AdvanceTrip(r, d, t)
      PROVE  PricesKept /\ HandlersPriced
  BY <1>1, <1>2, <1>3, <1>7, SlotsPriced DEF AdvanceTrip
<1>8. ASSUME NEW d \in Drivers, NEW t \in TripIds, NEW target \in TripStatus,
             PatchTripStatus(r, d, t, target)
      PROVE  PricesKept /\ HandlersPriced
  BY <1>1, <1>2, <1>3, <1>8, SlotsPriced DEF PatchTripStatus
<1>9. ASSUME NEW d \in Drivers, NEW isOnline \in BOOLEAN,
             SetOnlineStatus(r, d, isOnline)
      PROVE  PricesKept /\ HandlersPriced
  <2>1. PICK pc \in {"online.update", "offline.update"} :
          Begin(r, pc, Null, d, Null, Null)
    BY <1>9 DEF SetOnlineStatus
  <2> QED
    BY <1>1, <1>2, <1>3, <1>9, <2>1, SlotsPriced DEF SetOnlineStatus
<1> QED
  BY <1>4, <1>5, <1>6, <1>7, <1>8, <1>9 DEF RideArrival

\* The statements of createRide, cancelTrip and respondToOffer after the first
\* write no price.
LEMMA StatusStepPrices ==
  ASSUME RideInv, NEW r \in RideReqs,
         \/ StartSearch(r) \/ CommitCancel(r) \/ CommitAccept(r)
         \/ OfferTrip(r)   \/ PublishStatus(r) \/ CommitOnline(r)
         \/ CrashRide(r)
  PROVE  PricesKept /\ HandlersPriced
<1> DEFINE q == rideReqs[r]
<1>1. RideTypeOK
  BY DEF RideInv
<1>2. ASSUME UNCHANGED trips, End(r)
      PROVE  PricesKept /\ HandlersPriced
  BY <1>1, <1>2, SlotsPriced DEF PricesKept
<1>3. "create.publish" \in RidePc /\ "publish" \in RidePc
  BY DEF RidePc
<1>4. CASE StartSearch(r) \/ CommitCancel(r)
  <2>1. CASE Refuse(r)
    BY <1>2, <2>1 DEF Refuse
  <2>2. CASE /\ UpdateStatus(q.trip, q.from, q.to)
             /\ Goto(r, "create.publish") \/ Goto(r, "publish")
    <3>1. q.trip \in TripIds
      BY <1>4 DEF RideInv, RequestsOK, RequestOK, StartSearch, CommitCancel, At
    <3> QED
      BY <1>1, <1>3, <2>2, <3>1, StatusKeepsPrices, SlotsPriced
         DEF UpdateStatus
  <2> QED
    BY <1>4, <2>1, <2>2 DEF StartSearch, CommitCancel
<1>5. CASE CommitAccept(r)
  <2>1. CASE Refuse(r)
    BY <1>2, <2>1 DEF Refuse
  <2>2. CASE AcceptTrip(q.trip, q.driver) /\ Goto(r, "publish")
    <3>1. q.trip \in TripIds
      BY <1>5 DEF RideInv, RequestsOK, RequestOK, CommitAccept, At
    <3>2. PricesKept
      BY <1>1, <2>2, <3>1 DEF AcceptTrip, RideTypeOK, TripRow, PricesKept
    <3> QED
      BY <1>1, <1>3, <2>2, <3>2, SlotsPriced
  <2> QED
    BY <1>5, <2>1, <2>2 DEF CommitAccept
<1>6. CASE OfferTrip(r) \/ PublishStatus(r) \/ CommitOnline(r) \/ CrashRide(r)
  BY <1>2, <1>6 DEF OfferTrip, PublishStatus, CommitOnline, CrashRide, Refuse
<1> QED
  BY <1>4, <1>5, <1>6

\* The statements of an advance and of a patch: what RETURNING gave the handler
\* is what the columns agree on, and PriceTrip writes just that.
LEMMA MoveStepPrices ==
  ASSUME RideInv, PricesInHand, NEW r \in RideReqs,
         \/ CommitAdvance(r) \/ RecordAdvance(r) \/ PriceTrip(r)
         \/ CommitPatch(r)   \/ RecordPatch(r)
  PROVE  PricesKept /\ HandlersPriced
<1> DEFINE q == rideReqs[r]
<1>1. RideTypeOK /\ q \in RideRequest /\ RequestOK(q)
  BY DEF RideInv, RideTypeOK, RequestsOK
<1>2. "publish" \in RidePc
  BY DEF RidePc
<1>3. CASE CommitAdvance(r) \/ CommitPatch(r)
  <2>1. CASE Refuse(r)
    BY <1>1, <2>1, SlotsPriced DEF Refuse, PricesKept
  <2>2. ASSUME NEW pc, UpdateTripStatus(q.trip, q.driver, q.from, q.to),
               rideReqs' = [rideReqs EXCEPT ![r] =
                 [@ EXCEPT !.pc = pc, !.price = AgreedPrice(q.trip)]]
        PROVE  PricesKept /\ HandlersPriced
    <3>1. q.trip \in TripIds /\ Exists(q.trip)
      BY <1>1, <1>3, <2>2
         DEF CommitAdvance, CommitPatch, CommitMove, At, RequestOK, Driving,
             UpdateTripStatus, OwnedWithStatus, Exists
    <3>2. PricesKept
      BY <1>1, <2>2, <3>1, StatusKeepsPrices DEF UpdateTripStatus
    <3> DEFINE new == [q EXCEPT !.pc = pc, !.price = AgreedPrice(q.trip)]
    <3>3. new.trip = q.trip /\ new.price = AgreedPrice(q.trip)
      BY <1>1 DEF RideRequest
    <3>4. rideReqs'[r] = new /\ \A o \in RideReqs : o # r => rideReqs'[o] = rideReqs[o]
      BY <1>1, <2>2 DEF RideTypeOK
    <3> HIDE DEF new
    <3> QED
      BY <3>1, <3>2, <3>3, <3>4 DEF HandlersPriced
  <2> QED
    BY <1>3, <2>1, <2>2 DEF CommitAdvance, CommitPatch, CommitMove
<1>4. CASE RecordAdvance(r)
  <2>1. PricesKept
    BY <1>4 DEF RecordAdvance, PricesKept
  <2>2. CASE q.to # "completed"
    BY <1>1, <1>2, <1>4, <2>1, <2>2, SlotsPriced DEF RecordAdvance
  <2>3. CASE q.to = "completed"
    <3>1. q.trip \in TripIds /\ Exists(q.trip)
      BY <1>1, <1>4, <2>3 DEF RecordAdvance, At, RequestOK, Over, Exists
    <3>2. q.price = AgreedPrice(q.trip)
      BY <1>4, <2>3 DEF PricesInHand, Pricing, RecordAdvance, At
    <3> DEFINE new == [q EXCEPT !.pc = "advance.price"]
    <3>3. new.trip = q.trip /\ new.price = q.price
      BY <1>1 DEF RideRequest
    <3>4. rideReqs'[r] = new /\ \A o \in RideReqs : o # r => rideReqs'[o] = rideReqs[o]
      BY <1>1, <1>4, <2>3 DEF RideTypeOK, RecordAdvance, Goto
    <3> HIDE DEF new
    <3> QED
      BY <2>1, <3>1, <3>2, <3>3, <3>4 DEF HandlersPriced
  <2> QED
    BY <2>2, <2>3
<1>5. CASE RecordPatch(r)
  BY <1>1, <1>2, <1>5, SlotsPriced DEF RecordPatch, PricesKept
<1>6. CASE PriceTrip(r)
  <2>1. q.price = AgreedPrice(q.trip) /\ q.trip \in TripIds
    BY <1>1, <1>6 DEF PricesInHand, Pricing, PriceTrip, At, RequestOK
  <2>2. PricesKept
    BY <1>1, <1>6, <2>1 DEF PriceTrip, SetFinalPrice, RideTypeOK, TripRow, PricesKept
  <2> QED
    BY <1>1, <1>2, <1>6, <2>2, SlotsPriced DEF PriceTrip
<1> QED
  BY <1>3, <1>4, <1>5, <1>6

\* Every step of the ride service keeps the prices in hand and the fares due.
LEMMA RideKeepsFares ==
  ASSUME FareInv, RideNext
  PROVE  PricesKept /\ PricesInHand'
<1>1. RideInv /\ RideTypeOK /\ PricesInHand
  BY DEF FareInv, Inv, RideInv
<1>2. PricesKept /\ HandlersPriced
  <2>1. CASE UNCHANGED <<trips, rideReqs>>
    BY <2>1 DEF PricesKept, HandlersPriced
  <2> QED
    BY <1>1, <2>1, ArrivalPrices, StatusStepPrices, MoveStepPrices
       DEF RideNext, RideStep, DeclineOffer, ModerateDriver
<1>3. ASSUME NEW r \in RideReqs, Pricing(rideReqs[r])'
      PROVE  (rideReqs[r].price = AgreedPrice(rideReqs[r].trip))'
  <2>1. /\ rideReqs'[r].trip \in TripIds /\ Exists(rideReqs'[r].trip)
        /\ rideReqs'[r].price = AgreedPrice(rideReqs'[r].trip)
    <3>1. CASE rideReqs'[r] = rideReqs[r]
      <4>1. Pricing(rideReqs[r])
        BY <1>3, <3>1 DEF Pricing
      <4>2. rideReqs[r].trip \in TripIds /\ Exists(rideReqs[r].trip)
        BY <1>1, <4>1 DEF Pricing, RideInv, RequestsOK, RequestOK, Over, Exists
      <4> QED
        BY <1>1, <3>1, <4>1, <4>2 DEF PricesInHand
    <3> QED
      BY <1>2, <1>3, <3>1 DEF HandlersPriced, Pricing
  <2>2. PICK t \in TripIds : t = rideReqs'[r].trip
    BY <2>1
  <2>3. Exists(t) /\ rideReqs'[r].price = AgreedPrice(t)
    BY <2>1, <2>2
  <2>4. AgreedPrice(t)' = AgreedPrice(t)
    BY <1>1, <1>2, <2>3, AgreedPriceKept
  <2>5. AgreedPrice(rideReqs[r].trip)' = AgreedPrice(t)'
    BY <2>2 DEF AgreedPrice
  <2> QED
    BY <2>3, <2>4, <2>5
<1> QED
  BY <1>2, <1>3 DEF PricesInHand

-------------------------------------------------------------------------------
\* An amount that a payment step takes over or has just read is due.
DueNow(t, amount) == t \in TripIds /\ Exists(t) /\ Due(t, amount)

\* What a step of the payment service does to rows and handlers.
RowsDue ==
  \A p \in PaymentIds : PaymentExists(p)' =>
    \/ /\ PaymentExists(p) /\ payments'[p].trip = payments[p].trip
       /\ payments'[p].amount = payments[p].amount
    \/ DueNow(payments'[p].trip, payments'[p].amount)

SlotsDue ==
  \A r \in PayReqs : payReqs'[r].pc = "process.insert" =>
    payReqs'[r] = payReqs[r] \/ DueNow(payReqs'[r].trip, payReqs'[r].amount)

\* A handler that ends, or is not about to insert a row.
LEMMA PaySlotDue ==
  ASSUME PayTypeOK, NEW r \in PayReqs,
         \/ PayEnd(r)
         \/ \E pc : pc # "process.insert" /\ PayGoto(r, pc)
         \/ \E q : /\ q.pc # "process.insert"
                   /\ payReqs' = [payReqs EXCEPT ![r] = q]
  PROVE  SlotsDue
<1>1. ASSUME NEW q, q.pc # "process.insert",
             payReqs' = [payReqs EXCEPT ![r] = q]
      PROVE  SlotsDue
  BY <1>1 DEF PayTypeOK, SlotsDue
<1>2. CASE PayEnd(r)
  BY <1>1, <1>2 DEF PayEnd, IdlePay
<1>3. ASSUME NEW pc, pc # "process.insert", PayGoto(r, pc)
      PROVE  SlotsDue
  <2>1. [payReqs[r] EXCEPT !.pc = pc].pc = pc
    BY DEF PayTypeOK, PayRequest
  <2> QED
    BY <1>1, <1>3, <2>1 DEF PayGoto
<1> QED
  BY <1>1, <1>2, <1>3

\* The UPDATEs of a row's status keep its trip and its amount.
LEMMA StatusKeepsDue ==
  ASSUME PayTypeOK, NEW p \in PaymentIds, PaymentExists(p), NEW st,
         SetPaymentStatus(p, st)
  PROVE  RowsDue
BY DEF PayTypeOK, PaymentRow, SetPaymentStatus, RowsDue, PaymentExists

\* Requests that arrive at the payment service.
LEMMA PayArrivalDue ==
  ASSUME PayInv, NEW r \in PayReqs, PayArrival(r)
  PROVE  RowsDue /\ SlotsDue
<1>1. PayTypeOK
  BY DEF PayInv
<1>2. RowsDue
  <2>1. UNCHANGED payments
    BY DEF PayArrival, ProcessPayment, ConfirmExternalPayment, RequestRefund,
           TopUp, GetBalance
  <2> QED
    BY <2>1 DEF RowsDue, PaymentExists
<1>3. ASSUME NEW u \in Passengers, NEW t \in TripIds, NEW method \in Methods,
             ProcessPayment(r, u, t, method)
      PROVE  SlotsDue
  <2> DEFINE new == [IdlePay EXCEPT !.pc = "process.insert", !.trip = t,
                       !.user = u, !.driver = trips[t].driver,
                       !.amount = FareDue(t), !.method = method]
  <2>1. new.trip = t /\ new.amount = FareDue(t)
    BY DEF IdlePay
  <2>2. payReqs' = [payReqs EXCEPT ![r] = new]
    BY <1>3 DEF ProcessPayment, PayBegin
  <2>3. DueNow(t, FareDue(t))
    BY <1>3 DEF ProcessPayment, Payable, Exists, DueNow, Due
  <2> HIDE DEF new
  <2> QED
    BY <1>1, <2>1, <2>2, <2>3 DEF PayTypeOK, SlotsDue
<1>4. ASSUME NEW t \in TripIds, ConfirmExternalPayment(r, t)
      PROVE  SlotsDue
  <2>1. PICK p \in PaymentIds :
          PayBegin(r, [IdlePay EXCEPT !.pc = "finalize.payment", !.trip = t,
                         !.payment = p, !.user = payments[p].user,
                         !.driver = trips[t].driver,
                         !.amount = payments[p].amount,
                         !.method = payments[p].method])
    BY <1>4 DEF ConfirmExternalPayment
  <2> QED
    BY <1>1, <2>1 DEF PayBegin, PayTypeOK, SlotsDue, IdlePay
<1>5. ASSUME NEW u \in Passengers, NEW t \in TripIds, RequestRefund(r, u, t)
      PROVE  SlotsDue
  <2>1. PICK p \in PaymentIds :
          PayBegin(r, [IdlePay EXCEPT !.pc = "refund.update", !.trip = t,
                         !.payment = p, !.user = u,
                         !.amount = payments[p].amount,
                         !.method = payments[p].method])
    BY <1>5 DEF RequestRefund
  <2> QED
    BY <1>1, <2>1 DEF PayBegin, PayTypeOK, SlotsDue, IdlePay
<1>6. ASSUME NEW u \in Passengers, NEW amount \in TopUps, TopUp(r, u, amount)
      PROVE  SlotsDue
  <2>1. CreditPc(PassengerWallet(u)) # "process.insert"
    BY DEF CreditPc
  <2> QED
    BY <1>1, <1>6, <2>1 DEF TopUp, PayBegin, PayTypeOK, SlotsDue, IdlePay
<1>7. ASSUME NEW u \in Passengers, GetBalance(r, u)
      PROVE  SlotsDue
  BY <1>1, <1>7 DEF GetBalance, PayBegin, PayTypeOK, SlotsDue, IdlePay
<1> QED
  BY <1>2, <1>3, <1>4, <1>5, <1>6, <1>7 DEF PayArrival

\* The INSERT takes the amount its handler read, which is still due.
LEMMA CreatePaymentDue ==
  ASSUME PayInv, AmountsDue, NEW r \in PayReqs, CreatePayment(r)
  PROVE  RowsDue /\ SlotsDue
<1> DEFINE q == payReqs[r]
<1>1. PayTypeOK /\ q \in PayRequest
  BY DEF PayInv, PayTypeOK
<1>2. DueNow(q.trip, q.amount)
  BY NullIsNoNumber DEF CreatePayment, PayAt, PayInv, PayOK, AmountsDue, DueNow,
                        Exists, Settleable
<1>3. PICK p \in PaymentIds :
        /\ InsertPayment(p, q.trip, q.user, q.amount, q.method)
        /\ payReqs' = [payReqs EXCEPT ![r] =
                         [@ EXCEPT !.pc = AfterInsert(q.method), !.payment = p]]
  BY DEF CreatePayment
<1>4. RowsDue
  BY <1>1, <1>2, <1>3 DEF InsertPayment, PayTypeOK, RowsDue, PaymentExists
<1>5. SlotsDue
  <2> DEFINE new == [q EXCEPT !.pc = AfterInsert(q.method), !.payment = p]
  <2>1. AfterInsert(q.method) # "process.insert"
    BY DEF AfterInsert
  <2>2. new.pc # "process.insert"
    BY <1>1, <2>1 DEF PayRequest
  <2>3. payReqs' = [payReqs EXCEPT ![r] = new]
    BY <1>3
  <2> HIDE DEF new
  <2> QED
    BY <1>1, <2>2, <2>3, PaySlotDue
<1> QED
  BY <1>4, <1>5

\* The other statements of the payment service insert nothing.
LEMMA PayStepDue ==
  ASSUME PayInv, NEW r \in PayReqs, PayStep(r) \/ CrashPay(r),
         ~CreatePayment(r)
  PROVE  RowsDue /\ SlotsDue
<1> DEFINE q == payReqs[r]
<1>1. PayTypeOK /\ q \in PayRequest /\ PayOK(q)
  BY DEF PayInv, PayTypeOK
<1>2. CASE FailProcess(r) \/ FinalizePayment(r) \/ CommitRefund(r)
  <2>1. q.payment \in PaymentIds /\ PaymentExists(q.payment)
    BY <1>1, <1>2 DEF PayOK, FailProcess, FinalizePayment, CommitRefund, PayAt
  <2>2. RowsDue
    BY <1>1, <1>2, <2>1, StatusKeepsDue
       DEF FailProcess, FinalizePayment, CommitRefund, FailPayment,
           CompletePayment, RefundPayment
  <2>3. PayEnd(r) \/ PayGoto(r, "finalize.trip") \/ PayGoto(r, "refund.wallet")
    BY <1>2 DEF FailProcess, FinalizePayment, CommitRefund
  <2> QED
    BY <1>1, <2>2, <2>3, PaySlotDue
<1>3. ASSUME UNCHANGED payments
      PROVE  RowsDue
  BY <1>3 DEF RowsDue, PaymentExists
<1>4. CASE \/ ProviderFails(r) \/ ProviderSettles(r) \/ ProviderInvoices(r)
           \/ DebitWallet(r)   \/ FinalizeTrip(r)    \/ PublishPaid(r)
           \/ CrashPay(r)      \/ InsertWallet(r)
  <2>1. UNCHANGED payments
    BY <1>4 DEF ProviderFails, ProviderSettles, ProviderInvoices, DebitWallet,
                FinalizeTrip, PublishPaid, CrashPay, InsertWallet
  <2>2. \/ PayEnd(r) \/ PayGoto(r, "process.fail")
        \/ PayGoto(r, "finalize.payment") \/ PayGoto(r, "finalize.driver")
        \/ PayGoto(r, "credit.update")
    BY <1>4 DEF ProviderFails, ProviderSettles, ProviderInvoices, DebitWallet,
                FinalizeTrip, PublishPaid, CrashPay, InsertWallet
  <2> QED
    BY <1>1, <1>3, <2>1, <2>2, PaySlotDue
<1>5. CASE CheckBalance(r)
  <2>1. PICK pc \in {"debit.update", "process.fail"} : PayGoto(r, pc)
    BY <1>5 DEF CheckBalance
  <2> QED
    BY <1>1, <1>3, <1>5, <2>1, PaySlotDue DEF CheckBalance
<1>6. CASE CreditWallet(r)
  <2>1. q.next # "process.insert"
    BY <1>1 DEF PayRequest
  <2> QED
    BY <1>1, <1>3, <1>6, <2>1, PaySlotDue DEF CreditWallet
<1>7. CASE CreditDriverEarnings(r) \/ CreditRefund(r)
  <2>1. \A w : CreditPc(w) # "process.insert"
    BY DEF CreditPc
  <2>2. ASSUME NEW new, payReqs' = [payReqs EXCEPT ![r] = new],
               new.pc # "process.insert"
        PROVE  SlotsDue
    BY <1>1, <2>2, PaySlotDue
  <2>3. CASE CreditRefund(r)
    <3> DEFINE w == PassengerWallet(q.user)
               new == [q EXCEPT !.pc = CreditPc(w), !.wallet = w]
    <3>1. new.pc # "process.insert"
      BY <1>1, <2>1 DEF PayRequest
    <3>2. payReqs' = [payReqs EXCEPT ![r] = new]
      BY <2>3 DEF CreditRefund
    <3> HIDE DEF new
    <3> QED
      BY <1>3, <2>2, <2>3, <3>1, <3>2 DEF CreditRefund
  <2>4. CASE CreditDriverEarnings(r)
    <3> DEFINE w == EarningsWallet(q.driver)
               new == IF q.driver = Null
                        THEN [q EXCEPT !.pc = "finalize.publish"]
                        ELSE [q EXCEPT !.pc = CreditPc(w), !.wallet = w,
                                       !.amount = Net(@),
                                       !.next = "finalize.publish"]
    <3>1. new.pc # "process.insert"
      BY <1>1, <2>1 DEF PayRequest
    <3>2. payReqs' = [payReqs EXCEPT ![r] = new]
      BY <2>4 DEF CreditDriverEarnings
    <3> HIDE DEF new
    <3> QED
      BY <1>3, <2>2, <2>4, <3>1, <3>2 DEF CreditDriverEarnings
  <2> QED
    BY <1>7, <2>3, <2>4
<1> QED
  BY <1>2, <1>4, <1>5, <1>6, <1>7 DEF PayStep

\* What is due stays due while prices are kept.
LEMMA AmountsDueKept ==
  ASSUME PayInv, AmountsDue, PricesKept, RowsDue, SlotsDue
  PROVE  AmountsDue'
<1>1. ASSUME NEW t, NEW amount, DueNow(t, amount)
      PROVE  Due(t, amount)'
  BY <1>1, DueKept DEF DueNow
<1>2. ASSUME NEW p \in PaymentIds, PaymentExists(p)'
      PROVE  Due(payments[p].trip, payments[p].amount)'
  <2>1. DueNow(payments'[p].trip, payments'[p].amount)
    BY <1>2 DEF RowsDue, AmountsDue, DueNow, PayInv, RowOK, Exists, Settleable
  <2>2. PICK t, amount : t = payments'[p].trip /\ amount = payments'[p].amount
    OBVIOUS
  <2>3. Due(t, amount)'
    BY <1>1, <2>1, <2>2
  <2> QED
    BY <2>2, <2>3 DEF Due, FareDue
<1>3. ASSUME NEW r \in PayReqs, PayAt(r, "process.insert")'
      PROVE  Due(payReqs[r].trip, payReqs[r].amount)'
  <2>1. DueNow(payReqs'[r].trip, payReqs'[r].amount)
    BY <1>3, NullIsNoNumber
       DEF SlotsDue, AmountsDue, DueNow, PayAt, PayInv, PayOK, Exists, Settleable
  <2>2. PICK t, amount : t = payReqs'[r].trip /\ amount = payReqs'[r].amount
    OBVIOUS
  <2>3. Due(t, amount)'
    BY <1>1, <2>1, <2>2
  <2> QED
    BY <2>2, <2>3 DEF Due, FareDue
<1> QED
  BY <1>2, <1>3 DEF AmountsDue

-------------------------------------------------------------------------------
\* A step of either service preserves FareInv.
LEMMA FareInvStep ==
  ASSUME FareInv, [Next]_vars
  PROVE  FareInv'
<1>1. Inv /\ RideInv /\ PayInv /\ RideTypeOK /\ PricesInHand /\ AmountsDue
  BY DEF FareInv, Inv, RideInv
<1>2. Inv'
  BY <1>1, InvStep
<1>3. CASE RideNext /\ UNCHANGED payVars
  <2>1. PricesKept /\ PricesInHand'
    BY <1>3, RideKeepsFares
  <2>2. RowsDue /\ SlotsDue
    BY <1>3 DEF payVars, RowsDue, SlotsDue, PaymentExists
  <2> QED
    BY <1>1, <1>2, <2>1, <2>2, AmountsDueKept DEF FareInv
<1>4. CASE PayNext /\ UNCHANGED <<drivers, rideReqs>>
  <2>1. PricesKept
    BY <1>1, <1>4, PayNextMoves, RideInvTypesTrips, MarksPaidKeepsPrices
       DEF PayMove
  <2>2. RowsDue /\ SlotsDue
    BY <1>1, <1>4, PayArrivalDue, CreatePaymentDue, PayStepDue DEF PayNext
  <2>3. PricesInHand'
    <3> SUFFICES ASSUME NEW r \in RideReqs, Pricing(rideReqs[r])
                 PROVE  (rideReqs[r].price = AgreedPrice(rideReqs[r].trip))'
      BY <1>4 DEF PricesInHand, Pricing
    <3>1. rideReqs[r].trip \in TripIds /\ Exists(rideReqs[r].trip)
      BY <1>1 DEF Pricing, RideInv, RequestsOK, RequestOK, Over, Exists
    <3>2. PICK t \in TripIds : t = rideReqs[r].trip
      BY <3>1
    <3>3. rideReqs[r].price = AgreedPrice(t) /\ AgreedPrice(t)' = AgreedPrice(t)
      BY <1>1, <2>1, <3>1, <3>2, AgreedPriceKept DEF PricesInHand
    <3>4. AgreedPrice(rideReqs[r].trip)' = AgreedPrice(t)'
      BY <1>4, <3>2 DEF AgreedPrice
    <3> QED
      BY <1>4, <3>3, <3>4
  <2> QED
    BY <1>1, <1>2, <2>1, <2>2, <2>3, AmountsDueKept DEF FareInv
<1>5. CASE UNCHANGED vars
  <2>1. PricesKept /\ RowsDue /\ SlotsDue
    BY <1>5 DEF vars, payVars, PricesKept, RowsDue, SlotsDue, PaymentExists
  <2>2. PricesInHand'
    BY <1>1, <1>5 DEF vars, PricesInHand, Pricing, AgreedPrice
  <2> QED
    BY <1>1, <1>2, <2>1, <2>2, AmountsDueKept DEF FareInv
<1> QED
  BY <1>3, <1>4, <1>5 DEF Next

LEMMA FareInvariant == Spec => []FareInv
<1>1. Init => FareInv
  <2> SUFFICES ASSUME Init
               PROVE  PricesInHand /\ AmountsDue
    BY RideInvInit, PayInvInit DEF Init, Inv, FareInv
  <2>1. PricesInHand
    BY DEF Init, RideInit, PricesInHand, Pricing, IdleRide
  <2>2. AmountsDue
    BY DEF Init, PayInit, AmountsDue, PaymentExists, NoPayment, PayAt, IdlePay
  <2> QED
    BY <2>1, <2>2
<1> QED
  BY <1>1, FareInvStep, PTL DEF Spec

\* The passenger is charged the trip's fare: a payments row has the final price
\* or, before there is one, the fixed price that will become it.
THEOREM SettlementChargesTheFare == Spec => []ChargedTheFare
<1>1. FareInv => ChargedTheFare
  <2> SUFFICES ASSUME FareInv, NEW p \in PaymentIds, PaymentExists(p)
               PROVE  LET t == payments[p].trip IN
                      /\ payments[p].amount \in {trips[t].final, trips[t].fixed}
                      /\ trips[t].final # Null
                           => payments[p].amount = trips[t].final
    BY DEF ChargedTheFare
  <2> QED
    BY DEF FareInv, AmountsDue, Due, FareDue, Coalesce
<1> QED
  BY <1>1, FareInvariant, PTL

-------------------------------------------------------------------------------
(***************************************************************************)
(* The payment service's money while the ride service runs beside it, with *)
(* any number of its requests at once.  What the books rest on is that the *)
(* ride service neither moves a trip that is over to another user nor      *)
(* marks one paid; it may still take a paid trip back to "completed", so   *)
(* TakenInv and EarnedOnlyWhenPaid are not kept.                           *)
(***************************************************************************)

\* What the ride service leaves alone.
RideLeaves ==
  \A t \in TripIds :
    /\ trips'[t].status = "paid" => trips[t].status = "paid"
    /\ trips[t].status \in Settleable =>
         /\ trips'[t].status \in Settleable
         /\ trips'[t].driver = trips[t].driver
         /\ trips'[t].passenger = trips[t].passenger

\* Click has invoices for trips that are over.
InvoicedOver == \A t \in invoices : trips[t].status \in Settleable

MoneyInv == FareInv /\ BookInv /\ SignInv /\ InvoicedOver

\* A step is one of the payment service, or leaves it alone.
LEMMA StepOfOne ==
  ASSUME FareInv, [Next]_vars
  PROVE  \/ RideLeaves /\ UNCHANGED payVars
         \/ \E r \in PayReqs : Step(r)
<1>1. CASE RideNext /\ UNCHANGED payVars
  <2>1. PricesKept
    BY <1>1, RideKeepsFares
  <2>2. TripsMove
    BY <1>1, RideNextMoves DEF FareInv, Inv
  <2>3. ASSUME NEW t \in TripIds
        PROVE  /\ trips'[t].status = "paid" => trips[t].status = "paid"
               /\ trips[t].status \in Settleable =>
                    /\ trips'[t].status \in Settleable
                    /\ trips'[t].driver = trips[t].driver
    <3>1. trips[t].status \in TripStatus \cup {"none"}
      BY DEF FareInv, Inv, RideInv, RideTypeOK, TripRow
    <3>2. CASE RowMoves(t)
      BY <3>1, <3>2 DEF RowMoves, Cancellable, Driving, Over, Settleable,
         CanTransition, ValidTripTransitions
    <3>3. CASE trips'[t] = trips[t]
      BY <3>3
    <3> QED
      BY <2>2, <3>2, <3>3 DEF TripsMove
  <2>4. \A t \in TripIds : trips[t].status \in Settleable
                             => trips'[t].passenger = trips[t].passenger
    BY <2>1 DEF PricesKept, Exists, Settleable
  <2> QED
    BY <1>1, <2>3, <2>4 DEF RideLeaves
<1>2. CASE PayNext /\ UNCHANGED <<drivers, rideReqs>>
  BY <1>2 DEF PayNext, Step
<1>3. CASE UNCHANGED vars
  BY <1>3 DEF vars, RideLeaves
<1> QED
  BY <1>1, <1>2, <1>3 DEF Next

\* The books are kept.
LEMMA RideKeepsBooks ==
  ASSUME PayInv, BookInv, InvoicedOver, RideLeaves, UNCHANGED payVars
  PROVE  BookInv' /\ InvoicedOver'
<1>1. UNCHANGED <<payments, wallets, invoices, payReqs>>
  BY DEF payVars
<1>2. ASSUME NEW r \in PayReqs
      PROVE  BookOK(payReqs[r])'
  <2> DEFINE q == payReqs[r]
  <2>1. BookOK(q) /\ PayOK(q)
    BY DEF BookInv, PayInv
  <2>2. q.pc \in DriverPcs => q.trip \in TripIds
    BY <2>1 DEF PayOK, DriverPcs
  <2>3. q.pc \in DriverPcs =>
          /\ trips'[q.trip].driver = trips[q.trip].driver
          /\ trips'[q.trip].passenger = trips[q.trip].passenger
    BY <2>1, <2>2, NullIsNoNumber DEF PayOK, RideLeaves
  <2> QED
    BY <1>1, <2>1, <2>3 DEF BookOK, DriverPcs
<1>3. ASSUME NEW p \in PaymentIds
      PROVE  RowUserOK(p)'
  <2>1. PaymentExists(p) => /\ payments[p].trip \in TripIds
                            /\ trips[payments[p].trip].status \in Settleable
    BY DEF PayInv, RowOK
  <2> QED
    BY <1>1, <2>1 DEF BookInv, RowUserOK, RideLeaves, PaymentExists
<1>4. InvoicedOver'
  BY <1>1 DEF InvoicedOver, RideLeaves, PayInv, PayTypeOK
<1> QED
  BY <1>2, <1>3, <1>4 DEF BookInv

\* A wallet that can be overdrawn still can, and no other.
LEMMA RideKeepsSigns ==
  ASSUME PayInv, BookInv, RideLeaves, UNCHANGED payVars
  PROVE  /\ \A w : NegativeFor(w) => NegativeFor(w)'
         /\ SignInv => SignInv'
<1>1. UNCHANGED <<payments, payReqs>>
  BY DEF payVars
<1>2. RowsKeepUsers
  BY <1>1 DEF RowsKeepUsers, PayInv, RowOK, RideLeaves
<1>3. \A w : NegativeFor(w) => NegativeFor(w)'
  BY <1>2, NegativeStays
<1>4. ASSUME SignInv, NEW r \in PayReqs
      PROVE  SignOK(payReqs[r])'
  <2>1. PICK q : q = payReqs[r] /\ SignOK(q)
    BY <1>4 DEF SignInv
  <2>2. SignOK(q)'
    BY <1>3, <2>1 DEF SignOK
  <2> QED
    BY <1>1, <2>1, <2>2 DEF SignOK
<1> QED
  BY <1>3, <1>4 DEF SignInv

\* A provider is asked for an invoice only of a trip that is over.
LEMMA InvoicedOverStep ==
  ASSUME PayInv, TripsTyped, InvoicedOver, NEW r \in PayReqs, Step(r)
  PROVE  InvoicedOver'
<1>1. SettleableKept
  BY PayNextMoves, MarksPaidKeeps DEF PayNext, Step, PayMove
<1>2. CASE ProviderFails(r) \/ ProviderSettles(r) \/ ProviderInvoices(r)
  <2>1. /\ payReqs[r].trip \in TripIds
        /\ trips[payReqs[r].trip].status \in Settleable
    BY <1>2, NullIsNoNumber
       DEF ProviderFails, ProviderSettles, ProviderInvoices, PayAt, PayInv,
           PayOK
  <2>2. invoices' \subseteq invoices \cup {payReqs[r].trip}
    BY <1>2 DEF ProviderFails, ProviderSettles, ProviderInvoices
  <2> QED
    BY <1>1, <2>1, <2>2 DEF SettleableKept, InvoicedOver, PayInv, PayTypeOK
<1>3. CASE ~(ProviderFails(r) \/ ProviderSettles(r) \/ ProviderInvoices(r))
  <2>1. PayArrival(r) \/ CrashPay(r) => UNCHANGED invoices
    BY ArrivalBegins DEF CrashPay
  <2>2. UNCHANGED invoices
    BY <1>3, <2>1 DEF Step, PayStep, CreatePayment, FailProcess, CheckBalance,
       DebitWallet, FinalizePayment, FinalizeTrip, CreditDriverEarnings,
       PublishPaid, CommitRefund, CreditRefund, InsertWallet, CreditWallet
  <2> QED
    BY <1>1, <2>2 DEF SettleableKept, InvoicedOver, PayInv, PayTypeOK
<1> QED
  BY <1>2, <1>3

\* The inductive invariant of both services' books, whatever interleaves or
\* dies.
LEMMA MoneyInvariant == Spec => []MoneyInv
<1>1. Init => BookInv /\ SignInv /\ InvoicedOver
  BY BookInitial, SignInitial DEF Init, PayInit, InvoicedOver
<1>2. MoneyInv /\ [Next]_vars => BookInv' /\ SignInv' /\ InvoicedOver'
  <2> SUFFICES ASSUME MoneyInv, [Next]_vars
               PROVE  BookInv' /\ SignInv' /\ InvoicedOver'
    OBVIOUS
  <2>1. FareInv /\ PayInv /\ TripsTyped /\ BookInv /\ SignInv /\ InvoicedOver
    BY RideInvTypesTrips DEF MoneyInv, FareInv, Inv
  <2> QED
    BY <2>1, StepOfOne, RideKeepsBooks, RideKeepsSigns, BookStep, SignStep,
       InvoicedOverStep
<1> QED
  BY <1>1, <1>2, FareInvariant, PTL DEF Spec, MoneyInv

-------------------------------------------------------------------------------
\* What a step of the payment service may assume, and of the ride service.
LEMMA EitherService ==
  ASSUME MoneyInv, MoneyInv', [Next]_vars
  PROVE  /\ PayInv /\ PayTypeOK' /\ TripsTyped /\ BookInv /\ SignInv
         /\ \/ RideLeaves /\ UNCHANGED payVars
            \/ \E r \in PayReqs : Step(r)
<1>1. PayInv /\ TripsTyped /\ BookInv /\ SignInv /\ PayTypeOK'
  BY RideInvTypesTrips DEF MoneyInv, FareInv, Inv, PayInv
<1> QED
  BY <1>1, StepOfOne DEF MoneyInv

\* However requests of both services interleave or die, no payment is debited
\* twice from the wallet it is made from; a passenger with a payment of a
\* negative fare is not spoken of.
THEOREM SettlementDebitedAtMostOnce ==
  ASSUME Opening \in Nat
  PROVE  Spec => []DebitedAtMostOnce
<1>1. Init => DebitInv
  BY DebitInitial DEF Init
<1>2. MoneyInv /\ MoneyInv' /\ DebitInv /\ [Next]_vars => DebitInv'
  <2> SUFFICES ASSUME MoneyInv, MoneyInv', DebitInv, [Next]_vars
               PROVE  DebitInv'
    OBVIOUS
  <2>1. CASE RideLeaves /\ UNCHANGED payVars
    <3>1. \A w : NegativeFor(w) => NegativeFor(w)'
      BY <2>1, EitherService, RideKeepsSigns
    <3> QED
      BY <2>1, <3>1 DEF payVars, DebitInv, Debiting, PendingDebits, DebitedRows,
         WalletPaymentsOf, TotalAmount, Amount, Balance
  <2>2. ASSUME NEW r \in PayReqs, Step(r)
        PROVE  DebitInv'
    BY <2>2, EitherService, DebitCreated, DebitDone, DebitElsewhere
  <2> QED
    BY <2>1, <2>2, EitherService
<1>3. MoneyInv /\ DebitInv => DebitedAtMostOnce
  BY DebitBound DEF MoneyInv, FareInv, Inv
<1> QED
  BY <1>1, <1>2, <1>3, MoneyInvariant, PTL DEF Spec

\* What payment handlers have tested is still so, if they do not overlap: the
\* ride service marks no trip paid.
LEMMA SettlementSerial ==
  ASSUME OneAtATime
  PROVE  Spec => []SerialInv
<1>1. Init => SerialInv
  <2> SUFFICES ASSUME Init
               PROVE  \A t \in TripIds : trips[t].status # "paid"
    BY SerialInvInit DEF Init
  <2> QED
    BY DEF Init, RideInit, TripTableInit, NoTrip
<1>2. MoneyInv /\ MoneyInv' /\ SerialInv /\ [Next]_vars => SerialInv'
  <2> SUFFICES ASSUME MoneyInv, MoneyInv', SerialInv, [Next]_vars
               PROVE  SerialInv'
    OBVIOUS
  <2>1. CASE RideLeaves /\ UNCHANGED payVars
    <3>1. UNCHANGED <<payments, wallets, invoices, payReqs>>
      BY <2>1 DEF payVars
    <3>2. ASSUME NEW r \in PayReqs
          PROVE  SerialOK(payReqs[r])'
      <4>1. SerialOK(payReqs[r]) /\ PayOK(payReqs[r])
        BY EitherService DEF SerialInv, PayInv
      <4> QED
        BY <2>1, <3>1, <4>1 DEF SerialOK, PayOK, RideLeaves, IsPaymentOf
    <3> QED
      BY <2>1, <3>1, <3>2
         DEF SerialInv, NoRowMissing, PaidTripHasPayment,
             PaymentExists, RideLeaves
  <2>2. ASSUME NEW r \in PayReqs, Step(r)
        PROVE  SerialInv'
    BY <2>2, EitherService, PayNextSerial DEF PayNext, Step
  <2> QED
    BY <2>1, <2>2, EitherService
<1> QED
  BY <1>1, <1>2, MoneyInvariant, PTL DEF Spec

\* While payment requests do not overlap, a wallet is overdrawn only by the
\* payment of a negative fare, whatever the ride service does meanwhile.
THEOREM SettlementOverdraft ==
  ASSUME OneAtATime
  PROVE  Spec => []OverdraftNeedsNegativeFare
<1>1. Init => OverdraftNeedsNegativeFare
  BY OverdraftInitial DEF Init
<1>2. MoneyInv /\ MoneyInv' /\ SerialInv /\ OverdraftNeedsNegativeFare
        /\ [Next]_vars => OverdraftNeedsNegativeFare'
  <2> SUFFICES ASSUME MoneyInv, MoneyInv', SerialInv,
                      OverdraftNeedsNegativeFare, [Next]_vars
               PROVE  OverdraftNeedsNegativeFare'
    OBVIOUS
  <2>1. CASE RideLeaves /\ UNCHANGED payVars
    <3>1. \A w : NegativeFor(w) => NegativeFor(w)'
      BY <2>1, EitherService, RideKeepsSigns
    <3> QED
      BY <2>1, <3>1 DEF payVars, OverdraftNeedsNegativeFare
  <2>2. ASSUME NEW r \in PayReqs, Step(r)
        PROVE  OverdraftNeedsNegativeFare'
    BY <2>2, EitherService, OverdraftStep
  <2> QED
    BY <2>1, <2>2, EitherService
<1> QED
  BY <1>1, <1>2, MoneyInvariant, SettlementSerial, PTL DEF Spec

\* While payment requests do not overlap, a trip that is paid has the payment
\* that paid it, although its status is written by two services.
THEOREM SettlementPaidHasPayment ==
  ASSUME OneAtATime
  PROVE  Spec => []PaidTripHasPayment
<1>1. SerialInv => PaidTripHasPayment
  BY DEF SerialInv
<1> QED
  BY <1>1, SettlementSerial, PTL

\* What a handler finds at an entry is still so.
LEMMA SettlementEntry ==
  ASSUME OneAtATime, ~PayCrashes
  PROVE  Spec => []EntryInv
<1>1. Init => EntryInv
  BY EntryInitial DEF Init
<1>2. MoneyInv /\ MoneyInv' /\ SerialInv /\ EntryInv /\ [Next]_vars => EntryInv'
  <2> SUFFICES ASSUME MoneyInv, MoneyInv', SerialInv, EntryInv, [Next]_vars
               PROVE  EntryInv'
    OBVIOUS
  <2>1. CASE UNCHANGED payVars
    BY <2>1 DEF payVars, EntryInv, EntryOK, Running
  <2>2. ASSUME NEW r \in PayReqs, Step(r)
        PROVE  EntryInv'
    BY <2>2, EitherService, EntryStep
  <2> QED
    BY <2>1, <2>2, EitherService
<1> QED
  BY <1>1, <1>2, MoneyInvariant, SettlementSerial, PTL DEF Spec

\* A ride step leaves alone whose the invoiced and the settled trips are.
LEMMA RideKeepsAccounts ==
  ASSUME PayInv, InvoicedOver, RideLeaves, UNCHANGED payVars
  PROVE  /\ \A d \in Drivers :
              /\ SettledFor(d)' = SettledFor(d)
              /\ Invoiced(DriverTrips(d)) => Invoiced(DriverTrips(d))'
         /\ \A u \in Passengers :
              Invoiced(PassengerTrips(u)) => Invoiced(PassengerTrips(u))'
<1>1. UNCHANGED <<payments, invoices>>
  BY DEF payVars
<1>2. \A t \in invoices : /\ trips'[t].driver = trips[t].driver
                          /\ trips'[t].passenger = trips[t].passenger
  BY DEF InvoicedOver, RideLeaves, PayInv, PayTypeOK
<1>3. \A p \in PaymentIds :
        payments[p].status \in {"completed", "refunded"}
          => trips'[payments[p].trip].driver = trips[payments[p].trip].driver
  BY DEF PayInv, RowOK, PaymentExists, RideLeaves
<1>4. \A d \in Drivers : SettledFor(d)' = SettledFor(d)
  BY <1>1, <1>3 DEF SettledFor
<1> QED
  BY <1>1, <1>2, <1>4 DEF Invoiced, DriverTrips, PassengerTrips

\* While payment requests do not overlap and payment handlers do not die, a
\* driver's earnings are what the payments of her trips say, although the ride
\* service may reopen a paid trip and finish it again.
THEOREM SettlementEarningsMatchPayments ==
  ASSUME OneAtATime, ~PayCrashes
  PROVE  Spec => []EarningsMatchPayments
<1>1. Init => EarningsInv
  BY EarningsInitial DEF Init
<1>2. MoneyInv /\ MoneyInv' /\ SerialInv /\ EntryInv /\ EarningsInv
        /\ [Next]_vars => EarningsInv'
  <2> SUFFICES ASSUME MoneyInv, MoneyInv', SerialInv, EntryInv, EarningsInv,
                      [Next]_vars
               PROVE  EarningsInv'
    OBVIOUS
  <2>1. CASE RideLeaves /\ UNCHANGED payVars
    <3>1. SUFFICES ASSUME NEW d \in Drivers
                   PROVE  EarnsOK(d)'
      BY DEF EarningsInv
    <3>2. SettledFor(d)' = SettledFor(d)
            /\ (Invoiced(DriverTrips(d)) => Invoiced(DriverTrips(d))')
            /\ (NegativeFor(EarningsWallet(d))
                  => NegativeFor(EarningsWallet(d))')
      BY <2>1, EitherService, RideKeepsAccounts, RideKeepsSigns DEF MoneyInv
    <3> QED
      BY <2>1, <3>2 DEF payVars, EarningsInv, EarnsOK, Running, Coming,
         NetAmount, Balance
  <2>2. ASSUME NEW r \in PayReqs, Step(r)
        PROVE  EarningsInv'
    BY <2>2, EitherService, EarningsStep
  <2> QED
    BY <2>1, <2>2, EitherService
<1>3. MoneyInv /\ EarningsInv => EarningsMatchPayments
  BY EarningsAtRest DEF MoneyInv, FareInv, Inv
<1> QED
  BY <1>1, <1>2, <1>3, MoneyInvariant, SettlementSerial, SettlementEntry, PTL
     DEF Spec

\* While payment requests do not overlap and payment handlers do not die, what
\* a passenger has spent is what her completed wallet payments say, whatever
\* the ride service does to her trips.
THEOREM SettlementSpendingMatchesPayments ==
  ASSUME OneAtATime, ~PayCrashes, TopUps = {}, Opening \in Nat
  PROVE  Spec => []SpendingMatchesPayments
<1>1. Init => SpendingInv
  BY SpendingInitial DEF Init
<1>2. MoneyInv /\ MoneyInv' /\ SerialInv /\ EntryInv /\ SpendingInv
        /\ [Next]_vars => SpendingInv'
  <2> SUFFICES ASSUME MoneyInv, MoneyInv', SerialInv, EntryInv, SpendingInv,
                      [Next]_vars
               PROVE  SpendingInv'
    OBVIOUS
  <2>1. CASE RideLeaves /\ UNCHANGED payVars
    <3>1. SUFFICES ASSUME NEW u \in Passengers
                   PROVE  SpendsOK(u)'
      BY DEF SpendingInv
    <3>2. /\ Invoiced(PassengerTrips(u)) => Invoiced(PassengerTrips(u))'
          /\ NegativeFor(PassengerWallet(u)) => NegativeFor(PassengerWallet(u))'
      BY <2>1, EitherService, RideKeepsAccounts, RideKeepsSigns DEF MoneyInv
    <3> QED
      BY <2>1, <3>2 DEF payVars, SpendingInv, SpendsOK, Running, Held,
         WalletCompleted, WalletPaymentsOf, Amount, Balance
  <2>2. ASSUME NEW r \in PayReqs, Step(r)
        PROVE  SpendingInv'
    BY <2>2, EitherService, SpendingStep
  <2> QED
    BY <2>1, <2>2, EitherService
<1>3. MoneyInv /\ SpendingInv => SpendingMatchesPayments
  BY SpendingAtRest DEF MoneyInv, FareInv, Inv
<1> QED
  BY <1>1, <1>2, <1>3, MoneyInvariant, SettlementSerial, SettlementEntry, PTL
     DEF Spec

================================================================================
