---------------------------- MODULE TripSettlement -----------------------------
(***************************************************************************)
(* The ride service and the payment service over one database.  They run   *)
(* in separate processes and share the trips table: the payment service    *)
(* marks a trip paid with an UPDATE that does not look at its status, and  *)
(* a completing advance sets "completed" with another such UPDATE.         *)
(***************************************************************************)
EXTENDS RideService, PaymentService

vars == <<trips, tripEvents, published, drivers, rideReqs, payVars>>

Init == RideInit /\ PayInit

Next == \/ RideNext /\ UNCHANGED payVars
        \/ PayNext /\ UNCHANGED <<drivers, rideReqs>>

Spec == Init /\ [][Next]_vars

-------------------------------------------------------------------------------
(***************************************************************************)
(* Properties                                                              *)
(***************************************************************************)

\* The statuses from which neither service has a way back.
Finished == {"completed", "paid"}

\* A cancelled trip stays cancelled.  Neither of the two unconditional UPDATEs
\* can hit one: a handler about to run either has seen the trip finished.
CancelledIsFinal ==
  [][\A t \in TripIds :
       trips[t].status = "cancelled" => trips'[t].status = "cancelled"]_vars

\* A finished trip stays finished: no late cancel, advance or patch, however
\* stale the status its handler read, takes it back into the life cycle.
FinishedStaysFinished ==
  [][\A t \in TripIds :
       trips[t].status \in Finished => trips'[t].status \in Finished]_vars

\* A trip has one driver: once set, driver_id never changes, not even when
\* the accepts of several drivers race.
DriverNeverReassigned ==
  [][\A t \in TripIds :
       trips[t].driver # Null => trips'[t].driver = trips[t].driver]_vars

\* Only finished trips are charged, and a payment handler never finds its
\* trip anywhere else when it writes "paid".
OnlyFinishedTripsCharged ==
  /\ \A p \in PaymentIds :
       PaymentExists(p) => trips[payments[p].trip].status \in Finished
  /\ \A r \in PayReqs :
       payReqs[r].trip # Null => trips[payReqs[r].trip].status \in Finished

\* The passenger is charged the trip's fare, although a payment may read the
\* row between the completing advance's two UPDATEs, before the final price.
ChargedTheFare ==
  \A p \in PaymentIds : PaymentExists(p) =>
    LET t == payments[p].trip IN
    /\ payments[p].amount \in {trips[t].final, trips[t].fixed}
    /\ trips[t].final # Null => payments[p].amount = trips[t].final

\* A paid trip is never payable again.
PaidIsNotReopened ==
  [][\A t \in TripIds :
       trips[t].status = "paid" => trips'[t].status # "completed"]_vars
================================================================================
