--------------------------- MODULE TripStateMachine ---------------------------
(***************************************************************************)
(* The trip statuses and the two transition tables of the backend: the     *)
(* table every status change is meant to follow (libs/database/enums.ts,   *)
(* consulted by the TripStateMachine class) and the one that the driver's  *)
(* "advance" button walks.  The module has no state of its own.            *)
(***************************************************************************)

TripStatus ==
  {"requested", "searching", "driver_assigned", "driver_arriving",
   "picked_up", "in_progress", "completed", "payment_processing",
   "paid", "rated", "cancelled"}

\* VALID_TRIP_TRANSITIONS as a relation: the pairs <<from, to>> it allows.
ValidTripTransitions ==
  { <<"requested", "searching">>,         <<"requested", "cancelled">>,
    <<"searching", "driver_assigned">>,   <<"searching", "cancelled">>,
    <<"driver_assigned", "driver_arriving">>,
    <<"driver_assigned", "cancelled">>,
    <<"driver_arriving", "picked_up">>,   <<"driver_arriving", "cancelled">>,
    <<"picked_up", "in_progress">>,
    <<"in_progress", "completed">>,
    <<"completed", "payment_processing">>,
    <<"payment_processing", "paid">>,
    <<"payment_processing", "cancelled">>,
    <<"paid", "rated">> }

CanTransition(from, to) == <<from, to>> \in ValidTripTransitions

\* DRIVER_TRANSITIONS: what the "advance" endpoint does, again as a relation.
DriverTransitions ==
  { <<"driver_assigned", "driver_arriving">>,
    <<"driver_arriving", "picked_up">>,
    <<"picked_up", "in_progress">>,
    <<"in_progress", "completed">> }

\* getActiveTrip's status NOT IN (...) list.
InactiveStatus == {"completed", "paid", "rated", "cancelled"}
===============================================================================
