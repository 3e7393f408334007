----------------------------- MODULE TripLifecycle -----------------------------
(***************************************************************************)
(* What the trips table promises, seen from outside: every trip follows    *)
(* the documented life cycle one transition at a time, and its driver is   *)
(* chosen exactly once, by the step that leaves "searching" for            *)
(* "driver_assigned".  RideService is shown to implement this module.      *)
(***************************************************************************)
EXTENDS TripStateMachine

CONSTANTS Trips,      \* trip identifiers
          Drivers,    \* driver identifiers
          Null        \* SQL NULL

VARIABLES status,     \* status[t]: life-cycle status, "none" before the request
          driver      \* driver[t]: the driver of t, or Null

vars == <<status, driver>>

Init == /\ status = [t \in Trips |-> "none"]
        /\ driver = [t \in Trips |-> Null]

\* A passenger asks for a trip.
Request(t) ==
  /\ status[t] = "none"
  /\ status' = [status EXCEPT ![t] = "requested"]
  /\ UNCHANGED driver

\* A driver takes a trip nobody has taken.
Assign(t, d) ==
  /\ status[t] = "searching"
  /\ driver[t] = Null
  /\ status' = [status EXCEPT ![t] = "driver_assigned"]
  /\ driver' = [driver EXCEPT ![t] = d]

\* Every other transition of the table leaves the driver alone.
Move(t, to) ==
  /\ CanTransition(status[t], to)
  /\ to # "driver_assigned"
  /\ status' = [status EXCEPT ![t] = to]
  /\ UNCHANGED driver

Next == \E t \in Trips :
          \/ Request(t)
          \/ \E d \in Drivers : Assign(t, d)
          \/ \E to \in TripStatus : Move(t, to)

Spec == Init /\ [][Next]_vars
================================================================================
