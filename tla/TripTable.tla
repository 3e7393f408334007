------------------------------- MODULE TripTable -------------------------------
(***************************************************************************)
(* The trips and trip_events tables and the SQL statements that write      *)
(* them.  Each operator below is one statement, or one db.transaction, of  *)
(* a repository, so it is atomic; the services interleave between them.    *)
(* A statement whose WHERE clause matches no row is not an action here:    *)
(* the service modules say what the handler does with the empty result.    *)
(***************************************************************************)
EXTENDS TripStateMachine, Integers, Sequences

CONSTANTS Passengers, Drivers,
          MaxTrips,      \* bound: how many rows the table may hold
          Fares,         \* the totals the fare calculator can return
          Offers,        \* the offeredPriceUzs clients send: any number, also < 0
          Null           \* SQL NULL

ASSUME TripTableAssumption ==
  /\ MaxTrips \in Nat
  /\ Fares \subseteq Nat \ {0}
  /\ Offers \subseteq Int
  /\ Null \notin Int \cup Drivers \cup Passengers

VARIABLES trips,         \* trips[t]: row t; ids follow created_at
          tripEvents     \* tripEvents[t]: the trip_events rows of t, in order

TripIds == 1 .. MaxTrips

\* What a trip can cost: a calculated total, an offered price, which nothing
\* keeps from being negative (a BIGINT without a CHECK), or the default 0.
Charge == Fares \cup Offers \cup {0}

Price == Charge \cup {Null}

\* The columns the services read or write; "none" marks a row not inserted.
TripRow == [status    : TripStatus \cup {"none"},
            passenger : Passengers \cup {Null},
            driver    : Drivers \cup {Null},
            fixed     : Price,
            offered   : Price,
            final     : Price]

TripEvent == [from : TripStatus, to : TripStatus]

NoTrip == [status |-> "none", passenger |-> Null, driver |-> Null,
           fixed |-> Null, offered |-> Null, final |-> Null]

TripTableInit == /\ trips = [t \in TripIds |-> NoTrip]
                 /\ tripEvents = [t \in TripIds |-> <<>>]

Exists(t) == trips[t].status # "none"

\* JavaScript's a ?? b.
Coalesce(a, b) == IF a = Null THEN b ELSE a

-------------------------------------------------------------------------------
\* SELECT ... WHERE driver_id = d AND status NOT IN (...)
ActiveTrips(d) == {t \in TripIds : /\ Exists(t)
                                   /\ trips[t].driver = d
                                   /\ trips[t].status \notin InactiveStatus}

\* ... ORDER BY created_at DESC LIMIT 1: t is the row getActiveTrip returns.
IsActiveTrip(d, t) == /\ t \in ActiveTrips(d)
                      /\ \A u \in ActiveTrips(d) : u <= t

\* TripRepository.create
InsertTrip(t, passenger, fixed, offered) ==
  /\ ~Exists(t)
  /\ \A u \in TripIds : u < t => Exists(u)
  /\ trips' = [trips EXCEPT ![t] = [NoTrip EXCEPT !.status = "requested",
                                                  !.passenger = passenger,
                                                  !.fixed = fixed,
                                                  !.offered = offered]]
  /\ UNCHANGED tripEvents

InsertTripEvent(t, from, to) ==
  tripEvents' = [tripEvents EXCEPT ![t] = Append(@, [from |-> from, to |-> to])]

\* (faulty variant) the UPDATE without AND status = $3
HasStatusUnchecked(t, from) == Exists(t)

\* TripRepository.updateStatus: compare-and-set and audit row, one transaction.
HasStatus(t, from) == trips[t].status = from

\* (faulty variant) no trip_events row
UpdateStatusUnaudited(t, from, to) ==
  /\ HasStatus(t, from)
  /\ trips' = [trips EXCEPT ![t].status = to]
  /\ UNCHANGED tripEvents

UpdateStatus(t, from, to) ==
  /\ HasStatus(t, from)
  /\ trips' = [trips EXCEPT ![t].status = to]
  /\ InsertTripEvent(t, from, to)

\* (faulty variants) the accept without its status test, and one that lets a
\* second driver in
CanAcceptAnyStatus(t) == trips[t].driver = Null
CanAcceptTaken(t) == trips[t].status \in {"searching", "driver_assigned"}

\* DriverRepository.acceptTrip: the first accept wins, one transaction.
CanAccept(t) == /\ trips[t].status = "searching"
                /\ trips[t].driver = Null

\* (faulty variant) no trip_events row
AcceptTripUnaudited(t, d) ==
  /\ CanAccept(t)
  /\ trips' = [trips EXCEPT ![t] = [@ EXCEPT !.status = "driver_assigned",
                                               !.driver = d]]
  /\ UNCHANGED tripEvents

AcceptTrip(t, d) ==
  /\ CanAccept(t)
  /\ trips' = [trips EXCEPT ![t] = [@ EXCEPT !.status = "driver_assigned",
                                               !.driver = d]]
  /\ InsertTripEvent(t, "searching", "driver_assigned")

\* (faulty variant) the UPDATE without AND status = $4
OwnedAnyStatus(t, d, from) == trips[t].driver = d

\* DriverRepository.updateTripStatus, its UPDATE; the INSERT of the audit row
\* is a second statement outside any transaction.
OwnedWithStatus(t, d, from) == /\ trips[t].driver = d
                               /\ trips[t].status = from

UpdateTripStatus(t, d, from, to) ==
  /\ OwnedWithStatus(t, d, from)
  /\ trips' = [trips EXCEPT ![t].status = to]
  /\ UNCHANGED tripEvents

\* The second UPDATE of a completing advance: no status in its WHERE clause.
SetFinalPrice(t, price) ==
  /\ trips' = [trips EXCEPT ![t] = [@ EXCEPT !.status = "completed",
                                               !.final = price]]
  /\ UNCHANGED tripEvents
================================================================================
