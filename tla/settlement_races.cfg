\* Two drivers, one trip, two ride requests and a payment request, no crashes.
SPECIFICATION Spec
CONSTANTS
  Passengers = {alice}
  Drivers = {bob, carol}
  MaxTrips = 1
  Fares = {20}
  Offers <- MCOffers
  Null = Null
  Connected = {}
  RideReqs = {r1, r2}
  Moderated = {}
  Crashes = FALSE
  PayReqs = {q1}
  MaxPayments = 1
  Methods = {"click"}
  MockProviders = {}
  Opening = Null
  TopUps = {}
  MaxBalance = 0
  PayCrashes = FALSE
SYMMETRY Symmetry
INVARIANTS
  OnlyFinishedTripsCharged
  ChargedTheFare
PROPERTIES
  CancelledIsFinal
  FinishedStaysFinished
  DriverNeverReassigned
