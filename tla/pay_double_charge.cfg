\* Two process requests for one trip.
SPECIFICATION PaySpec
CONSTANTS
  Passengers = {alice}
  Drivers = {bob}
  MaxTrips = 1
  Fares = {20}
  Offers = {}
  Null = Null
  Connected = {}
  PayReqs = {r1, r2}
  MaxPayments = 2
  Methods = {"cash"}
  MockProviders = {}
  Opening = Null
  TopUps = {}
  MaxBalance = 50
  PayCrashes = FALSE

CHECK_DEADLOCK FALSE
INVARIANT
  ChargedOnce
