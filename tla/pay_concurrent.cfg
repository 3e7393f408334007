\* Two requests at a time that may crash, one trip.
SPECIFICATION PaySpec
CONSTANTS
  Passengers = {alice}
  Drivers = {bob}
  MaxTrips = 1
  Fares = {20}
  Offers <- MCOffers
  Null = Null
  Connected = {}
  PayReqs = {r1,r2}
  MaxPayments = 3
  Methods = {"wallet", "click"}
  MockProviders = {}
  Opening = 40
  TopUps = {}
  MaxBalance = 50
  PayCrashes = TRUE
SYMMETRY PaySymmetry
CHECK_DEADLOCK FALSE
INVARIANTS
  DebitedAtMostOnce
  EarnedOnlyWhenPaid

