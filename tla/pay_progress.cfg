\* Two requests at a time, wallets that do not exist yet, no crashes.
SPECIFICATION FairPaySpec
CONSTANTS
  Passengers = {alice}
  Drivers = {bob}
  MaxTrips = 1
  Fares = {20}
  Offers <- MCOffers
  Null = Null
  Connected = {}
  PayReqs = {r1,r2}
  MaxPayments = 2
  Methods = {"wallet", "click"}
  MockProviders = {}
  Opening = Null
  TopUps = {20}
  MaxBalance = 50
  PayCrashes = FALSE

CHECK_DEADLOCK FALSE
PROPERTY
  CompletedPaymentPaysTrip

