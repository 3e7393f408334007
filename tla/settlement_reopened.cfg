\* A payment between the two UPDATEs of a completing advance.
SPECIFICATION Spec
CONSTANTS
  Passengers = {alice}
  Drivers = {bob}
  MaxTrips = 1
  Fares = {20}
  Offers <- MCOffers
  Null = Null
  Connected = {}
  RideReqs = {r1, r2}
  Moderated = {}
  Crashes = FALSE
  PayReqs = {q1}
  MaxPayments = 1
  Methods = {"click"}
  MockProviders = {}
  Opening = Null
  TopUps = {}
  MaxBalance = 0
  PayCrashes = FALSE
PROPERTY
  PaidIsNotReopened
