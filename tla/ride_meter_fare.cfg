\* A meter trip advanced to completion.
SPECIFICATION RideSpec
CONSTANTS
  Passengers = {alice}
  Drivers = {bob}
  MaxTrips = 1
  Fares = {20}
  Offers <- MCOffers
  Null = Null
  Connected = {}
  RideReqs = {r1, r2}
  Moderated = {}
  Crashes = FALSE

INVARIANT
  CompletedHasFare
