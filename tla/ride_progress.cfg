\* No crashes, fair handlers, a connected bus, and a driver whose approval changes.
SPECIFICATION FairRideSpec
CONSTANTS
  Passengers = {alice}
  Drivers = {bob}
  MaxTrips = 1
  Fares = {20}
  Offers <- MCOffers
  Null = Null
  Connected = {"ride"}
  RideReqs = {r1, r2}
  Moderated = {bob}
  Crashes = FALSE

INVARIANTS
  PublishedIsAudited
  AuditTrailComplete
PROPERTY
  RequestedIsSearched
