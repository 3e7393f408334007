\* Two drivers and the passenger race over one trip; handlers may crash.
SPECIFICATION RideSpec
CONSTANTS
  Passengers = {alice}
  Drivers = {bob, carol}
  MaxTrips = 1
  Fares = {20}
  Offers <- MCOffers
  Null = Null
  Connected = {}
  RideReqs = {r1, r2}
  Moderated = {}
  Crashes = TRUE
SYMMETRY RideSymmetry
INVARIANTS
  RideTypeOK
  TransitionAuditedOnce
PROPERTY
  ImplementsLifecycle
