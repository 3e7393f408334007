\* What clients and users are told, with every service but the exchange failing.
SPECIFICATION RtSpec
CONSTANTS
  Connected = {"ride", "payment", "location", "identity", "gateway", "notification"}
  Users = {"passenger", "driver"}
  DeviceTokens = {phone}
  Drivers = {d1}
  Places = {here, there}
  Km <- MCKm
  Intervals = {0, 60, 3600}
  LocReqs = {r1, r2}
  Nowhere = Nowhere
  Trips = {t1}
  PassengerOf <- MCPassengerOf
  UserOf <- MCUserOf
  Sockets = {c1}
  FirstStatus = "picked_up"
  RadiusKm = 5
  Budgets <- MCBudgets
CHECK_DEADLOCK FALSE
INVARIANTS
  RealtimeTypeOK
  NotifiedOnce
  OffersReachFoundDrivers
  ScreenNeverGoesBack
  MapShowsStored
PROPERTY
  StatusIsNotified
