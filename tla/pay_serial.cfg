\* One request at a time over two trips: every way to pay, every outcome of a
\* provider, webhooks that come late or again, refunds.
SPECIFICATION PaySpec
CONSTANTS
  Passengers = {alice}
  Drivers = {bob, carol}
  MaxTrips = 2
  Fares = {20, 30}
  Offers <- MCOffers
  Null = Null
  Connected = {}
  PayReqs = {r1}
  MaxPayments = 3
  Methods = {"card", "wallet", "click", "payme", "uzum"}
  MockProviders = {"uzum"}
  Opening = 20
  TopUps = {}
  MaxBalance = 60
  PayCrashes = FALSE
SYMMETRY PaySymmetry
CHECK_DEADLOCK FALSE
INVARIANTS
  PayTypeOK
  ChargedOnce
  OverdraftNeedsNegativeFare
  PaidTripHasPayment
  EarningsMatchPayments
  SpendingMatchesPayments
