# Verification of the Taxi UZ backend

TLA+ models of the backend's services - trips and their money, accounts and
identities, positions and what clients are told - the TLC runs that check them
on small instances, and TLAPS proofs of what holds on instances of any size.
Paths below are relative to `src/backend/apps/` unless they start with `docs/`
or `libs/`; every definition's source lines are in `PROJECT.json`, under `map`.

    tlc -workers 2 -config ride_races.cfg MCRideService.tla
    tlapm SettlementProofs.tla

## 1. The system

Seven NestJS processes share one PostgreSQL database and a RabbitMQ topic
exchange. Each request is an async handler; it gives up control at every
`await`, so handlers of one process, of several replicas and of several
services interleave between SQL statements. Only two repository methods open a
transaction (`DatabaseService.transaction`); all other atomicity is that of a
single statement.

| Component | State | Operations | Interacts through | Correct when |
|---|---|---|---|---|
| Trip state machine (`ride-service/domain`, `libs/database/src/enums.ts`) | none | `canTransition`, `DRIVER_TRANSITIONS` | called by the ride service | only listed transitions happen |
| Ride service (`RideService`, `DriverService`, two repositories) | `trips`, `trip_events`, `drivers.is_online` | create, cancel, respond to an offer, advance, patch a status, go online | clients; the bus; shares `trips` with payments | one driver per trip, one life cycle however requests race, an audit trail without gaps, every new trip is searched for |
| Payment service (`PaymentService`, `RefundService`, `WalletService`, repository) | `payments`, `wallets`, `trips.status` | process, Click webhook, refund, top-up, balance | clients; providers; the bus; shares `trips` | a trip is charged once and its fare, no overdraft but by a negative fare, wallets are the sums of the payments |
| Payment providers (Click, Payme, Uzum) | invoices, at the provider | open an invoice, settle, fail, call back | HTTP both ways | callbacks late, repeated or for an older attempt do no harm |
| Fare calculator | none | estimate, offer range | called by `createRide` | an `offer` ride's offer is within 50 % to 300 % of the total |
| Driver matching | reads `drivers` | nearby drivers | called by `createRide` | addresses the offer |
| Event bus (`libs/events`) | a channel or none; a queue per subscription | publish, subscribe | all services | announces only what happened, delivers at most once |
| Notification service | `notifications`, `device_tokens` | three event handlers; register a device, mark as read | bus, push | a message per event, and one |
| API gateway | socket rooms | proxy, realtime bridge | bus, clients, all services | clients see statuses in order, and positions as stored; every request gets to its service through the guard meant for it |
| Auth service | OTPs and counters (Redis or memory), `refresh_tokens`, `users` | send and verify a code, refresh, log out | clients, bus | one account per phone; a code and a token are used once; a blocked phone is unblocked |
| Identity service | `identities`, `identity_documents`, `users.identity_id` | upload, status, verify | OCR and face providers, bus | one passport, one face, one account, for ever |
| Location service | `drivers.current_location`, in-memory GPS history, `audit_logs` | report a position | clients, bus | what is refused reaches nobody; what is stored reaches everybody |
| Guards, common library | claims of an access token | role and KYC checks | gateway and every service | who passes is verified |
| Mobile apps, admin panel | client state | requests in any order | HTTP | outside the model |

What is hard to test here: a handler writes on the strength of what it read one
or several awaits earlier; some statements repeat the test in their `WHERE`
clause (`AND status = $n`) and some do not (`updateTripPaid`, the second UPDATE
of a completing advance, `debitWallet`, `refundPayment`); sequences of
statements are not transactions; providers answer late, twice or not at all;
Redis may fail between two calls; events go through queues that vanish with
their process; two services announce statuses of the same trip.
`PROJECT.json` lists each such place under `hazards`, with the properties that
watch it, or why none does.

## 2. The modules

| Module | Models | Remarks |
|---|---|---|
| `TripStateMachine` | the two transition tables | relations over statuses |
| `TripLifecycle` | *abstract*: what the `trips` table promises | one transition at a time, one driver, chosen on leaving `searching` |
| `TripTable` | `trips`, `trip_events` and each SQL statement or transaction that writes them | the `WHERE` clause of a statement is its guard |
| `EventBus` | `publish` and its degraded mode | `Connected`: the services that got a channel at start-up |
| `RideService` | the ride service's handlers | extends `TripTable`, `EventBus` |
| `PaymentService` | the payment service's handlers and the providers | extends `TripTable`, `EventBus` |
| `Ledger` | bookkeeping properties: wallets against payments | extends `PaymentService` |
| `TripSettlement` | both services over one database | extends `RideService`, `PaymentService` |
| `UserTable` | `users` and the statements of the auth and identity services on it | |
| `Identity` | the identity service's handlers and repository | extends `UserTable`, `EventBus` |
| `RedisService` | keys with a time to live, in Redis or, after a failure, in the process | every operation may fail and be repeated on the process's own store |
| `Gateway` | the proxy's routes, the controllers behind them, `JwtAuthGuard` | which endpoints a token gets to: `Admits` |
| `Auth` | the auth service's handlers | extends `UserTable`, `RedisService`, `EventBus`, `Gateway` |
| `EventDelivery` | `subscribe`: a queue per subscription, bound to a pattern, gone with its process | extends `EventBus` |
| `Notification` | the notification service | extends `EventDelivery` |
| `Location` | the location service and the fake-GPS detector | extends `EventDelivery` |
| `Realtime` | the gateway's sockets and realtime bridge, the payment listener, driver matching, and the announcements of the ride and payment services | extends `Location`, `Notification`, `TripStateMachine` |
| `MC...` | symmetry sets, tables and budgets for TLC | |
| `RideServiceProofs` | proofs about `RideService` | types, invariant, refinement of `TripLifecycle` |
| `RideAuditProofs` | proofs about the audit trail of `RideService` | nothing twice, nothing unrecorded, no gap |
| `PaymentServiceProofs` | proofs about `PaymentService` | types, what each handler relies on |
| `LedgerProofs` | proofs about the money of `PaymentService` and the sums of `Ledger` | debited once, charged once, what can overdraw a wallet, exact accounts |
| `SettlementProofs` | proofs about `TripSettlement` | the two invariants kept by both services' steps, the fare charged, the accounts with rides beside them |
| `IdentityProofs` | proofs about `Identity` | types, uniqueness, and what an account may rely on |
| `AuthProofs` | proofs about `Auth` | types, one account per phone, codes and tokens used once, true claims |
| `RealtimeProofs` | proofs about `Realtime` | nobody told twice, nor out of order, nor what the table does not have |

**From code to model.** A request is a slot (`rideReqs[r]`, `payReqs[r]`) that
holds a handler's local variables; its `pc` names the next `await`. One action
is the code from one await to the next: the action that *starts* a handler does
its first reads and their tests, each later action performs one statement (or
one transaction, or one provider call). A request refused before it wrote
anything leaves no trace, so its refusal is the guard of its first action. A
statement that matches no row is the second disjunct of its action (`Refuse`).
`CrashRide` and `CrashPay` end a handler between two statements: the process
died, or a query threw. Row identifiers follow `created_at`, so `ORDER BY
created_at DESC LIMIT 1` is a maximum. That is an idealisation: `NOW()` is the
time at which the statement's transaction began, and two rows inserted at the
same moment by different handlers may become visible in the other order.

**Abstractions.** Users, drivers and payment methods are model values; prices
are small integers, but commission and offer limits are computed with the
code's roundings; SQL `NULL` is the constant `Null` and `a ?? b` is `Coalesce`,
so that `0` is a price for `??` and missing for `!amount`, as in JavaScript.
An offered price is any integer. It is tested (50 % to 300 % of the total) only
for rides of type `offer`; `@IsNumber()` has no minimum beside it and the column no
`CHECK`, so a fixed or meter ride may carry a negative one. `Charge` is therefore
what a trip can cost, a calculated total, any offer or the default 0, and `Holding`
what a payment handler can hold: a charge, a top-up or a share of one, of the same
sign. A fraction is refused by the `BIGINT` column. Geography, categories, texts,
currency formatting and logging are absent; SQL statements are modelled by what
they mean, not by how PostgreSQL infers the types of their parameters.

In the other modules: hashes stand for what they hash, and an OTP is the number
of the attempt that sent it, so two attempts never send the same code (the
constant code of the mock SMS provider is not modelled). Whether a key's time to
live is over is a choice, made only for keys that have one. A refresh token is
its row; an access token is the claims it was issued with, and its fifteen
minutes are not modelled, so it is judged as if it lived for ever. `parent`,
`known`, `accepted`, `cut`, `failed`, `lost`, `dropped` and `disturbed` are no
state of the program: they record what a property must know of the past. The
detector remembers ten reports and looks at one, the model keeps that one; a
report with only a medium alert is stored like any other. In `Realtime` the ride
and payment services are reduced to what they announce: a status is committed by
one step and announced by a later one, each once. `RealtimeEventBridge`'s
handlers have no await before they emit, so taking a message and emitting are one
action; the notification handlers have, so saving and pushing are two, and any
number of them run at once, since no prefetch limit is set.

**Left unmodelled in the modelled parts.** Getters and lists (they write
nothing, except `GET /payments/wallet`, which is `GetBalance`); `assignDriver`
and `completeTrip` of the trip repository, which nothing calls; the signature
checks of webhooks; the Payme webhook, which answers and settles nothing;
throttling; phone formats and device ids; `activateUser`, `clearHistory`,
`sendSms` and `emitDriverLocation`, which have no caller; the notification
listener's branch for a searching trip's driver, which comes after the return for
statuses without a text and cannot be reached; the vehicle category and the limit
of 20 in the search for drivers.

## 3. The runs

| Run | Question | Bounds | Result |
|---|---|---|---|
| `ride_races` | does the ride service implement `TripLifecycle`, whatever races? is any transition recorded twice? | 2 drivers, 1 trip, 2 requests in flight, all ride types, crashes | holds |
| `ride_progress` | is every created trip searched for? is the audit trail complete, and every event backed by it? | 1 driver whose approval changes, 1 trip, 2 requests, connected bus, no crashes, fair | holds |
| `pay_serial` | are the books right when requests come one at a time? | 2 trips, 2 drivers, 2 fares and a negative offer, 3 payments, card, wallet, Click, Payme and mocked Uzum | holds |
| `pay_concurrent` | what survives concurrency and crashes? | 1 trip, 2 requests, 3 payments, wallet and Click, crashes | holds |
| `pay_progress` | does money that was taken settle the trip? | 1 trip, 2 requests, 2 payments, missing wallets, top-ups, fair | holds |
| `settlement_races` | who may charge what, and can a late write undo an outcome? | both services, 2 drivers, 2 ride requests, 1 payment request | holds |
| `kyc_races` | can two submissions share a passport, an identity, a face? can an account lose or change its identity? | 2 users, 2 passports, 2 faces, 2 submissions, 2 fronts and 2 selfies per user, crashes | holds |
| `auth_sessions` | who shares an account, a code, a refresh token? who gets past the guards? | 2 users, 1 phone, 2 requests, 2 codes, 3 tokens less one for a restart, Redis failing, crashes | holds |
| `realtime` | what do clients and users see, in which order, and do they see it in the end? | 1 trip, 1 driver, 2 places, 1 client, 2 reports at once, and one of six budgets (below) | holds |
| `ride_meter_fare` | has a completed ride a fare? | 1 driver, 1 trip | **violated** |
| `pay_double_charge` | is a trip charged once under concurrency? | 1 trip, 2 requests, cash | **violated** |
| `settlement_reopened` | does a paid trip stay out of `completed`? | both services, 1 driver | **violated** |

**Why the bounds are enough.** Races in this code are between two handlers that
read the same row, and no property relates more than two of them; two slots
give every such pair every interleaving, and the other requests run before or
after. One trip suffices where the properties speak of a single row, since no
statement of these handlers touches two trips; a second one matters only for the
wallets that trips share, which is why `pay_serial` has two. Three payment rows
allow a failed attempt, an open invoice and a successful one. Of the two fares one
fits the opening balance of 20 and the other does not, so a debit fails; the offer
of -20 is a fare a meter ride can have, whose payments move money the other way.
The offers of `MCRideService` (0 and -20) and `MCSettlement` (-12) are those that
nothing tests unless the ride is of type `offer`; `pay_double_charge` needs none.
`MaxBalance` stops repeated webhooks and top-ups from moving money for ever,
upwards or downwards. Requests are interchangeable, and so are drivers whose
approval does not change, hence the symmetry sets.
The life cycle and type results do not depend on bounds at all: they are proved.

`kyc_races` has what a collision needs: two submissions that may present the same
or different passports and faces, of one account or of two, and a second upload
of each type to tell the first from the newest document. `auth_sessions` refuses
the second attempt to send a code (`MaxAttempts = 1`; the code allows five), so
that the limit is reached; two codes tell an old one from a new one. Handlers end
or are cut off, so with at most three tokens a login, its refresh and a competing
refresh fit, and a restart takes the room of one of them. In `realtime` a
behaviour has one of six budgets, because its parts meet only in the gateway:
three reports with a crash and clients that come and go; three changes of a
trip's status watched by a client; two with a crash; a requested trip with a
driver going online and a client changing accounts; registered devices with
an identity verified and a failing query; and a user verified twice, whose events
differ only in their timestamp, with a failure between them. `Detected` compares 20 km in 60 s and
in an hour, a jump and a drive.

**Fairness.** `FairRideSpec` and `FairPaySpec` assume weak fairness of each
slot's next await (`RideStep`, `PayStep`): the event loop resumes a handler
whose query was answered. Arrivals of requests, provider callbacks, crashes and
the back office are never assumed to happen. Their two liveness properties are
checked without crashes, because nothing in the code resumes a handler that
died. `RtSpec` assumes weak fairness of the notification service's own steps
(`Notify`): RabbitMQ hands out what is queued, and the event loop goes on with
handlers whose query was answered. Failures and restarts may happen there, and
`StatusIsNotified` excepts the events they cost.

**Deadlock** is checked wherever a driver can go online or offline for ever. The
payment service alone may stop: when every trip is paid or a bound is reached
there is nothing left to do, so those runs switch the check off, and so does
`realtime`, whose behaviours end when their budget is spent and every queue is
empty. In `kyc_races` and `auth_sessions` requests never run out.

### What the runs show

* The ride service's compare-and-set statements work: accepts, cancels, advances
  and patches that raced always add up to a behaviour of `TripLifecycle`. The
  one statement without a status test, the second UPDATE of a completing
  advance, is harmless *inside* the ride service: when it runs, the trip is
  already completed.
* Every `trip.status_changed` event is backed by an audit row; without crashes,
  the audit rows lead to the current status.
* One request at a time, the payment service keeps exact books. An invoice that
  Click confirms again after a refund credits the driver again, which is why
  `EarningsMatchPayments` is an inequality for trips with an open invoice.
* One request at a time, a wallet is overdrawn only by the payment of a negative
  fare (`OverdraftNeedsNegativeFare`): a debit that does not fit is refused, and
  every other credit adds money. With a negative fare nothing protects the driver:
  her share is taken from her earnings, below zero if need be.
* Under concurrency and crashes a payment row is still debited at most once and
  a driver is credited only after her trip was marked paid.
* Only finished trips are ever charged, and the amount is the final price if
  there is one.

* KYC: one passport has one identity, and one identity one account, which keeps
  it. The UNIQUE constraint on `passport_number_hash` carries the first; the rest
  follows from who may hold an identity between its INSERT and its link, and from
  `documents.find`, which takes the *first* front image ever uploaded. A face has
  no constraint: two overlapping submissions with one face both succeed, and
  `SharedFaceOnlyByRace` says that only overlapping ones can. A refusal as a
  duplicate means another account, or the link of the user's own identity that a
  crash lost.
* Auth: all tokens of a phone belong to its one account. A code, and a refresh
  token, are used twice only by requests that overlap (or, for a code, after a
  failure of Redis). A counter without an expiry means that a handler was cut off
  between INCR and EXPIRE. Only tokens of accounts linked to an identity get to
  endpoints marked `RequireKyc`, and without a token one gets to exactly the
  public ones, past both guards and whichever route comes first.
* Realtime: nobody is notified twice of an event, since a failed message is
  dropped; every announced status is notified unless a failure or restart lost
  it; a client never sees `completed` after `payment_processing`, because the
  message that triggers the second was in the gateway's queue before it; offers
  reach only drivers the search found; when nothing is under way, a client's map
  agrees with the table.

### What is violated

1. `ride_meter_fare` - no fare is ever calculated for a meter trip
   (`calculateMeterFare` has no caller, and it has no fixed price), so
   `final ?? fixed ?? offered ?? 0` completes it at 0, which `processPayment`
   refuses, or at whatever number its request carried as `offeredPriceUzs`, negative
   or not, which is tested for `offer` rides only (`fare-calculator.service.ts:57`).
2. `pay_double_charge` - `processPayment` tests the trip's status once, and no
   later statement repeats the test: two concurrent requests both complete a
   payment and both credit the driver.
3. `settlement_reopened` - a payment between the two UPDATEs of a completing
   advance is overwritten, and the paid trip is `completed`, thus payable, again.

Observed while modelling, without a run of their own: paying a negative fare is
accepted (`!amount` refuses only 0 and a missing one), a wallet payment of it adds
money to the passenger's wallet, and the driver's share is taken from her earnings,
with requests that come one at a time; with two wallet payments
in flight the balance becomes negative (the balance is compared in one
statement and decremented in another); a crash between `updateTripStatus`'s two
statements leaves a gap in `trip_events`, although `docs/DATABASE.md:104` calls
it the audit trail; a trip goes from `completed` to `paid` directly and without
a `trip_events` row, whereas `docs/ARCHITECTURE.md:125` and `enums.ts:78` put
`payment_processing` between them; a trip completed with `PATCH
/drivers/trips/:id/status` gets no `final_price_uzs`; `payment.completed` has
no subscriber in the ride service; two refund requests that both read a completed
payment credit the wallet twice.

Also observed: a logout that comes between the DELETE and the INSERT of a refresh
leaves the session alive; the DEL of an accepted code may delete a newer code;
after a fallback to memory, codes and counters in Redis are out of sight, and a
deleted code may be accepted again after a restart; rows of expired refresh tokens
are never removed; the `RATE_LIMIT` constants are unused. `linkUserToIdentity`
makes an account active whatever its status was, so a suspended account without an
identity is reactivated by KYC. `users.identity_id` is not UNIQUE in `init.sql`,
whereas `docs/DATABASE.md` says it is (`OneAccountPerIdentity` shows that nothing
else is needed). `docs/ARCHITECTURE.md:118` blocks a duplicate face, which holds only for
submissions that do not overlap. The
patterns of the proxy want a segment after the slash: `POST /v1/rides` and `GET
/v1/notifications` match no route, though both endpoints exist and the passenger
app posts to `/rides`. Clients are never told `paid`, since nothing announces it as
a status; statuses announced by overlapping handlers may be shown in the other
order. Two overlapping reports of a driver may leave clients with another position
than the table, and a position that was refused is what the next report is
compared with. An offer reaches a driver who went offline after the search.

## 4. The proofs

`RideServiceProofs` is about `RideSpec` for every number of trips, drivers,
passengers and requests in flight, with or without crashes, from the modules'
assumptions alone: fares are positive numbers, offers are any integers, `Null` is
no integer and no user, `Moderated` is a set of drivers.

* `RideTypeCorrect`: `RideSpec => []RideTypeOK`.
* `RideInvariant`: `RideSpec => []RideInv`.
* `RideRefinesLifecycle`: `RideSpec => ImplementsLifecycle`.

`RideTypeOK` is not inductive enough for the refinement: nothing in it says that
a handler about to price a trip finds it over. `RideInv` adds what each handler
has established at each await and still holds when it acts (`RequestOK`): an
advance between its statements has a legal transition in hand; at
`advance.price` the trip is over, and the ride service never takes a trip out of
`Over`. It also adds that nobody drives a trip no one accepted
(`NoDriverYet`) and that two statuses are never written (`NeverReached`).

Each action is shown to make one of four moves on at most one row (`RowMoves`)
and to leave one handler `RequestOK`; `MovesKeepRows` and `OthersKeepRequest`
then give `RideInv'` for all other rows and handlers, once for all actions. These
lemmas do not assume that the ride service is alone, only that trips that are
over stay over. For the refinement a second invariant, `Unpaid`, says that
without the payment service no trip is paid; each move is then a step of
`TripLifecycle`, or a stutter.

`RideAuditProofs` extends it with the three audit properties, about `RideSpec` too.

* `AuditedOnce`: `RideSpec => []TransitionAuditedOnce`.
* `PublishedAudited`: `RideSpec => []PublishedIsAudited`.
* `AuditComplete`: `RideSpec => []AuditTrailComplete`, assuming `~Crashes`; the
  code writes the row of an advance outside the transaction of its UPDATE, so a
  crash between the two does leave a gap.

A row may be missing while a handler owes it (`Pending`), and rows are not written
in the order of the transitions, so the properties are not inductive. The argument
is a rank: every transition leads to a status of higher `Rank`, so no row, written
or owed, is about a status the trip has yet to reach (`EventsBehind`,
`PendingBehind`), and the status a transition reaches is in no row and owed by
nobody (`ReachedIsNew`); no two handlers owe the same row (`PendingDistinct`).
Each action is one of four moves (`AuditMove`): quiet, a transition with its row,
a transition that leaves the row owed, and a row that was owed. The second UPDATE
of a completing advance is quiet because the trip is completed already. For
completeness, `TrailInv` says that the rows written or owed lead to the status and
to every status one of them starts from.

`PaymentServiceProofs` is about `PaySpec`, again for any number of trips, users,
payments and requests, from the assumptions of `PaymentService` and the modules
it extends.

* `PayTypeCorrect`: `PaySpec => []PayTypeOK`.
* `PayInvariant`: `PaySpec => [](PayInv /\ TripsTyped)`.

`PayInv` is `PayTypeOK`, a `PayOK` for every handler (at each await: the rows it
holds exist, and its trip is `completed` or `paid`) and a `RowOK` for every
`payments` row (its trip is one of those two). The types alone are not
inductive: an UPDATE of a row is typed only because the handler that issues it
is known to have inserted or found that row. Each action is shown to write at
most one handler's variables, to keep rows and wallets that exist, and to do to
the `trips` table at most what `MarksPaid` says, which is summed up as
`PayMove`; `PayOKKept` then carries the knowledge of all other handlers over the
step. Of the `trips` table the proofs assume only `TripsTyped`, and that trips
that can be settled stay so.

`LedgerProofs` is about the service's money, for any number of trips, users,
payments and methods. Its first part proves what `pay_serial` checks besides the
sums, for any number of successive requests, from the assumption `OneAtATime`: two
slots are the same slot. It is a real assumption: `pay_double_charge` refutes
`ChargedOnce` with two slots, and section 3 says what else two requests break.

* `SerialOverdraft`: `PaySpec => []OverdraftNeedsNegativeFare`.
* `SerialPaidHasPayment`: `PaySpec => []PaidTripHasPayment`.
* `SerialChargedOnce`: `PaySpec => []ChargedOnce`, assuming also `~PayCrashes`: a
  handler that dies after it completed the payment leaves a trip that can be paid
  again.

`SerialInv` adds to `PaidTripHasPayment` what a handler tested and acts on
(`SerialOK`): the row it is about to fail or complete is still the trip's last and
still in process, and the balance still covers the debit; and `NoRowMissing`, that a
new row is the last of its trip, and so is the one a webhook finds.
`OverdraftNeedsNegativeFare` also needs `SignInv`, which does not depend on
`OneAtATime`: a handler about to move a negative amount into a wallet has a row that
shows it (`NegativeFor`). Rows keep their amount, user and method, and their trips
their driver, so what a negative fare excuses it excuses for ever. `ChargedOnce` needs
`TakenInv` besides. `TakenIsLast`: a payment that was completed or refunded is the
last one of its trip. `TakenIsPaid`: its trip is paid, or about to be marked, so no
further payment is inserted. `TakenInv` is kept apart because it is what a crash
breaks, and a ride service that reopens a paid trip.

The second part is about the sums over the payments table. `FiniteSetsExt`
defines a sum by a recursive function over a set, which a proof cannot unfold
for a set of unknown size. `SubsetInduction`, a consequence of the
well-foundedness of the strict subsets of a finite set, replaces induction over
its size: with it `FoldExists` shows that the recursive function exists, `TotalStep`
unfolds one element, and `OneRow` says by how much two sums differ when one row
was inserted or changed. The rest of the proofs uses `OneRow` alone.

`BookInv` is what holds of the books under any interleaving and any crash: a
handler's trip, payment, user, driver, amount and method are those of the rows it
read, and a payment is its trip's passenger's.

* `LedgerEarnedOnlyWhenPaid`: `PaySpec => []EarnedOnlyWhenPaid`. `EarnInv` adds
  that a handler about to credit a driver has marked a trip of hers, and no step
  of the payment service unmarks one.
* `LedgerDebitedAtMostOnce`: `PaySpec => []DebitedAtMostOnce`, assuming that
  passengers start with a wallet (`Opening \in Nat`; the sum is compared with it).
  It excepts a passenger with a wallet payment of a negative fare: her refund is a
  debit, and two refunds can race.
  Not inductive: a debit must still fit. `DebitInv` takes the rows whose handlers
  have yet to debit (`PendingDebits`) out of the sum, and says that no two handlers
  hold the same such row; the debit moves its row into the sum.
* `LedgerEarningsMatchPayments` and `LedgerSpendingMatchesPayments`: `PaySpec =>
  []EarningsMatchPayments`, `PaySpec => []SpendingMatchesPayments`, assuming
  `OneAtATime` and `~PayCrashes`, and the second also `TopUps = {}` and
  `Opening \in Nat`, as the runs do. Each assumption is needed: two requests
  refund a payment twice, a handler that dies has moved half of the money, a top-up
  is money no payment accounts for.

The two accounts are stated for a moment when no handler runs. Between, the
running handler holds the difference: `Coming` is what it has still to credit to a
driver, `Held` what it took from a passenger's wallet for a row that is not yet
`completed`, or has still to give back. `EarningsInv` and `SpendingInv` are the
accounts with these terms, at every state. Click may confirm the invoice of a
row that failed or was refunded, and that is a second credit to the driver and no
debit of the passenger; so the invariants are inequalities for trips with an
invoice, equalities for all others; the inequalities hold for wallets no negative
fare moves money through, because a second credit of a negative share takes money;
and `EntryInv` says that only a trip with an
invoice lets a handler complete a row that is not `processing`.

`SettlementProofs` is about `Spec` of `TripSettlement`, where both services run.
The inductive invariant is just `Inv == RideInv /\ PayInv`: a step of the ride
service never takes a trip out of `Over`, so the payment handlers keep what they
know, and a step of the payment service only turns a trip that is over into a
paid one, so the ride handlers do. Every step is thus a `LegalMove` of the
`trips` table, from which follow

* `SettlementInvariant`, `SettlementTypesCorrect`;
* `SettlementChargesFinished`: `Spec => []OnlyFinishedTripsCharged`;
* `SettlementCancelledIsFinal`: `Spec => CancelledIsFinal`;
* `SettlementFinishedStays`: `Spec => FinishedStaysFinished`;
* `SettlementOneDriver`: `Spec => DriverNeverReassigned`.

`SettlementChargesTheFare` is `Spec => []ChargedTheFare`.
`Inv` does not speak of prices, so `FareInv` adds two conjuncts. `PricesInHand`:
a handler on its way to the second UPDATE of a completing advance holds the
price the columns still agree on, so writing it changes no fare. `AmountsDue`:
the amount of every `payments` row, and of every handler about to insert one, is
what a new payment of the trip would still be asked for. `PricesKept` (nothing
but that UPDATE writes a price of a trip that exists, and it writes the agreed
one) makes both inductive: a payment that reads the trip before, between or
after the two UPDATEs reads the same fare.

The last part takes the money of `LedgerProofs` over to both services, with any
number of ride requests beside the payments. The ride service can disturb the
books only through the trips they refer to, and those are over: `RideLeaves` says
that it keeps such a trip over, its driver and its passenger, and marks no trip
paid; `InvoicedOver`, that Click too has invoices only for trips that are over.
With these the invariants of `LedgerProofs` survive a ride step (`RideKeepsBooks`,
`RideKeepsSigns`), and `StepOfOne`
gives every other step to that module's own lemmas.

* `SettlementDebitedAtMostOnce`: `Spec => []DebitedAtMostOnce`, for any number of
  requests of both services, assuming `Opening \in Nat`.
* `SettlementOverdraft`, `SettlementPaidHasPayment`: `Spec =>
  []OverdraftNeedsNegativeFare`, `Spec => []PaidTripHasPayment`, assuming
  `OneAtATime`, which is about payment requests only.
* `SettlementEarningsMatchPayments`, `SettlementSpendingMatchesPayments`: the two
  exact accounts, under the assumptions they have in `LedgerProofs`.

`ChargedOnce` and `EarnedOnlyWhenPaid` are missing because they are false there:
`settlement_reopened` shows how a paid trip becomes payable again. No run has an
instance of these five: `pay_serial` and `pay_concurrent` check the same
invariants of the payment service alone.

`IdentityProofs` is about `KycSpec`, for any number of users, phones, images,
passports, faces and submissions, with or without crashes.

* `KycTypeCorrect`: `KycSpec => []KycTypeOK`.
* `PassportRegisteredOnce`, `AccountsDoNotShareIdentity`, `FacesSharedOnlyByRace`,
  `VerifiedEventsTrue`, `DuplicatesReal`: `KycSpec => []...` of the five
  invariants of the run.
* `IdentitiesNeverReplaced`: `KycSpec => IdentityNeverReplaced`.

The types say nothing of why two accounts cannot share an identity when no
constraint forbids it. The inductive invariant `KycInv` adds that a submission
works on the first images of its user (`PresentsFirstImages`), that no other
submission holds the identity it inserted (`HeldByOne`), and that until the link
no account does (`LinkedByItsHolder`). `IdentityOfFirstFront` says that an
account's identity is of the passport on the account's first front image: a second
submission of the same account presents a passport that is known, and is refused
before it can overwrite anything. `FacesSeenDiffer` carries what the face test
found up to the INSERT, and `IdentitiesAccountedFor` that an identity without an
account is held by a submission or was lost in a crash.

`AuthProofs` is about `AuthSpec`, for any finite set of users, any phones and
requests, with or without crashes, restarts and failures of Redis. All six
invariants of the run are theorems: `AuthTypeCorrect`, `LoginsShareTheAccount`,
`CodesReusedOnlyByRace`, `CountersExpire`, `TokensForkedOnlyByRace` and
`AccessVerified`. None of them but the counter's is inductive. `AuthInv` follows
what a request read through its awaits: the account it found is still the one of
its phone, and what it claims was read from that account's row, whose identity is
set once (`RequestsOwn`, `TokensOwn`, `UsersOK`); the token it exchanges had not been exchanged
when the exchange began, because a token with a successor is not found
(`ExchangesOK`, `ParentsSpent`); and a code is with the request that sends it, at
one phone's key, or with requests that read it there before the DEL (`CodesOK`,
while Redis has not failed). `AccessVerified` also evaluates the gateway's route
table: every public endpoint is reached through a public route of its service
(`PublicIsRouted`), and no endpoint that requires a verified identity is public
(`VerifiedNotPublic`).

`RealtimeProofs` is about `RtSpec`, for any number of trips, users, drivers,
sockets, places and reports, and any budgets, so with any number of failures and
restarts.

* `RealtimeInvariant`: `RtSpec => []RtInv`.
* `RealtimeTypeCorrect`, `RealtimeNotifiedOnce`, `RealtimeOffersReachFound`,
  `RealtimeScreenNeverGoesBack`, `RealtimeMapShowsStored`: `RtSpec => []...` of the
  five invariants of the run.

The promises speak of what a client has; the invariant of what is on its way.
*Nobody is told twice.* A status is published once, because a trip's statuses have
a `Rank` that only grows and a status that was announced is not due again
(`AnnouncedOnce`); two verifications of one user differ in their timestamp. An
event with a message is then in one place, once: in the queue, or with one handler
that has not saved it, or saved (`QueuedOnce`, `HandledOnce`); a failed message is
not requeued. *Nobody is told backwards.* `payment_processing` is published by the
payment listener on getting `completed`, so the event it follows was in the
gateway's queue before it; `ScreenInv` says that it is ahead in the queue, shown, or
lost, and that once the later status is shown the earlier is no longer queued.
*A map is true.* For a driver without overlapping or interrupted reports
(`Settled`), the last announcement in the gateway's queue has the stored place,
and where the queue has none the map has it (`MapOK`). *Offers* need that a socket
is in no room of an account but its own (`GatewayOK`). The module assumes that a
trip is not a user (`RealtimeAssumption`): the code prefixes its rooms with
`trip:` and `driver:`.

Every invariant and action property of a passing run is thus a theorem. Only
model-checked are the three liveness properties (`RequestedIsSearched`,
`CompletedPaymentPaysTrip`, `StatusIsNotified`): fairness and `ENABLED` are out of
the prover's reach, as is induction through the library's theorems that take an
operator, which is why the sums above are proved from a well-founded relation. The
three violated properties are TLC's counterexamples.

## 5. What is left

Not modelled, and why:

* `Fare` - the breakdown of `FareCalculatorService` (night and peak multipliers,
  roundings of floating-point products): pure arithmetic that a unit test reaches;
  of it the models use only the range of an offer and that a total is positive.
* The bodies of OCR, face matching, push and SMS providers: external and, in this
  repository, constants.
* Routes and travel times, lists and histories: they only read.
* Flutter and React clients: their requests arrive in any order, which the arrival
  actions already allow; the admin panel shows mock data and calls nothing.
* Deployment (Docker, nginx): configuration.

Possible extensions: concurrent refunds, and the webhook against a late
`failPayment`, as properties of `PaymentService` with an abstract account; a run
of both services with wallet payments.
