---------------------------- MODULE PaymentService ----------------------------
(***************************************************************************)
(* The payment service: PaymentService, RefundService and WalletService    *)
(* over PaymentRepository.  As in RideService a request is a slot running  *)
(* a handler, one SQL statement (or provider call) per step; unlike the    *)
(* ride service's, almost none of these statements repeats in its WHERE    *)
(* clause what the handler tested before it.                               *)
(***************************************************************************)
EXTENDS TripTable, EventBus, FiniteSets

CONSTANTS PayReqs,       \* bound: requests the service may be running at once
          MaxPayments,   \* bound: how many rows the payments table may hold
          Methods,       \* the payment methods clients use
          MockProviders, \* the providers running in mock mode
          Opening,       \* what passengers' wallets start with, or Null
          TopUps,        \* the amounts clients top up (the API's minimum is 1000)
          MaxBalance,    \* bound: money moves again only within +/- this balance
          PayCrashes     \* may a handler die between two statements?

ASSUME PaymentServiceAssumption ==
  /\ MaxPayments \in Nat
  /\ Methods \subseteq {"cash", "card", "wallet", "click", "payme", "uzum"}
  /\ MockProviders \subseteq Methods
  /\ Opening \in Nat \cup {Null}
  /\ TopUps \subseteq Nat \ {0}
  /\ MaxBalance \in Nat
  /\ PayCrashes \in BOOLEAN

VARIABLES payments,      \* payments[p]: row p; ids follow created_at
          wallets,       \* wallets[w]: balance_uzs, or Null when w has no row
          invoices,      \* trips a Click invoice is open for (at the provider)
          payReqs        \* payReqs[r]: the handler running in slot r

payVars == <<payments, wallets, invoices, payReqs>>

PaymentIds == 1 .. MaxPayments

PaymentStatus == {"processing", "completed", "failed", "refunded"}

PaymentRow == [status : PaymentStatus \cup {"none"},
               trip   : TripIds \cup {Null},
               user   : Passengers \cup {Null},
               amount : Charge,
               method : Methods \cup {Null}]

NoPayment == [status |-> "none", trip |-> Null, user |-> Null,
              amount |-> 0, method |-> Null]

\* UNIQUE(user_id, type): a wallet is a user and one of the two types.
PassengerWallet(u) == <<u, "passenger">>
EarningsWallet(d)  == <<d, "driver_earnings">>

WalletIds == {PassengerWallet(u) : u \in Passengers} \cup
             {EarningsWallet(d) : d \in Drivers}

PayPc == {"idle", "process.insert", "process.provider", "process.fail",
          "debit.check", "debit.update",
          "finalize.payment", "finalize.trip", "finalize.driver",
          "finalize.publish", "refund.update", "refund.wallet",
          "balance.insert", "credit.insert", "credit.update"}

\* What a handler can hold: a charge, a top-up, or a part of one (a driver's
\* share).  It is negative where the offered price it comes from was.
Within(a, c) == (0 <= a /\ a <= c) \/ (c <= a /\ a <= 0)
Holding == {a \in Int : \E c \in Charge \cup TopUps : Within(a, c)}

\* The local variables of a handler.  The credit.* steps are creditWallet,
\* called to add amount to wallet; next is where the caller then goes on.
PayRequest == [pc      : PayPc,
               trip    : TripIds \cup {Null},
               payment : PaymentIds \cup {Null},
               user    : Passengers \cup {Null},
               driver  : Drivers \cup {Null},
               amount  : Holding,
               method  : Methods \cup {Null},
               wallet  : WalletIds \cup {Null},
               next    : {"idle", "finalize.publish"}]

IdlePay == [pc |-> "idle", trip |-> Null, payment |-> Null, user |-> Null,
            driver |-> Null, amount |-> 0, method |-> Null, wallet |-> Null,
            next |-> "idle"]

-------------------------------------------------------------------------------
\* PaymentRepository

PaymentExists(p) == payments[p].status # "none"

InsertPayment(p, t, u, amount, method) ==
  /\ ~PaymentExists(p)
  /\ \A o \in PaymentIds : o < p => PaymentExists(o)
  /\ payments' = [payments EXCEPT ![p] =
                    [status |-> "processing", trip |-> t, user |-> u,
                     amount |-> amount, method |-> method]]

SetPaymentStatus(p, s) == payments' = [payments EXCEPT ![p].status = s]

CompletePayment(p) == SetPaymentStatus(p, "completed")
FailPayment(p)     == SetPaymentStatus(p, "failed")
RefundPayment(p)   == SetPaymentStatus(p, "refunded")

\* ORDER BY created_at DESC LIMIT 1
IsPaymentOf(p, t) ==
  /\ payments[p].trip = t
  /\ \A o \in PaymentIds : payments[o].trip = t => o <= p

\* (faulty variant) only from the status the life cycle asks for
UpdateTripPaidFromProcessing(t) ==
  trips' = IF trips[t].status = "payment_processing"
             THEN [trips EXCEPT ![t].status = "paid"] ELSE trips

UpdateTripPaid(t) == trips' = [trips EXCEPT ![t].status = "paid"]

\* (faulty variant) the amount overwrites the balance
SetWallet(w, delta) == wallets' = [wallets EXCEPT ![w] = delta]

AddToWallet(w, delta) == wallets' = [wallets EXCEPT ![w] = @ + delta]

\* (faulty variant) the percentage not divided by 100
CommissionWhole(amount) == amount * 15

\* Math.round(amount * (COMMISSION_PERCENT / 100)) with COMMISSION_PERCENT = 15
Commission(amount) == (amount * 15 + 50) \div 100

Net(amount) == amount - Commission(amount)

\* Refunds, repeated webhooks and top-ups can move money for ever; a new one
\* is started only while no balance has passed the bound, upwards or, with a
\* negative fare, downwards.
WithinBound == \A w \in WalletIds :
  wallets[w] # Null => wallets[w] \in -MaxBalance .. MaxBalance

-------------------------------------------------------------------------------
\* Slots

PayAt(r, pc) == payReqs[r].pc = pc

PayBegin(r, req) == /\ PayAt(r, "idle")
                    /\ payReqs' = [payReqs EXCEPT ![r] = req]

PayGoto(r, pc) == payReqs' = [payReqs EXCEPT ![r].pc = pc]

PayEnd(r) == payReqs' = [payReqs EXCEPT ![r] = IdlePay]

-------------------------------------------------------------------------------
\* POST /payments/process

\* (faulty variant) the offered price before the fixed one
FareDueOffered(t) ==
  Coalesce(trips[t].final, Coalesce(trips[t].offered,
                                    Coalesce(trips[t].fixed, 0)))

\* final ?? fixed; 0 and NULL are both "No fare amount", a negative one is not.
FareDue(t) == Coalesce(trips[t].final, Coalesce(trips[t].fixed, 0))

\* (faulty variants) a trip may be paid again, or before it is over
PayableAgain(t) ==
  trips[t].status \in {"completed", "payment_processing", "paid"}
PayableEarly(t) ==
  trips[t].status \in {"in_progress", "completed", "payment_processing"}

Payable(t) == trips[t].status \in {"completed", "payment_processing"}

\* The bound on the table, kept before a handler is committed to an INSERT.
RowsLeft ==
  Cardinality({p \in PaymentIds : PaymentExists(p)})
    + Cardinality({r \in PayReqs : PayAt(r, "process.insert")}) < MaxPayments

ProcessPayment(r, u, t, method) ==
  /\ RowsLeft
  /\ trips[t].passenger = u
  /\ Payable(t)
  /\ FareDue(t) # 0
  /\ PayBegin(r, [IdlePay EXCEPT !.pc = "process.insert", !.trip = t,
                    !.user = u, !.driver = trips[t].driver,
                    !.amount = FareDue(t), !.method = method])
  /\ UNCHANGED <<trips, tripEvents, published, payments, wallets, invoices>>

\* (faulty variant) cash and cards settle the trip but not the payment
AfterInsertUnsettled(method) ==
  CASE method \in {"cash", "card"} -> "finalize.trip"
    [] method = "wallet"           -> "debit.check"
    [] OTHER                       -> "process.provider"

\* Where each method goes after its row is inserted.
AfterInsert(method) ==
  CASE method \in {"cash", "card"} -> "finalize.payment"
    [] method = "wallet"           -> "debit.check"
    [] OTHER                       -> "process.provider"

CreatePayment(r) ==
  LET q == payReqs[r] IN
  /\ PayAt(r, "process.insert")
  /\ \E p \in PaymentIds :
       /\ InsertPayment(p, q.trip, q.user, q.amount, q.method)
       /\ payReqs' = [payReqs EXCEPT ![r] =
                        [@ EXCEPT !.pc = AfterInsert(q.method), !.payment = p]]
  /\ UNCHANGED <<trips, tripEvents, published, wallets, invoices>>

\* The provider refused, or its answer was lost: after a lost answer a Click
\* invoice may be open although the handler takes the payment for failed.
ProviderFails(r) ==
  /\ PayAt(r, "process.provider")
  /\ payReqs[r].method \notin MockProviders
  /\ \/ UNCHANGED invoices
     \/ /\ payReqs[r].method = "click"
        /\ invoices' = invoices \cup {payReqs[r].trip}
  /\ PayGoto(r, "process.fail")
  /\ UNCHANGED <<trips, tripEvents, published, payments, wallets>>

\* A provider in mock mode, or a Click reply without a payment URL, for which
\* the handler does not wait although an invoice may be open.
ProviderSettles(r) ==
  /\ PayAt(r, "process.provider")
  /\ payReqs[r].method \in MockProviders \cup {"click"}
  /\ \/ UNCHANGED invoices
     \/ /\ payReqs[r].method \notin MockProviders
        /\ invoices' = invoices \cup {payReqs[r].trip}
  /\ PayGoto(r, "finalize.payment")
  /\ UNCHANGED <<trips, tripEvents, published, payments, wallets>>

\* Click and Payme open an invoice; the handler returns and the payment stays
\* "processing".  Only Click ever calls back: Payme's webhook settles nothing.
ProviderInvoices(r) ==
  /\ PayAt(r, "process.provider")
  /\ payReqs[r].method \in {"click", "payme"} \ MockProviders
  /\ invoices' = IF payReqs[r].method = "click"
                   THEN invoices \cup {payReqs[r].trip} ELSE invoices
  /\ PayEnd(r)
  /\ UNCHANGED <<trips, tripEvents, published, payments, wallets>>

FailProcess(r) ==
  /\ PayAt(r, "process.fail")
  /\ FailPayment(payReqs[r].payment)
  /\ PayEnd(r)
  /\ UNCHANGED <<trips, tripEvents, published, wallets, invoices>>

\* (faulty variant) the balance is not compared
AnyBalance(w, amount) == wallets[w] # Null

\* debitWallet: the SELECT and its test, which a negative amount passes ...
EnoughBalance(w, amount) == wallets[w] # Null /\ wallets[w] >= amount

CheckBalance(r) ==
  LET q == payReqs[r] IN
  /\ PayAt(r, "debit.check")
  /\ PayGoto(r, IF EnoughBalance(PassengerWallet(q.user), q.amount)
                  THEN "debit.update" ELSE "process.fail")
  /\ UNCHANGED <<trips, tripEvents, published, payments, wallets, invoices>>

\* (faulty variant) the debit is retried
DebitWalletRetried(r) ==
  LET q == payReqs[r] IN
  /\ PayAt(r, "debit.update")
  /\ AddToWallet(PassengerWallet(q.user), -q.amount)
  /\ PayGoto(r, "debit.check")
  /\ UNCHANGED <<trips, tripEvents, published, payments, invoices>>

\* ... and the UPDATE, which does not repeat it.
DebitWallet(r) ==
  LET q == payReqs[r] IN
  /\ PayAt(r, "debit.update")
  /\ AddToWallet(PassengerWallet(q.user), -q.amount)
  /\ PayGoto(r, "finalize.payment")
  /\ UNCHANGED <<trips, tripEvents, published, payments, invoices>>

-------------------------------------------------------------------------------
\* finalizePayment, shared by the process handler and the webhook

\* (faulty variant) the driver is credited before the trip is marked
FinalizePaymentDriverFirst(r) ==
  /\ PayAt(r, "finalize.payment")
  /\ CompletePayment(payReqs[r].payment)
  /\ PayGoto(r, "finalize.driver")
  /\ UNCHANGED <<trips, tripEvents, published, wallets, invoices>>

FinalizePayment(r) ==
  /\ PayAt(r, "finalize.payment")
  /\ CompletePayment(payReqs[r].payment)
  /\ PayGoto(r, "finalize.trip")
  /\ UNCHANGED <<trips, tripEvents, published, wallets, invoices>>

\* The trip is marked paid; no trip_events row, no trip.status_changed.
FinalizeTrip(r) ==
  /\ PayAt(r, "finalize.trip")
  /\ UpdateTripPaid(payReqs[r].trip)
  /\ PayGoto(r, "finalize.driver")
  /\ UNCHANGED <<tripEvents, published, payments, wallets, invoices>>

PublishPaid(r) ==
  /\ PayAt(r, "finalize.publish")
  /\ Publish("payment", Event("payment.completed", payReqs[r].trip, Null, Null))
  /\ PayEnd(r)
  /\ UNCHANGED <<trips, tripEvents, payments, wallets, invoices>>

\* POST /payments/webhooks/click: the provider reports that an invoice was
\* paid, at least once.  Already completed payments are left alone.
ConfirmExternalPayment(r, t) ==
  /\ WithinBound
  /\ t \in invoices
  /\ \E p \in PaymentIds :
       /\ IsPaymentOf(p, t)
       /\ payments[p].status # "completed"
       /\ PayBegin(r, [IdlePay EXCEPT !.pc = "finalize.payment", !.trip = t,
                         !.payment = p, !.user = payments[p].user,
                         !.driver = trips[t].driver,
                         !.amount = payments[p].amount,
                         !.method = payments[p].method])
  /\ UNCHANGED <<trips, tripEvents, published, payments, wallets, invoices>>

-------------------------------------------------------------------------------
\* POST /payments/refund

RequestRefund(r, u, t) ==
  /\ WithinBound
  /\ \E p \in PaymentIds :
       /\ IsPaymentOf(p, t)
       /\ payments[p].user = u
       /\ payments[p].status = "completed"
       /\ PayBegin(r, [IdlePay EXCEPT !.pc = "refund.update", !.trip = t,
                         !.payment = p, !.user = u,
                         !.amount = payments[p].amount,
                         !.method = payments[p].method])
  /\ UNCHANGED <<trips, tripEvents, published, payments, wallets, invoices>>

\* (faulty variant) the wallet is not credited back
CommitRefundUncredited(r) ==
  /\ PayAt(r, "refund.update")
  /\ RefundPayment(payReqs[r].payment)
  /\ PayEnd(r)
  /\ UNCHANGED <<trips, tripEvents, published, wallets, invoices>>

CommitRefund(r) ==
  LET q == payReqs[r] IN
  /\ PayAt(r, "refund.update")
  /\ RefundPayment(q.payment)
  /\ IF q.method = "wallet" THEN PayGoto(r, "refund.wallet") ELSE PayEnd(r)
  /\ UNCHANGED <<trips, tripEvents, published, wallets, invoices>>

-------------------------------------------------------------------------------
\* creditWallet: ensureWallet's SELECT, its INSERT, and the increment

\* The SELECT: go on to the increment, or first to the INSERT.
CreditPc(w) == IF wallets[w] = Null THEN "credit.insert" ELSE "credit.update"

\* The UNIQUE constraint rejects the second of two concurrent INSERTs; the
\* exception ends the handler, whatever it still had to do.
InsertWallet(r) ==
  LET q == payReqs[r] IN
  /\ q.pc \in {"credit.insert", "balance.insert"}
  /\ \/ /\ wallets[q.wallet] = Null
        /\ wallets' = [wallets EXCEPT ![q.wallet] = 0]
        /\ IF q.pc = "credit.insert" THEN PayGoto(r, "credit.update")
                                      ELSE PayEnd(r)
     \/ wallets[q.wallet] # Null /\ PayEnd(r) /\ UNCHANGED wallets
  /\ UNCHANGED <<trips, tripEvents, published, payments, invoices>>

CreditWallet(r) ==
  LET q == payReqs[r] IN
  /\ PayAt(r, "credit.update")
  /\ AddToWallet(q.wallet, q.amount)
  /\ IF q.next = "idle" THEN PayEnd(r) ELSE PayGoto(r, q.next)
  /\ UNCHANGED <<trips, tripEvents, published, payments, invoices>>

\* finalizePayment's credit of the driver, if the trip has one.
CreditDriverEarnings(r) ==
  LET q == payReqs[r]
      w == EarningsWallet(q.driver) IN
  /\ PayAt(r, "finalize.driver")
  /\ payReqs' = [payReqs EXCEPT ![r] =
       IF q.driver = Null
         THEN [q EXCEPT !.pc = "finalize.publish"]
         ELSE [q EXCEPT !.pc = CreditPc(w), !.wallet = w,
                        !.amount = Net(@), !.next = "finalize.publish"]]
  /\ UNCHANGED <<trips, tripEvents, published, payments, wallets, invoices>>

\* requestRefund's credit of the passenger.
CreditRefund(r) ==
  LET w == PassengerWallet(payReqs[r].user) IN
  /\ PayAt(r, "refund.wallet")
  /\ payReqs' = [payReqs EXCEPT ![r] =
                    [@ EXCEPT !.pc = CreditPc(w), !.wallet = w]]
  /\ UNCHANGED <<trips, tripEvents, published, payments, wallets, invoices>>

\* POST /payments/wallet/topup
TopUp(r, u, amount) ==
  LET w == PassengerWallet(u) IN
  /\ WithinBound
  /\ PayBegin(r, [IdlePay EXCEPT !.pc = CreditPc(w), !.user = u,
                                 !.wallet = w, !.amount = amount])
  /\ UNCHANGED <<trips, tripEvents, published, payments, wallets, invoices>>

\* GET /payments/wallet creates the passenger's wallet when it is missing.
GetBalance(r, u) ==
  LET w == PassengerWallet(u) IN
  /\ wallets[w] = Null
  /\ PayBegin(r, [IdlePay EXCEPT !.pc = "balance.insert", !.user = u,
                                 !.wallet = w])
  /\ UNCHANGED <<trips, tripEvents, published, payments, wallets, invoices>>

-------------------------------------------------------------------------------
\* The process dies, or a query throws, at the handler's next await.
CrashPay(r) ==
  /\ PayCrashes
  /\ ~PayAt(r, "idle")
  /\ PayEnd(r)
  /\ UNCHANGED <<trips, tripEvents, published, payments, wallets, invoices>>

\* One more await of the handler in slot r.
PayStep(r) == \/ CreatePayment(r)   \/ ProviderFails(r) \/ ProviderSettles(r)
              \/ ProviderInvoices(r) \/ FailProcess(r)
              \/ CheckBalance(r)    \/ DebitWallet(r)
              \/ FinalizePayment(r) \/ FinalizeTrip(r)
              \/ CreditDriverEarnings(r) \/ PublishPaid(r)
              \/ CommitRefund(r)    \/ CreditRefund(r)
              \/ InsertWallet(r)    \/ CreditWallet(r)

\* A request of a client or of the provider arrives.
PayArrival(r) ==
  \/ \E u \in Passengers, t \in TripIds, method \in Methods :
       ProcessPayment(r, u, t, method)
  \/ \E t \in TripIds : ConfirmExternalPayment(r, t)
  \/ \E u \in Passengers, t \in TripIds : RequestRefund(r, u, t)
  \/ \E u \in Passengers, amount \in TopUps : TopUp(r, u, amount)
  \/ \E u \in Passengers : GetBalance(r, u)

PayNext == \E r \in PayReqs : PayArrival(r) \/ PayStep(r) \/ CrashPay(r)

PayInit == /\ payments = [p \in PaymentIds |-> NoPayment]
           /\ wallets = [w \in WalletIds |->
                           IF w[2] = "passenger" THEN Opening ELSE Null]
           /\ invoices = {}
           /\ payReqs = [r \in PayReqs |-> IdlePay]

\* A row the completing advance has left: a fixed ride at its locked total, or
\* a meter or offer ride at the price its passenger sent, if any.
CompletedTrips ==
  LET Row(p, d, fixed, offered, final) ==
        [status |-> "completed", passenger |-> p, driver |-> d,
         fixed |-> fixed, offered |-> offered, final |-> final]
  IN  {Row(p, d, f, Null, f) : p \in Passengers, d \in Drivers, f \in Fares} \cup
      {Row(p, d, Null, o, Coalesce(o, 0)) :
         p \in Passengers, d \in Drivers, o \in Offers \cup {Null}}

\* The service by itself: the ride service has driven every trip to
\* "completed" and set its final price, and does not touch it again.
PaymentInit ==
  /\ trips \in [TripIds -> CompletedTrips]
  /\ tripEvents = [t \in TripIds |-> <<>>]
  /\ published = {}
  /\ PayInit

paymentVars == <<trips, tripEvents, published, payVars>>

PaySpec == PaymentInit /\ [][PayNext]_paymentVars

\* Every answered query resumes its handler.
FairPaySpec == PaySpec /\ \A r \in PayReqs : WF_paymentVars(PayStep(r))

-------------------------------------------------------------------------------
(***************************************************************************)
(* Properties                                                              *)
(***************************************************************************)

\* The columns and the handlers' local variables keep their types: a payment
\* is for a price a trip can have, and what a handler is about to credit is
\* such a price, a top-up or a share of one, never more and of the same sign.
PayTypeOK ==
  /\ payments \in [PaymentIds -> PaymentRow]
  /\ wallets \in [WalletIds -> Int \cup {Null}]
  /\ invoices \subseteq TripIds
  /\ payReqs \in [PayReqs -> PayRequest]

\* A trip is charged once: it never has two completed payments.  The guard
\* 'Trip not ready for payment' and the webhook's test for a completed
\* payment are there to ensure it.
ChargedOnce ==
  \A t \in TripIds :
    Cardinality({p \in PaymentIds : /\ payments[p].trip = t
                                    /\ payments[p].status = "completed"}) <= 1

\* A payment of a negative amount moves money through w: it is a wallet payment
\* of w's passenger (a debit that adds, a refund that takes), or it settles a
\* trip of w's driver (a share that is taken).
NegativeFor(w) ==
  \E p \in PaymentIds :
    /\ payments[p].amount < 0
    /\ \/ /\ payments[p].method = "wallet"
          /\ w = PassengerWallet(payments[p].user)
       \/ w = EarningsWallet(trips[payments[p].trip].driver)

\* A wallet is overdrawn only by a payment of a negative fare: every other
\* debit that does not fit is refused with 'Insufficient wallet balance', and
\* every other credit adds money.
OverdraftNeedsNegativeFare ==
  \A w \in WalletIds :
    wallets[w] # Null /\ wallets[w] < 0 => NegativeFor(w)

\* A paid trip has the payment that paid it: completed, or refunded since.
PaidTripHasPayment ==
  \A t \in TripIds : trips[t].status = "paid" =>
    \E p \in PaymentIds : /\ payments[p].trip = t
                          /\ payments[p].status \in {"completed", "refunded"}

\* Money that was taken for a trip settles the trip: finalizePayment goes on
\* from the payments row to the trips row, whatever else is running.
CompletedPaymentPaysTrip ==
  \A p \in PaymentIds, t \in TripIds :
    payments[p].trip = t /\ payments[p].status = "completed"
      ~> trips[t].status = "paid"
===============================================================================
