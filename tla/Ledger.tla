-------------------------------- MODULE Ledger ---------------------------------
(***************************************************************************)
(* Bookkeeping properties of the payment service: sums over the payments   *)
(* table compared with the balances of the wallets.  They are stated for   *)
(* runs without top-ups, whose passengers all start with Opening.          *)
(***************************************************************************)
EXTENDS PaymentService, FiniteSetsExt

Quiet == \A r \in PayReqs : PayAt(r, "idle")

Balance(w) == IF wallets[w] = Null THEN 0 ELSE wallets[w]

Total(amount, rows) == MapThenSumSet(LAMBDA p : amount[p], rows)

Amount    == [p \in PaymentIds |-> payments[p].amount]
NetAmount == [p \in PaymentIds |-> Net(payments[p].amount)]

TotalNet(rows)    == Total(NetAmount, rows)
TotalAmount(rows) == Total(Amount, rows)

\* The payments of d's trips that went through, refunded since or not: a
\* refund does not take the driver's share back.
SettledFor(d) == {p \in PaymentIds :
                    /\ payments[p].status \in {"completed", "refunded"}
                    /\ trips[payments[p].trip].driver = d}

WalletPaymentsOf(u) == {p \in PaymentIds : /\ payments[p].user = u
                                           /\ payments[p].method = "wallet"}

\* Click may confirm an open invoice again, after a refund or on a payment
\* made another way meanwhile; only what no invoice can touch is exact.
Invoiced(T) == T \cap invoices # {}

\* A driver has earned the net amount of every payment of her trips that went
\* through, and exactly that unless Click repeats itself: each payment is
\* credited once, and none is lost.  (A repeated credit of a negative share
\* takes money, so then only the second half holds.)
EarningsMatchPayments ==
  Quiet => \A d \in Drivers :
    LET earned == Balance(EarningsWallet(d))
        due    == TotalNet(SettledFor(d))
    IN  /\ ~NegativeFor(EarningsWallet(d)) => earned >= due
        /\ ~Invoiced({t \in TripIds : trips[t].driver = d}) => earned = due

\* A passenger has spent no more than the wallet payments that went through
\* and were not refunded, and exactly that unless Click repeats itself: a
\* failed payment costs nothing, a refund is complete.  (A repeated refund of a
\* negative payment takes money, so then only the second half holds.)
SpendingMatchesPayments ==
  Quiet => \A u \in Passengers :
    LET spent == Opening - Balance(PassengerWallet(u))
        due   == TotalAmount({p \in WalletPaymentsOf(u) :
                                payments[p].status = "completed"})
    IN  /\ ~NegativeFor(PassengerWallet(u)) => spent <= due
        /\ ~Invoiced({t \in TripIds : trips[t].passenger = u}) => spent = due

\* However requests interleave or die, a payments row is debited at most once.
\* (A payment of a negative amount is a debit when it is refunded, and two
\* refunds of one payment can race; the passengers without one are covered.)
DebitedAtMostOnce ==
  \A u \in Passengers : ~NegativeFor(PassengerWallet(u)) =>
    Balance(PassengerWallet(u)) >= Opening - TotalAmount(WalletPaymentsOf(u))

\* A driver is credited only after a trip of hers has been marked paid: an
\* interruption of finalizePayment costs the driver, never the platform.
EarnedOnlyWhenPaid ==
  \A d \in Drivers : Balance(EarningsWallet(d)) # 0 =>
    \E t \in TripIds : trips[t].driver = d /\ trips[t].status = "paid"
================================================================================
