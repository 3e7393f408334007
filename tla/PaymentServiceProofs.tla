-------------------------- MODULE PaymentServiceProofs --------------------------
(***************************************************************************)
(* Proofs about the payment service, for any number of trips, payments and *)
(* concurrent requests, with or without crashes.                           *)
(*                                                                         *)
(* PayInv is inductive whatever the ride service does meanwhile, as long   *)
(* as trips that are over stay over; SettlementProofs combines the two.    *)
(***************************************************************************)
EXTENDS PaymentService, TLAPS

\* The statuses payments are made in.
Settleable == {"completed", "paid"}

\* What a handler at each await has established, and still holds when it acts.
PayOK(q) ==
  /\ q.trip # Null => trips[q.trip].status \in Settleable
  /\ q.pc = "process.insert" => q.amount \in Charge
  /\ q.pc \in {"process.insert", "process.provider", "debit.check",
               "debit.update", "finalize.payment", "finalize.trip"}
       => q.trip \in TripIds
  /\ q.pc \in {"process.provider", "process.fail", "debit.check",
               "debit.update", "finalize.payment", "refund.update"}
       => q.payment \in PaymentIds /\ PaymentExists(q.payment)
  /\ q.pc \in {"process.insert", "process.provider", "debit.check",
               "debit.update", "refund.update", "refund.wallet"}
       => (q.method = "wallet" => q.user \in Passengers)
  /\ q.pc \in {"debit.check", "debit.update", "refund.wallet"}
       => q.method = "wallet"
  /\ q.pc = "debit.update" => wallets[PassengerWallet(q.user)] # Null
  /\ q.pc \in {"credit.insert", "balance.insert", "credit.update"}
       => q.wallet \in WalletIds
  /\ q.pc = "credit.update" => wallets[q.wallet] # Null

\* A row that was inserted belongs to a trip that is over.
RowOK(p) ==
  /\ PaymentExists(p) => /\ payments[p].trip \in TripIds
                         /\ trips[payments[p].trip].status \in Settleable
  /\ ~PaymentExists(p) => payments[p].trip = Null

PayInv == /\ PayTypeOK
          /\ \A r \in PayReqs : PayOK(payReqs[r])
          /\ \A p \in PaymentIds : RowOK(p)

\* What the payment service relies on in the trips table.
TripsTyped == /\ trips \in [TripIds -> TripRow]
              /\ \A t \in TripIds : trips[t].status # "payment_processing"

\* What nothing undoes: rows and wallets exist, trips are over.
RowsKept == \A p \in PaymentIds : PaymentExists(p) => PaymentExists(p)'
WalletsKept == \A w \in WalletIds : wallets[w] # Null => wallets'[w] # Null
SettleableKept ==
  \A t \in TripIds :
    trips[t].status \in Settleable => trips'[t].status \in Settleable

\* What one step of the handler in slot r does to the trips table.
MarksPaid ==
  \/ UNCHANGED trips
  \/ \E t \in TripIds : /\ trips[t].status \in Settleable
                         /\ trips' = [trips EXCEPT ![t].status = "paid"]

PayMove(r) ==
  /\ PayTypeOK'
  /\ PayOK(payReqs[r])'
  /\ \A o \in PayReqs : o # r => payReqs'[o] = payReqs[o]
  /\ \A p \in PaymentIds : RowOK(p)'
  /\ RowsKept /\ WalletsKept
  /\ MarksPaid

-------------------------------------------------------------------------------
\* NULL is not a number, so neither a trip nor a payment.
LEMMA NullIsNoNumber ==
  Null \notin Int /\ Null \notin TripIds /\ Null \notin PaymentIds
BY TripTableAssumption DEF TripTableAssumption, TripIds, PaymentIds

\* A charge, and what a handler holds of one, is a number; so is a driver's
\* share, which is no more than the amount and of the same sign.
LEMMA ChargesAreHoldings ==
  /\ Charge \cup TopUps \subseteq Int
  /\ Charge \cup TopUps \subseteq Holding
  /\ Holding \subseteq Int
<1>1. Charge \cup TopUps \subseteq Int
  BY TripTableAssumption, PaymentServiceAssumption
     DEF TripTableAssumption, PaymentServiceAssumption, Charge
<1>2. \A c \in Int : Within(c, c)
  BY DEF Within
<1> QED
  BY <1>1, <1>2 DEF Holding

LEMMA NetIsShare ==
  ASSUME NEW a \in Int
  PROVE  Net(a) \in Int /\ Within(Net(a), a)
BY DEF Net, Commission, Within

LEMMA NetIsHolding ==
  ASSUME NEW a \in Holding
  PROVE  Net(a) \in Holding
<1>1. PICK c \in Charge \cup TopUps : Within(a, c)
  BY DEF Holding
<1>2. a \in Int /\ c \in Int
  BY <1>1, ChargesAreHoldings
<1>3. Net(a) \in Int /\ Within(Net(a), a)
  BY <1>2, NetIsShare
<1>4. Within(Net(a), c)
  BY <1>1, <1>2, <1>3 DEF Within
<1> QED
  BY <1>1, <1>3, <1>4 DEF Holding

\* The types of the amounts.
LEMMA AmountTypes ==
  /\ \A q \in PayRequest : q.amount \in Holding /\ q.amount \in Int
  /\ \A row \in PaymentRow : row.amount \in Charge /\ row.amount \in Int
                              /\ row.amount \in Holding
BY ChargesAreHoldings DEF PayRequest, PaymentRow

\* A handler's knowledge survives what nothing undoes.
LEMMA PayOKKept ==
  ASSUME RowsKept, WalletsKept, SettleableKept, NEW r \in PayReqs,
         payReqs[r] \in PayRequest, PayOK(payReqs[r]),
         payReqs'[r] = payReqs[r]
  PROVE  PayOK(payReqs[r])'
BY DEF RowsKept, WalletsKept, SettleableKept, PayOK, PayRequest,
       PaymentExists, WalletIds, PassengerWallet

\* A step that writes only the handler's own variables.
LEMMA LocalStep ==
  ASSUME PayInv, NEW r \in PayReqs, NEW new \in PayRequest,
         payReqs' = [payReqs EXCEPT ![r] = new], PayOK(new),
         UNCHANGED <<trips, payments, wallets>>, invoices' \subseteq TripIds
  PROVE  PayMove(r)
<1>1. payReqs'[r] = new /\ PayTypeOK'
  BY DEF PayInv, PayTypeOK
<1>2. PayOK(payReqs[r])'
  BY <1>1 DEF PayOK, PaymentExists
<1>3. \A p \in PaymentIds : RowOK(p)'
  BY DEF PayInv, RowOK, PaymentExists
<1>4. \A o \in PayReqs : o # r => payReqs'[o] = payReqs[o]
  BY DEF PayInv, PayTypeOK
<1>5. RowsKept /\ WalletsKept /\ MarksPaid
  BY DEF RowsKept, WalletsKept, MarksPaid, PaymentExists
<1> QED
  BY <1>1, <1>2, <1>3, <1>4, <1>5 DEF PayMove

\* A step that also sets the status of a payment.
LEMMA RowStep ==
  ASSUME PayInv, NEW r \in PayReqs, NEW new \in PayRequest,
         payReqs' = [payReqs EXCEPT ![r] = new], PayOK(new),
         NEW p \in PaymentIds, PaymentExists(p), NEW s \in PaymentStatus,
         SetPaymentStatus(p, s), UNCHANGED <<trips, wallets, invoices>>
  PROVE  PayMove(r)
<1>1. /\ payments' \in [PaymentIds -> PaymentRow]
      /\ payments'[p].status = s /\ payments'[p].trip = payments[p].trip
      /\ \A o \in PaymentIds : o # p => payments'[o] = payments[o]
  BY DEF PayInv, PayTypeOK, SetPaymentStatus, PaymentRow
<1>2. payReqs'[r] = new /\ PayTypeOK'
  BY <1>1 DEF PayInv, PayTypeOK
<1>3. s # "none"
  BY DEF PaymentStatus
<1>4. RowsKept
  BY <1>1, <1>3 DEF RowsKept, PaymentExists
<1>5. PayOK(payReqs[r])'
  BY <1>2, <1>4 DEF PayOK, RowsKept
<1>6. \A o \in PaymentIds : RowOK(o)'
  BY <1>1, <1>3 DEF PayInv, RowOK, PaymentExists
<1>7. \A o \in PayReqs : o # r => payReqs'[o] = payReqs[o]
  BY DEF PayInv, PayTypeOK
<1>8. WalletsKept /\ MarksPaid
  BY DEF WalletsKept, MarksPaid
<1> QED
  BY <1>2, <1>4, <1>5, <1>6, <1>7, <1>8 DEF PayMove

\* A step that also writes a balance.
LEMMA WalletStep ==
  ASSUME PayInv, NEW r \in PayReqs, NEW new \in PayRequest,
         payReqs' = [payReqs EXCEPT ![r] = new],
         NEW w \in WalletIds, NEW b \in Int,
         wallets' = [wallets EXCEPT ![w] = b],
         PayOK(new) \/ (PayOK(payReqs[r]) /\ new.wallet = w
                         /\ new = [payReqs[r] EXCEPT !.pc = "credit.update"]),
         UNCHANGED <<trips, payments, invoices>>
  PROVE  PayMove(r)
<1>1. payReqs'[r] = new /\ PayTypeOK'
  BY DEF PayInv, PayTypeOK
<1>2. b # Null
  BY NullIsNoNumber
<1>3. wallets'[w] = b /\ \A o \in WalletIds : o # w => wallets'[o] = wallets[o]
  BY DEF PayInv, PayTypeOK
<1>4. WalletsKept
  BY <1>2, <1>3 DEF WalletsKept
<1>5. PayOK(payReqs[r])'
  <2>1. CASE PayOK(new)
    <3>1. new.pc = "debit.update" => PassengerWallet(new.user) \in WalletIds
      BY <2>1 DEF PayOK, WalletIds
    <3> QED
      BY <1>1, <1>4, <2>1, <3>1 DEF PayOK, WalletsKept, PaymentExists
  <2>2. CASE PayOK(payReqs[r]) /\ new.wallet = w
              /\ new = [payReqs[r] EXCEPT !.pc = "credit.update"]
    <3>1. new.pc = "credit.update" /\ new.trip = payReqs[r].trip
      BY <2>2 DEF PayInv, PayTypeOK, PayRequest
    <3> QED
      BY <1>1, <1>2, <1>3, <2>2, <3>1 DEF PayOK
  <2> QED
    BY <2>1, <2>2
<1>6. \A p \in PaymentIds : RowOK(p)'
  BY DEF PayInv, RowOK, PaymentExists
<1>7. \A o \in PayReqs : o # r => payReqs'[o] = payReqs[o]
  BY DEF PayInv, PayTypeOK
<1>8. RowsKept /\ MarksPaid
  BY DEF RowsKept, MarksPaid, PaymentExists
<1> QED
  BY <1>1, <1>4, <1>5, <1>6, <1>7, <1>8 DEF PayMove

\* The last step of a handler.
LEMMA IdleIsOK == IdlePay \in PayRequest /\ PayOK(IdlePay)
<1>1. 0 \in Holding
  BY ChargesAreHoldings DEF Charge
<1> QED
  BY <1>1 DEF IdlePay, PayRequest, PayPc, PayOK

\* The next await is the only thing a PayGoto changes.
LEMMA PayGotoWrites ==
  ASSUME PayInv, NEW r \in PayReqs, NEW pc \in PayPc, PayGoto(r, pc)
  PROVE  \E new \in PayRequest :
           /\ payReqs' = [payReqs EXCEPT ![r] = new]
           /\ new.pc = pc
           /\ new.trip = payReqs[r].trip
           /\ new.payment = payReqs[r].payment
           /\ new.user = payReqs[r].user
           /\ new.method = payReqs[r].method
           /\ new.wallet = payReqs[r].wallet
<1> DEFINE new == [payReqs[r] EXCEPT !.pc = pc]
<1>1. new \in PayRequest
  BY DEF PayInv, PayTypeOK, PayRequest
<1>2. payReqs' = [payReqs EXCEPT ![r] = new]
  BY DEF PayGoto
<1>3. /\ new.pc = pc
      /\ new.trip = payReqs[r].trip
      /\ new.payment = payReqs[r].payment
      /\ new.user = payReqs[r].user
      /\ new.method = payReqs[r].method
      /\ new.wallet = payReqs[r].wallet
  BY DEF PayInv, PayTypeOK, PayRequest
<1> QED
  BY <1>1, <1>2, <1>3

\* A request that is admitted has read a trip that is over.
LEMMA ProcessPaymentStep ==
  ASSUME PayInv, TripsTyped, NEW r \in PayReqs, NEW u \in Passengers,
         NEW t \in TripIds, NEW method \in Methods,
         ProcessPayment(r, u, t, method)
  PROVE  PayMove(r)
<1> DEFINE new == [IdlePay EXCEPT !.pc = "process.insert", !.trip = t,
                     !.user = u, !.driver = trips[t].driver,
                     !.amount = FareDue(t), !.method = method]
<1>1. trips[t] \in TripRow /\ trips[t].status \in Settleable
  BY DEF TripsTyped, ProcessPayment, Payable, Settleable
<1>2. FareDue(t) \in Charge /\ FareDue(t) \in Holding
  <2>1. trips[t].final \in Price /\ trips[t].fixed \in Price /\ 0 \in Charge
    BY <1>1 DEF TripRow, Charge
  <2> QED
    BY <2>1, ChargesAreHoldings DEF FareDue, Coalesce, Price
<1>3. new \in PayRequest
  BY <1>1, <1>2, IdleIsOK DEF IdlePay, PayRequest, PayPc, TripRow
<1>4. /\ new.pc = "process.insert" /\ new.trip = t /\ new.user = u
      /\ new.amount = FareDue(t)
  BY DEF IdlePay
<1>5. payReqs' = [payReqs EXCEPT ![r] = new]
  BY DEF ProcessPayment, PayBegin
<1> HIDE DEF new
<1>6. PayOK(new)
  BY <1>1, <1>2, <1>4 DEF PayOK
<1> QED
  BY <1>3, <1>5, <1>6, LocalStep DEF ProcessPayment, PayInv, PayTypeOK

\* A payments row with a trip is a row of a trip that is over.
LEMMA PaymentOfTrip ==
  ASSUME PayInv, NEW t \in TripIds, NEW p \in PaymentIds, IsPaymentOf(p, t)
  PROVE  /\ PaymentExists(p) /\ trips[t].status \in Settleable
         /\ payments[p] \in PaymentRow
BY NullIsNoNumber DEF PayInv, PayTypeOK, RowOK, IsPaymentOf

\* The webhook finds a payment of a trip that is over.
LEMMA ConfirmStep ==
  ASSUME PayInv, TripsTyped, NEW r \in PayReqs, NEW t \in TripIds,
         ConfirmExternalPayment(r, t)
  PROVE  PayMove(r)
<1>1. PICK p \in PaymentIds :
        /\ IsPaymentOf(p, t)
        /\ PayBegin(r, [IdlePay EXCEPT !.pc = "finalize.payment", !.trip = t,
                          !.payment = p, !.user = payments[p].user,
                          !.driver = trips[t].driver,
                          !.amount = payments[p].amount,
                          !.method = payments[p].method])
  BY DEF ConfirmExternalPayment
<1> DEFINE new == [IdlePay EXCEPT !.pc = "finalize.payment", !.trip = t,
                     !.payment = p, !.user = payments[p].user,
                     !.driver = trips[t].driver,
                     !.amount = payments[p].amount,
                     !.method = payments[p].method]
<1>2. /\ PaymentExists(p) /\ trips[t].status \in Settleable
      /\ payments[p] \in PaymentRow /\ trips[t] \in TripRow
  BY <1>1, PaymentOfTrip DEF TripsTyped
<1>3. new \in PayRequest
  BY <1>2, IdleIsOK, AmountTypes
     DEF IdlePay, PayRequest, PayPc, TripRow, PaymentRow
<1>4. new.pc = "finalize.payment" /\ new.trip = t /\ new.payment = p
  BY DEF IdlePay
<1>5. payReqs' = [payReqs EXCEPT ![r] = new]
  BY <1>1 DEF PayBegin
<1> HIDE DEF new
<1>6. PayOK(new)
  BY <1>2, <1>4 DEF PayOK
<1> QED
  BY <1>3, <1>5, <1>6, LocalStep
     DEF ConfirmExternalPayment, PayInv, PayTypeOK

\* So does a refund request.
LEMMA RequestRefundStep ==
  ASSUME PayInv, NEW r \in PayReqs, NEW u \in Passengers, NEW t \in TripIds,
         RequestRefund(r, u, t)
  PROVE  PayMove(r)
<1>1. PICK p \in PaymentIds :
        /\ IsPaymentOf(p, t)
        /\ PayBegin(r, [IdlePay EXCEPT !.pc = "refund.update", !.trip = t,
                          !.payment = p, !.user = u,
                          !.amount = payments[p].amount,
                          !.method = payments[p].method])
  BY DEF RequestRefund
<1> DEFINE new == [IdlePay EXCEPT !.pc = "refund.update", !.trip = t,
                     !.payment = p, !.user = u,
                     !.amount = payments[p].amount,
                     !.method = payments[p].method]
<1>2. /\ PaymentExists(p) /\ trips[t].status \in Settleable
      /\ payments[p] \in PaymentRow
  BY <1>1, PaymentOfTrip
<1>3. new \in PayRequest
  BY <1>2, IdleIsOK, AmountTypes DEF IdlePay, PayRequest, PayPc, PaymentRow
<1>4. /\ new.pc = "refund.update" /\ new.trip = t /\ new.payment = p
      /\ new.user = u
  BY DEF IdlePay
<1>5. payReqs' = [payReqs EXCEPT ![r] = new]
  BY <1>1 DEF PayBegin
<1> HIDE DEF new
<1>6. PayOK(new)
  BY <1>2, <1>4 DEF PayOK
<1> QED
  BY <1>3, <1>5, <1>6, LocalStep DEF RequestRefund, PayInv, PayTypeOK

\* Wallet requests begin with a passenger's wallet and no trip.
LEMMA WalletArrivalStep ==
  ASSUME PayInv, NEW r \in PayReqs, NEW u \in Passengers,
         (\E amount \in TopUps : TopUp(r, u, amount)) \/ GetBalance(r, u)
  PROVE  PayMove(r)
<1> DEFINE w == PassengerWallet(u)
<1>1. w \in WalletIds
  BY DEF WalletIds
<1>2. ASSUME NEW new \in PayRequest, payReqs' = [payReqs EXCEPT ![r] = new],
             new.pc \in {CreditPc(w), "balance.insert"},
             new.trip = Null, new.wallet = w,
             UNCHANGED <<trips, payments, wallets, invoices>>
      PROVE  PayMove(r)
  <2>1. \/ new.pc \in {"credit.insert", "balance.insert"}
        \/ new.pc = "credit.update" /\ wallets[w] # Null
    BY <1>2 DEF CreditPc
  <2>2. PayOK(new)
    BY <1>1, <1>2, <2>1 DEF PayOK
  <2> QED
    BY <1>2, <2>2, LocalStep DEF PayInv, PayTypeOK
<1>3. CreditPc(w) \in PayPc /\ "balance.insert" \in PayPc
  BY DEF CreditPc, PayPc
<1>4. CASE GetBalance(r, u)
  <2> DEFINE new == [IdlePay EXCEPT !.pc = "balance.insert", !.user = u,
                                    !.wallet = w]
  <2>1. new.pc = "balance.insert" /\ new.trip = Null /\ new.wallet = w
    BY DEF IdlePay
  <2>2. new \in PayRequest
    BY <1>1, <1>3, IdleIsOK DEF IdlePay, PayRequest
  <2>3. payReqs' = [payReqs EXCEPT ![r] = new]
    BY <1>4 DEF GetBalance, PayBegin
  <2> HIDE DEF new
  <2> QED
    BY <1>2, <1>4, <2>1, <2>2, <2>3 DEF GetBalance
<1>5. ASSUME NEW amount \in TopUps, TopUp(r, u, amount)
      PROVE  PayMove(r)
  <2> DEFINE new == [IdlePay EXCEPT !.pc = CreditPc(w), !.user = u,
                                    !.wallet = w, !.amount = amount]
  <2>1. new.pc = CreditPc(w) /\ new.trip = Null /\ new.wallet = w
    BY DEF IdlePay
  <2>2. amount \in Holding
    BY ChargesAreHoldings
  <2>3. new \in PayRequest
    BY <1>1, <1>3, <2>2 DEF IdlePay, PayRequest
  <2>4. payReqs' = [payReqs EXCEPT ![r] = new]
    BY <1>5 DEF TopUp, PayBegin
  <2> HIDE DEF new
  <2> QED
    BY <1>2, <1>5, <2>1, <2>3, <2>4 DEF TopUp
<1> QED
  BY <1>4, <1>5

-------------------------------------------------------------------------------
\* The steps that end a handler or move it to its next await.
LEMMA ControlStep ==
  ASSUME PayInv, NEW r \in PayReqs,
         \/ ProviderFails(r) \/ ProviderSettles(r) \/ ProviderInvoices(r)
         \/ CheckBalance(r)  \/ PublishPaid(r)     \/ CrashPay(r)
  PROVE  PayMove(r)
<1> DEFINE q == payReqs[r]
<1>1. q \in PayRequest /\ PayOK(q) /\ invoices \subseteq TripIds
  BY DEF PayInv, PayTypeOK
<1>2. ASSUME PayEnd(r), UNCHANGED <<trips, payments, wallets>>,
             invoices' \subseteq TripIds
      PROVE  PayMove(r)
  BY <1>2, IdleIsOK, LocalStep DEF PayEnd
<1>3. ASSUME NEW pc \in {"process.fail", "finalize.payment", "debit.update"},
             PayGoto(r, pc), UNCHANGED <<trips, payments, wallets>>,
             invoices' \subseteq TripIds,
             q.pc \in {"process.provider", "debit.check"},
             pc = "debit.update" =>
               q.pc = "debit.check" /\ wallets[PassengerWallet(q.user)] # Null
      PROVE  PayMove(r)
  <2>1. pc \in PayPc
    BY DEF PayPc
  <2>2. PICK new \in PayRequest :
          /\ payReqs' = [payReqs EXCEPT ![r] = new]
          /\ new.pc = pc /\ new.trip = q.trip /\ new.payment = q.payment
          /\ new.user = q.user /\ new.method = q.method
          /\ new.wallet = q.wallet
    BY <1>3, <2>1, PayGotoWrites
  <2>3. PayOK(new)
    BY <1>1, <1>3, <2>2 DEF PayOK
  <2> QED
    BY <1>3, <2>2, <2>3, LocalStep
<1>4. q.pc = "process.provider" => q.trip \in TripIds
  BY <1>1 DEF PayOK
<1>5. CASE ProviderFails(r)
  BY <1>1, <1>3, <1>4, <1>5 DEF ProviderFails, PayAt
<1>6. CASE ProviderSettles(r)
  BY <1>1, <1>3, <1>4, <1>6 DEF ProviderSettles, PayAt
<1>7. CASE ProviderInvoices(r)
  BY <1>1, <1>2, <1>4, <1>7 DEF ProviderInvoices, PayAt
<1>8. CASE CheckBalance(r)
  <2>1. CASE EnoughBalance(PassengerWallet(q.user), q.amount)
    BY <1>1, <1>3, <1>8, <2>1 DEF CheckBalance, PayAt, EnoughBalance
  <2>2. CASE ~EnoughBalance(PassengerWallet(q.user), q.amount)
    BY <1>1, <1>3, <1>8, <2>2 DEF CheckBalance, PayAt
  <2> QED
    BY <2>1, <2>2
<1>9. CASE PublishPaid(r) \/ CrashPay(r)
  BY <1>1, <1>2, <1>9 DEF PublishPaid, CrashPay
<1> QED
  BY <1>5, <1>6, <1>7, <1>8, <1>9

\* createPayment inserts a row for a trip that is over.
LEMMA CreatePaymentStep ==
  ASSUME PayInv, NEW r \in PayReqs, CreatePayment(r)
  PROVE  PayMove(r)
<1> DEFINE q == payReqs[r]
<1>1. /\ q \in PayRequest /\ PayOK(q) /\ q.pc = "process.insert"
      /\ q.trip \in TripIds /\ trips[q.trip].status \in Settleable
  BY NullIsNoNumber DEF PayInv, PayTypeOK, PayOK, CreatePayment, PayAt
<1>2. PICK p \in PaymentIds :
        /\ InsertPayment(p, q.trip, q.user, q.amount, q.method)
        /\ payReqs' = [payReqs EXCEPT ![r] =
                         [@ EXCEPT !.pc = AfterInsert(q.method), !.payment = p]]
  BY DEF CreatePayment
<1> DEFINE row == [status |-> "processing", trip |-> q.trip, user |-> q.user,
                   amount |-> q.amount, method |-> q.method]
           new == [q EXCEPT !.pc = AfterInsert(q.method), !.payment = p]
<1>3. /\ row \in PaymentRow /\ row.status = "processing"
      /\ row.trip = q.trip
  BY <1>1 DEF PaymentRow, PaymentStatus, PayRequest, PayOK
<1>4. payments' = [payments EXCEPT ![p] = row] /\ ~PaymentExists(p)
  BY <1>2 DEF InsertPayment
<1>5. \/ AfterInsert(q.method) = "debit.check" /\ q.method = "wallet"
      \/ AfterInsert(q.method) \in {"finalize.payment", "process.provider"}
  BY DEF AfterInsert
<1>6. /\ new \in PayRequest /\ new.pc = AfterInsert(q.method)
      /\ new.payment = p /\ new.trip = q.trip /\ new.user = q.user
      /\ new.method = q.method
  BY <1>1, <1>5 DEF PayRequest, PayPc
<1>7. payReqs' = [payReqs EXCEPT ![r] = new]
  BY <1>2
<1> HIDE DEF row, new
<1>8. /\ payments' \in [PaymentIds -> PaymentRow] /\ payments'[p] = row
      /\ \A o \in PaymentIds : o # p => payments'[o] = payments[o]
  BY <1>3, <1>4 DEF PayInv, PayTypeOK
<1>9. RowsKept /\ \A o \in PaymentIds : RowOK(o)'
  <2>1. UNCHANGED trips
    BY DEF CreatePayment
  <2> QED
    BY <1>1, <1>3, <1>8, <2>1 DEF RowsKept, RowOK, PaymentExists, PayInv
<1>10. payReqs'[r] = new /\ PayTypeOK'
  BY <1>6, <1>7, <1>8 DEF PayInv, PayTypeOK, CreatePayment
<1>11. PayOK(payReqs[r])'
  <2>1. UNCHANGED <<trips, wallets>> /\ PaymentExists(p)'
    BY <1>3, <1>8 DEF CreatePayment, PaymentExists
  <2> QED
    BY <1>1, <1>5, <1>6, <1>10, <2>1 DEF PayOK
<1>12. \A o \in PayReqs : o # r => payReqs'[o] = payReqs[o]
  BY <1>7 DEF PayInv, PayTypeOK
<1> QED
  BY <1>9, <1>10, <1>11, <1>12 DEF PayMove, CreatePayment, WalletsKept, MarksPaid

\* The three UPDATEs of a payment's status.
LEMMA PaymentStatusStep ==
  ASSUME PayInv, NEW r \in PayReqs,
         FailProcess(r) \/ FinalizePayment(r) \/ CommitRefund(r)
  PROVE  PayMove(r)
<1> DEFINE q == payReqs[r]
<1>1. /\ q \in PayRequest /\ PayOK(q)
      /\ q.payment \in PaymentIds /\ PaymentExists(q.payment)
  BY DEF PayInv, PayTypeOK, PayOK, FailProcess, FinalizePayment, CommitRefund,
         PayAt
<1>2. ASSUME NEW s \in PaymentStatus, SetPaymentStatus(q.payment, s), PayEnd(r),
             UNCHANGED <<trips, wallets, invoices>>
      PROVE  PayMove(r)
  BY <1>1, <1>2, IdleIsOK, RowStep DEF PayEnd
<1>3. ASSUME NEW s \in PaymentStatus, SetPaymentStatus(q.payment, s),
             NEW pc \in {"finalize.trip", "refund.wallet"}, PayGoto(r, pc),
             pc = "finalize.trip" => q.pc = "finalize.payment",
             pc = "refund.wallet" => q.pc = "refund.update" /\ q.method = "wallet",
             UNCHANGED <<trips, wallets, invoices>>
      PROVE  PayMove(r)
  <2>1. pc \in PayPc
    BY DEF PayPc
  <2>2. PICK new \in PayRequest :
          /\ payReqs' = [payReqs EXCEPT ![r] = new]
          /\ new.pc = pc /\ new.trip = q.trip /\ new.payment = q.payment
          /\ new.user = q.user /\ new.method = q.method
          /\ new.wallet = q.wallet
    BY <1>3, <2>1, PayGotoWrites
  <2>3. PayOK(new)
    BY <1>1, <1>3, <2>2 DEF PayOK
  <2> QED
    BY <1>1, <1>3, <2>2, <2>3, RowStep
<1>4. {"failed", "completed", "refunded"} \subseteq PaymentStatus
  BY DEF PaymentStatus
<1>5. CASE FailProcess(r)
  BY <1>2, <1>4, <1>5 DEF FailProcess, FailPayment
<1>6. CASE FinalizePayment(r)
  BY <1>3, <1>4, <1>6 DEF FinalizePayment, CompletePayment, PayAt
<1>7. CASE CommitRefund(r)
  <2>1. CASE q.method = "wallet"
    BY <1>3, <1>4, <1>7, <2>1 DEF CommitRefund, RefundPayment, PayAt
  <2>2. CASE q.method # "wallet"
    BY <1>2, <1>4, <1>7, <2>2 DEF CommitRefund, RefundPayment
  <2> QED
    BY <2>1, <2>2
<1> QED
  BY <1>5, <1>6, <1>7

\* The two callers of creditWallet know the wallet's name.
LEMMA CreditCallStep ==
  ASSUME PayInv, NEW r \in PayReqs, CreditDriverEarnings(r) \/ CreditRefund(r)
  PROVE  PayMove(r)
<1> DEFINE q == payReqs[r]
<1>1. q \in PayRequest /\ PayOK(q) /\ invoices \subseteq TripIds
  BY DEF PayInv, PayTypeOK
<1>2. ASSUME NEW new \in PayRequest, payReqs' = [payReqs EXCEPT ![r] = new],
             new.trip = q.trip,
             \/ new.pc = "finalize.publish"
             \/ /\ new.pc = CreditPc(new.wallet)
                /\ new.wallet \in WalletIds,
             UNCHANGED <<trips, payments, wallets, invoices>>
      PROVE  PayMove(r)
  <2>1. PayOK(new)
    BY <1>1, <1>2 DEF PayOK, CreditPc
  <2> QED
    BY <1>1, <1>2, <2>1, LocalStep
<1>3. \A w : CreditPc(w) \in PayPc
  BY DEF CreditPc, PayPc
<1>4. CASE CreditDriverEarnings(r)
  <2> DEFINE w == EarningsWallet(q.driver)
  <2>1. CASE q.driver = Null
    <3> DEFINE new == [q EXCEPT !.pc = "finalize.publish"]
    <3>1. /\ new \in PayRequest /\ new.trip = q.trip
          /\ new.pc = "finalize.publish"
      BY <1>1 DEF PayRequest, PayPc
    <3>2. payReqs' = [payReqs EXCEPT ![r] = new]
      BY <1>4, <2>1 DEF CreditDriverEarnings
    <3> HIDE DEF new
    <3> QED
      BY <1>2, <1>4, <3>1, <3>2 DEF CreditDriverEarnings
  <2>2. CASE q.driver # Null
    <3> DEFINE new == [q EXCEPT !.pc = CreditPc(w), !.wallet = w,
                                !.amount = Net(@), !.next = "finalize.publish"]
    <3>1. w \in WalletIds
      BY <1>1, <2>2 DEF PayRequest, WalletIds
    <3>2. Net(q.amount) \in Holding
      BY <1>1, AmountTypes, NetIsHolding
    <3>3. /\ new \in PayRequest /\ new.trip = q.trip
          /\ new.pc = CreditPc(w) /\ new.wallet = w
      BY <1>1, <1>3, <3>1, <3>2 DEF PayRequest
    <3>4. payReqs' = [payReqs EXCEPT ![r] = new]
      BY <1>4, <2>2 DEF CreditDriverEarnings
    <3> HIDE DEF new, w
    <3> QED
      BY <1>2, <1>4, <3>1, <3>3, <3>4 DEF CreditDriverEarnings
  <2> QED
    BY <2>1, <2>2
<1>5. CASE CreditRefund(r)
  <2> DEFINE w == PassengerWallet(q.user)
             new == [q EXCEPT !.pc = CreditPc(w), !.wallet = w]
  <2>1. w \in WalletIds
    BY <1>1, <1>5 DEF CreditRefund, PayAt, PayOK, WalletIds
  <2>2. /\ new \in PayRequest /\ new.trip = q.trip
        /\ new.pc = CreditPc(w) /\ new.wallet = w
    BY <1>1, <1>3, <2>1 DEF PayRequest
  <2>3. payReqs' = [payReqs EXCEPT ![r] = new]
    BY <1>5 DEF CreditRefund
  <2> HIDE DEF new, w
  <2> QED
    BY <1>2, <1>5, <2>1, <2>2, <2>3 DEF CreditRefund
<1> QED
  BY <1>4, <1>5

\* Only a wallet that exists is debited or credited.
LEMMA BalanceStep ==
  ASSUME PayInv, NEW r \in PayReqs, DebitWallet(r) \/ CreditWallet(r)
  PROVE  PayMove(r)
<1> DEFINE q == payReqs[r]
<1>1. q \in PayRequest /\ PayOK(q) /\ q.amount \in Int
  BY AmountTypes DEF PayInv, PayTypeOK
<1>2. \A w \in WalletIds : wallets[w] # Null => wallets[w] \in Int
  BY DEF PayInv, PayTypeOK
<1>3. CASE DebitWallet(r)
  <2> DEFINE w == PassengerWallet(q.user)
  <2>1. w \in WalletIds /\ wallets[w] \in Int
    BY <1>1, <1>2, <1>3 DEF DebitWallet, PayAt, PayOK, WalletIds
  <2>2. wallets' = [wallets EXCEPT ![w] = wallets[w] - q.amount]
    BY <1>1, <1>3, <2>1 DEF DebitWallet, AddToWallet
  <2>3. PICK new \in PayRequest :
          /\ payReqs' = [payReqs EXCEPT ![r] = new]
          /\ new.pc = "finalize.payment"
          /\ new.trip = q.trip /\ new.payment = q.payment
    BY <1>3, PayGotoWrites DEF DebitWallet, PayPc
  <2>4. PayOK(new)
    BY <1>1, <1>3, <2>3 DEF PayOK, DebitWallet, PayAt
  <2>5. wallets[w] - q.amount \in Int
    BY <1>1, <2>1
  <2> QED
    BY <1>3, <2>1, <2>2, <2>3, <2>4, <2>5, WalletStep DEF DebitWallet
<1>4. CASE CreditWallet(r)
  <2>1. q.wallet \in WalletIds /\ wallets[q.wallet] \in Int
    BY <1>1, <1>2, <1>4 DEF CreditWallet, PayAt, PayOK
  <2>2. wallets' = [wallets EXCEPT ![q.wallet] = wallets[q.wallet] + q.amount]
    BY <1>4 DEF CreditWallet, AddToWallet
  <2>3. PICK new \in PayRequest : /\ payReqs' = [payReqs EXCEPT ![r] = new]
                                  /\ PayOK(new)
    <3>1. CASE q.next = "idle"
      BY <1>4, <3>1, IdleIsOK DEF CreditWallet, PayEnd
    <3>2. CASE q.next # "idle"
      <4>1. q.next = "finalize.publish"
        BY <1>1, <3>2 DEF PayRequest
      <4>2. PICK new \in PayRequest :
              /\ payReqs' = [payReqs EXCEPT ![r] = new]
              /\ new.pc = "finalize.publish" /\ new.trip = q.trip
        BY <1>4, <4>1, PayGotoWrites DEF CreditWallet, PayPc
      <4>3. PayOK(new)
        BY <1>1, <4>2 DEF PayOK
      <4> QED
        BY <4>2, <4>3
    <3> QED
      BY <3>1, <3>2
  <2>4. wallets[q.wallet] + q.amount \in Int
    BY <1>1, <2>1
  <2> QED
    BY <1>4, <2>1, <2>2, <2>3, <2>4, WalletStep DEF CreditWallet
<1> QED
  BY <1>3, <1>4

\* ensureWallet's INSERT creates the wallet, or ends the handler.
LEMMA InsertWalletStep ==
  ASSUME PayInv, NEW r \in PayReqs, InsertWallet(r)
  PROVE  PayMove(r)
<1> DEFINE q == payReqs[r]
<1>1. /\ q \in PayRequest /\ PayOK(q) /\ invoices \subseteq TripIds
      /\ q.wallet \in WalletIds
  BY DEF PayInv, PayTypeOK, PayOK, InsertWallet
<1>2. CASE wallets[q.wallet] # Null /\ PayEnd(r) /\ UNCHANGED wallets
  BY <1>1, <1>2, IdleIsOK, LocalStep DEF InsertWallet, PayEnd
<1>3. CASE /\ wallets' = [wallets EXCEPT ![q.wallet] = 0] /\ PayEnd(r)
  <2>1. payReqs' = [payReqs EXCEPT ![r] = IdlePay]
    BY <1>3 DEF PayEnd
  <2>2. 0 \in Int /\ UNCHANGED <<trips, payments, invoices>>
    BY DEF InsertWallet
  <2> QED
    BY <1>1, <1>3, <2>1, <2>2, IdleIsOK, WalletStep
<1>4. CASE /\ wallets' = [wallets EXCEPT ![q.wallet] = 0]
           /\ PayGoto(r, "credit.update")
  <2> DEFINE new == [q EXCEPT !.pc = "credit.update"]
  <2>1. new \in PayRequest /\ new.wallet = q.wallet
    BY <1>1 DEF PayRequest, PayPc
  <2>2. payReqs' = [payReqs EXCEPT ![r] = new]
    BY <1>4 DEF PayGoto
  <2>3. new = [payReqs[r] EXCEPT !.pc = "credit.update"]
    OBVIOUS
  <2>4. 0 \in Int /\ UNCHANGED <<trips, payments, invoices>>
    BY DEF InsertWallet
  <2> HIDE DEF new
  <2> QED
    BY <1>1, <1>4, <2>1, <2>2, <2>3, <2>4, WalletStep
<1> QED
  BY <1>2, <1>3, <1>4 DEF InsertWallet

\* updateTripPaid tests no status, and yet finds its trip over.
LEMMA FinalizeTripStep ==
  ASSUME PayInv, TripsTyped, NEW r \in PayReqs, FinalizeTrip(r)
  PROVE  PayMove(r)
<1> DEFINE q == payReqs[r]
<1>1. /\ q \in PayRequest /\ PayOK(q) /\ q.pc = "finalize.trip"
      /\ q.trip \in TripIds /\ trips[q.trip].status \in Settleable
  BY NullIsNoNumber
     DEF PayInv, PayTypeOK, PayOK, FinalizeTrip, PayAt
<1>2. /\ trips' = [trips EXCEPT ![q.trip].status = "paid"]
      /\ UNCHANGED <<payments, wallets, invoices>>
  BY DEF FinalizeTrip, UpdateTripPaid
<1>3. /\ trips'[q.trip].status = "paid"
      /\ \A t \in TripIds : t # q.trip => trips'[t] = trips[t]
  BY <1>1, <1>2 DEF TripsTyped, TripRow
<1>4. SettleableKept
  BY <1>3 DEF SettleableKept, Settleable
<1>5. PICK new \in PayRequest :
        /\ payReqs' = [payReqs EXCEPT ![r] = new]
        /\ new.pc = "finalize.driver" /\ new.trip = q.trip
  BY PayGotoWrites DEF FinalizeTrip, PayPc
<1>6. payReqs'[r] = new /\ PayTypeOK'
  BY <1>2, <1>5 DEF PayInv, PayTypeOK
<1>7. PayOK(payReqs[r])'
  BY <1>1, <1>3, <1>5, <1>6 DEF PayOK, Settleable
<1>8. \A p \in PaymentIds : RowOK(p)'
  BY <1>2, <1>4 DEF PayInv, RowOK, PaymentExists, SettleableKept
<1>9. \A o \in PayReqs : o # r => payReqs'[o] = payReqs[o]
  BY <1>5 DEF PayInv, PayTypeOK
<1>10. RowsKept /\ WalletsKept /\ MarksPaid
  BY <1>1, <1>2 DEF RowsKept, WalletsKept, MarksPaid, PaymentExists
<1> QED
  BY <1>6, <1>7, <1>8, <1>9, <1>10 DEF PayMove

-------------------------------------------------------------------------------
\* Every step of the payment service is one of those above.
LEMMA PayNextMoves ==
  ASSUME PayInv, TripsTyped, PayNext
  PROVE  \E r \in PayReqs : PayMove(r)
<1>1. PICK r \in PayReqs : PayArrival(r) \/ PayStep(r) \/ CrashPay(r)
  BY DEF PayNext
<1>2. CASE PayArrival(r)
  <2>1. CASE \E u \in Passengers, t \in TripIds, method \in Methods :
                ProcessPayment(r, u, t, method)
    BY <2>1, ProcessPaymentStep
  <2>2. CASE \E t \in TripIds : ConfirmExternalPayment(r, t)
    BY <2>2, ConfirmStep
  <2>3. CASE \E u \in Passengers, t \in TripIds : RequestRefund(r, u, t)
    BY <2>3, RequestRefundStep
  <2>4. CASE \/ \E u \in Passengers, amount \in TopUps : TopUp(r, u, amount)
             \/ \E u \in Passengers : GetBalance(r, u)
    BY <2>4, WalletArrivalStep
  <2> QED
    BY <1>2, <2>1, <2>2, <2>3, <2>4 DEF PayArrival
<1>3. CASE PayStep(r) \/ CrashPay(r)
  BY <1>3, CreatePaymentStep, ControlStep, PaymentStatusStep, CreditCallStep,
     BalanceStep, InsertWalletStep, FinalizeTripStep DEF PayStep
<1> QED
  BY <1>1, <1>2, <1>3

\* Marking a trip paid keeps trips that are over, and the table's types.
LEMMA MarksPaidKeeps ==
  ASSUME TripsTyped, MarksPaid
  PROVE  SettleableKept /\ TripsTyped'
<1>1. CASE UNCHANGED trips
  BY <1>1 DEF SettleableKept, TripsTyped
<1>2. ASSUME NEW t \in TripIds, trips' = [trips EXCEPT ![t].status = "paid"]
      PROVE  SettleableKept /\ TripsTyped'
  <2>1. /\ trips' \in [TripIds -> TripRow]
        /\ trips'[t].status = "paid"
        /\ \A u \in TripIds : u # t => trips'[u] = trips[u]
    BY <1>2 DEF TripsTyped, TripRow, TripStatus
  <2> QED
    BY <2>1 DEF SettleableKept, TripsTyped, Settleable
<1> QED
  BY <1>1, <1>2 DEF MarksPaid

\* A step of one handler preserves the inductive invariant.
LEMMA PayInvStep ==
  ASSUME PayInv, TripsTyped, NEW r \in PayReqs, PayMove(r)
  PROVE  PayInv'
<1>1. SettleableKept
  BY MarksPaidKeeps DEF PayMove
<1>2. \A o \in PayReqs : o # r => PayOK(payReqs[o])'
  BY <1>1, PayOKKept DEF PayMove, PayInv, PayTypeOK
<1> QED
  BY <1>2 DEF PayMove, PayInv

\* So does a step of another service that keeps trips that are over.
LEMMA PayInvKept ==
  ASSUME PayInv, SettleableKept, UNCHANGED payVars
  PROVE  PayInv'
<1>1. RowsKept /\ WalletsKept
  BY DEF payVars, RowsKept, WalletsKept, PaymentExists
<1>2. \A r \in PayReqs : PayOK(payReqs[r])'
  BY <1>1, PayOKKept DEF PayInv, PayTypeOK, payVars
<1>3. \A p \in PaymentIds : RowOK(p)'
  BY DEF PayInv, RowOK, PaymentExists, SettleableKept, payVars
<1> QED
  BY <1>2, <1>3 DEF PayInv, PayTypeOK, payVars

\* No payment, no invoice and no handler yet.
LEMMA PayInvInit ==
  ASSUME PayInit
  PROVE  PayInv
<1>1. NoPayment \in PaymentRow /\ NoPayment.status = "none"
        /\ NoPayment.trip = Null
  BY DEF NoPayment, PaymentRow, Charge
<1>2. Opening \in Int \cup {Null}
  BY PaymentServiceAssumption DEF PaymentServiceAssumption
<1>3. PayTypeOK
  BY <1>1, <1>2, IdleIsOK DEF PayInit, PayTypeOK
<1>4. \A r \in PayReqs : PayOK(payReqs[r])
  BY IdleIsOK DEF PayInit
<1>5. \A p \in PaymentIds : RowOK(p)
  BY <1>1 DEF PayInit, RowOK, PaymentExists
<1> QED
  BY <1>3, <1>4, <1>5 DEF PayInv

-------------------------------------------------------------------------------
\* What the completing advance leaves is a row of the table.
LEMMA CompletedTripsTyped ==
  CompletedTrips \subseteq {row \in TripRow : row.status = "completed"}
BY DEF CompletedTrips, TripRow, TripStatus, Price, Charge, Coalesce

\* The inductive invariant of the payment service by itself.
THEOREM PayInvariant == PaySpec => [](PayInv /\ TripsTyped)
<1>1. PaymentInit => PayInv /\ TripsTyped
  <2> SUFFICES ASSUME PaymentInit
               PROVE  TripsTyped
    BY PayInvInit DEF PaymentInit
  <2> QED
    BY CompletedTripsTyped DEF PaymentInit, TripsTyped
<1>2. PayInv /\ TripsTyped /\ [PayNext]_paymentVars => (PayInv /\ TripsTyped)'
  <2> SUFFICES ASSUME PayInv, TripsTyped, [PayNext]_paymentVars
               PROVE  (PayInv /\ TripsTyped)'
    OBVIOUS
  <2>1. CASE PayNext
    <3>1. PICK r \in PayReqs : PayMove(r)
      BY <2>1, PayNextMoves
    <3> QED
      BY <3>1, PayInvStep, MarksPaidKeeps DEF PayMove
  <2>2. CASE UNCHANGED paymentVars
    <3>1. SettleableKept /\ UNCHANGED payVars /\ UNCHANGED trips
      BY <2>2 DEF paymentVars, SettleableKept
    <3> QED
      BY <3>1, PayInvKept DEF TripsTyped
  <2> QED
    BY <2>1, <2>2
<1> QED
  BY <1>1, <1>2, PTL DEF PaySpec

\* Every column, balance and local variable of the payment service keeps its
\* type: no credit or debit ever hits a wallet that is missing, and no handler
\* moves more than a fare, offer or top-up, or another sign than its.
THEOREM PayTypeCorrect == PaySpec => []PayTypeOK
<1>1. PayInv => PayTypeOK
  BY DEF PayInv
<1> QED
  BY <1>1, PayInvariant, PTL
================================================================================
