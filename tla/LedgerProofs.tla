------------------------------ MODULE LedgerProofs ------------------------------
(***************************************************************************)
(* Proofs about the payment service's money, for any number of trips,      *)
(* users, payments and methods.                                            *)
(*                                                                         *)
(* The service's statements do not repeat in their WHERE clauses what a    *)
(* handler tested, so most of its promises rest on nothing coming between  *)
(* the test and the statement: OneAtATime is that assumption, and the runs *)
(* with two requests show that it is needed.  What holds however requests  *)
(* interleave or die is proved without it.                                 *)
(***************************************************************************)
EXTENDS Ledger, PaymentServiceProofs, FiniteSetTheorems

\* At most one slot: a request starts when the one before it has ended.
OneAtATime == \A r, o \in PayReqs : r = o

Taken == {"completed", "refunded"}

\* What a handler has tested, and what still holds when it acts on it.
SerialOK(q) ==
  /\ q.pc \in {"process.provider", "process.fail", "debit.check", "debit.update"}
       => /\ payments[q.payment].status = "processing"
          /\ IsPaymentOf(q.payment, q.trip)
  /\ q.pc = "finalize.payment" => IsPaymentOf(q.payment, q.trip)
  /\ q.pc = "finalize.trip" => /\ q.payment \in PaymentIds
                               /\ payments[q.payment].status = "completed"
                               /\ payments[q.payment].trip = q.trip
  /\ q.pc = "process.insert" => trips[q.trip].status # "paid"
  /\ q.pc = "refund.update" => payments[q.payment].status = "completed"
  /\ q.pc = "debit.update" => wallets[PassengerWallet(q.user)] >= q.amount

\* The rows of the payments table are numbered without a gap.
NoRowMissing ==
  \A p, o \in PaymentIds : PaymentExists(p) /\ o < p => PaymentExists(o)

\* A payment that was taken is the last one of its trip.
TakenIsLast ==
  \A p \in PaymentIds :
    payments[p].status \in Taken => IsPaymentOf(p, payments[p].trip)

\* A trip whose payment was taken is paid, or is being marked so.
TakenIsPaid ==
  \A p \in PaymentIds :
    payments[p].status \in Taken =>
      \/ trips[payments[p].trip].status = "paid"
      \/ \E r \in PayReqs : /\ payReqs[r].pc = "finalize.trip"
                            /\ payReqs[r].trip = payments[p].trip

SerialInv ==
  /\ \A r \in PayReqs : SerialOK(payReqs[r])
  /\ NoRowMissing
  /\ PaidTripHasPayment

\* What does not survive a handler that dies before it marks the trip, nor a
\* ride service that takes a paid trip back to "completed".
TakenInv == TakenIsLast /\ TakenIsPaid

TakenKept == ~PayCrashes /\ TakenInv => TakenInv'

-------------------------------------------------------------------------------
\* What the handler of a PayGoto knows, apart from where it is.
LEMMA PayGotoKeeps ==
  ASSUME PayInv, NEW r \in PayReqs, NEW pc, PayGoto(r, pc)
  PROVE  /\ payReqs'[r].pc = pc
         /\ payReqs'[r].trip = payReqs[r].trip
         /\ payReqs'[r].payment = payReqs[r].payment
         /\ payReqs'[r].user = payReqs[r].user
         /\ payReqs'[r].amount = payReqs[r].amount
BY DEF PayGoto, PayInv, PayTypeOK, PayRequest

\* A handler that ends is idle, one that begins is what it begins as.
LEMMA SlotWrites ==
  ASSUME PayInv, NEW r \in PayReqs
  PROVE  /\ PayEnd(r) => payReqs'[r].pc = "idle"
         /\ \A req : PayBegin(r, req) => payReqs'[r] = req
                                           /\ payReqs[r].pc = "idle"
BY DEF PayEnd, PayBegin, PayAt, IdlePay, PayInv, PayTypeOK

\* At these awaits a handler relies on nothing that SerialOK lists.
LEMMA NothingTested ==
  ASSUME NEW q, q.pc \in {"idle", "finalize.driver", "finalize.publish",
                          "refund.wallet", "balance.insert", "credit.insert",
                          "credit.update"}
  PROVE  SerialOK(q)
BY DEF SerialOK

\* A step that writes neither a payment nor a trip.
LEMMA MoneyStep ==
  ASSUME OneAtATime, SerialInv, NEW r \in PayReqs,
         UNCHANGED <<payments, trips>>, SerialOK(payReqs[r])',
         payReqs[r].pc # "finalize.trip" \/ PayCrashes
  PROVE  SerialInv' /\ TakenKept
<1>1. \A o \in PayReqs : SerialOK(payReqs[o])'
  BY DEF OneAtATime
<1>2. NoRowMissing' /\ PaidTripHasPayment'
  BY DEF SerialInv, NoRowMissing, PaymentExists, PaidTripHasPayment
<1>3. ASSUME ~PayCrashes, TakenInv
      PROVE  TakenInv'
  <2>1. TakenIsLast'
    BY <1>3 DEF TakenInv, TakenIsLast, IsPaymentOf
  <2>2. \A p \in PaymentIds : payments[p].status \in Taken
                                => trips[payments[p].trip].status = "paid"
    BY <1>3 DEF TakenInv, TakenIsPaid, OneAtATime
  <2> QED
    BY <2>1, <2>2 DEF TakenIsPaid, TakenInv
<1> QED
  BY <1>1, <1>2, <1>3 DEF SerialInv, TakenKept

\* A request arrives: what it tests is what it relies on.
LEMMA ArrivalSerial ==
  ASSUME OneAtATime, PayInv, SerialInv, NEW r \in PayReqs, PayArrival(r)
  PROVE  SerialInv' /\ TakenKept
<1>1. UNCHANGED <<payments, trips, wallets>>
  BY DEF PayArrival, ProcessPayment, ConfirmExternalPayment, RequestRefund,
         TopUp, GetBalance
<1>2. payReqs[r].pc = "idle"
  BY DEF PayArrival, ProcessPayment, ConfirmExternalPayment, RequestRefund,
         TopUp, GetBalance, PayBegin, PayAt
<1>3. ASSUME NEW u \in Passengers, NEW t \in TripIds, NEW method \in Methods,
             ProcessPayment(r, u, t, method)
      PROVE  SerialOK(payReqs[r])'
  <2>1. payReqs'[r].pc = "process.insert" /\ payReqs'[r].trip = t
    <3> DEFINE req == [IdlePay EXCEPT !.pc = "process.insert", !.trip = t,
                         !.user = u, !.driver = trips[t].driver,
                         !.amount = FareDue(t), !.method = method]
    <3>1. PayBegin(r, req)
      BY <1>3 DEF ProcessPayment
    <3>2. req.pc = "process.insert" /\ req.trip = t
      BY DEF IdlePay
    <3> HIDE DEF req
    <3> QED
      BY <3>1, <3>2, SlotWrites
  <2>2. trips[t].status # "paid"
    BY <1>3 DEF ProcessPayment, Payable
  <2> QED
    BY <1>1, <2>1, <2>2 DEF SerialOK
<1>4. ASSUME NEW t \in TripIds, ConfirmExternalPayment(r, t)
      PROVE  SerialOK(payReqs[r])'
  <2>1. PICK p \in PaymentIds :
          /\ IsPaymentOf(p, t)
          /\ payReqs'[r].pc = "finalize.payment"
          /\ payReqs'[r].trip = t /\ payReqs'[r].payment = p
    <3>1. PICK p \in PaymentIds :
            /\ IsPaymentOf(p, t)
            /\ PayBegin(r, [IdlePay EXCEPT !.pc = "finalize.payment",
                              !.trip = t, !.payment = p,
                              !.user = payments[p].user,
                              !.driver = trips[t].driver,
                              !.amount = payments[p].amount,
                              !.method = payments[p].method])
      BY <1>4 DEF ConfirmExternalPayment
    <3> DEFINE req == [IdlePay EXCEPT !.pc = "finalize.payment", !.trip = t,
                         !.payment = p, !.user = payments[p].user,
                         !.driver = trips[t].driver,
                         !.amount = payments[p].amount,
                         !.method = payments[p].method]
    <3>2. PayBegin(r, req)
      BY <3>1
    <3>3. req.pc = "finalize.payment" /\ req.trip = t /\ req.payment = p
      BY DEF IdlePay
    <3> HIDE DEF req
    <3> QED
      BY <3>1, <3>2, <3>3, SlotWrites
  <2> QED
    BY <1>1, <2>1 DEF SerialOK, IsPaymentOf
<1>5. ASSUME NEW u \in Passengers, NEW t \in TripIds, RequestRefund(r, u, t)
      PROVE  SerialOK(payReqs[r])'
  <2>1. PICK p \in PaymentIds :
          /\ payments[p].status = "completed"
          /\ payReqs'[r].pc = "refund.update" /\ payReqs'[r].payment = p
    <3>1. PICK p \in PaymentIds :
            /\ payments[p].status = "completed"
            /\ PayBegin(r, [IdlePay EXCEPT !.pc = "refund.update", !.trip = t,
                              !.payment = p, !.user = u,
                              !.amount = payments[p].amount,
                              !.method = payments[p].method])
      BY <1>5 DEF RequestRefund
    <3> DEFINE req == [IdlePay EXCEPT !.pc = "refund.update", !.trip = t,
                         !.payment = p, !.user = u,
                         !.amount = payments[p].amount,
                         !.method = payments[p].method]
    <3>2. PayBegin(r, req)
      BY <3>1
    <3>3. req.pc = "refund.update" /\ req.payment = p
      BY DEF IdlePay
    <3> HIDE DEF req
    <3> QED
      BY <3>1, <3>2, <3>3, SlotWrites
  <2> QED
    BY <1>1, <2>1 DEF SerialOK
<1>6. ASSUME NEW u \in Passengers,
             (\E amount \in TopUps : TopUp(r, u, amount)) \/ GetBalance(r, u)
      PROVE  SerialOK(payReqs[r])'
  <2>1. payReqs'[r].pc \in {"balance.insert", "credit.insert", "credit.update"}
    <3> DEFINE w == PassengerWallet(u)
    <3>1. CASE GetBalance(r, u)
      <4> DEFINE req == [IdlePay EXCEPT !.pc = "balance.insert", !.user = u,
                                        !.wallet = w]
      <4>1. PayBegin(r, req) /\ req.pc = "balance.insert"
        BY <3>1 DEF GetBalance, IdlePay
      <4> HIDE DEF req
      <4> QED
        BY <4>1, SlotWrites
    <3>2. ASSUME NEW amount \in TopUps, TopUp(r, u, amount)
          PROVE  payReqs'[r].pc \in {"credit.insert", "credit.update"}
      <4> DEFINE req == [IdlePay EXCEPT !.pc = CreditPc(w), !.user = u,
                                        !.wallet = w, !.amount = amount]
      <4>1. PayBegin(r, req)
        BY <3>2 DEF TopUp
      <4>2. req.pc = CreditPc(w)
        BY DEF IdlePay
      <4> HIDE DEF req
      <4> QED
        BY <4>1, <4>2, SlotWrites DEF CreditPc
    <3> QED
      BY <1>6, <3>1, <3>2
  <2> QED
    BY <2>1, NothingTested DEF SerialOK
<1>7. SerialOK(payReqs[r])'
  BY <1>3, <1>4, <1>5, <1>6 DEF PayArrival
<1> QED
  BY <1>1, <1>2, <1>7, MoneyStep

\* The steps that only decide where the handler goes on.
LEMMA ControlSerial ==
  ASSUME OneAtATime, PayInv, SerialInv, NEW r \in PayReqs,
         \/ ProviderFails(r) \/ ProviderSettles(r) \/ ProviderInvoices(r)
         \/ CheckBalance(r) \/ CreditDriverEarnings(r) \/ PublishPaid(r)
         \/ CreditRefund(r) \/ CrashPay(r)
  PROVE  SerialInv' /\ TakenKept
<1> DEFINE q == payReqs[r]
<1>1. /\ UNCHANGED <<payments, trips, wallets>>
      /\ q.pc # "finalize.trip" \/ PayCrashes
  BY DEF ProviderFails, ProviderSettles, ProviderInvoices, CheckBalance,
         CreditDriverEarnings, PublishPaid, CreditRefund, CrashPay, PayAt
<1>2. SerialOK(q)
  BY DEF SerialInv
<1>3. CASE ProviderFails(r) \/ ProviderSettles(r)
  <2>1. /\ q.pc = "process.provider"
        /\ payReqs'[r].pc \in {"process.fail", "finalize.payment"}
        /\ payReqs'[r].trip = q.trip /\ payReqs'[r].payment = q.payment
    BY <1>3, PayGotoKeeps DEF ProviderFails, ProviderSettles, PayAt
  <2> QED
    BY <1>1, <1>2, <2>1, MoneyStep DEF SerialOK, IsPaymentOf
<1>4. CASE CheckBalance(r)
  <2>1. /\ q.pc = "debit.check"
        /\ payReqs'[r].pc \in {"process.fail", "debit.update"}
        /\ payReqs'[r].pc = "debit.update"
             => wallets[PassengerWallet(q.user)] >= q.amount
        /\ payReqs'[r].trip = q.trip /\ payReqs'[r].payment = q.payment
        /\ payReqs'[r].user = q.user /\ payReqs'[r].amount = q.amount
    BY <1>4, PayGotoKeeps DEF CheckBalance, EnoughBalance, PayAt
  <2> QED
    BY <1>1, <1>2, <2>1, MoneyStep DEF SerialOK, IsPaymentOf, PassengerWallet
<1>5. CASE ProviderInvoices(r) \/ PublishPaid(r) \/ CrashPay(r)
  <2>1. payReqs'[r].pc = "idle"
    BY <1>5, SlotWrites DEF ProviderInvoices, PublishPaid, CrashPay
  <2> QED
    BY <1>1, <2>1, NothingTested, MoneyStep DEF SerialOK
<1>6. CASE CreditDriverEarnings(r) \/ CreditRefund(r)
  <2>1. payReqs'[r].pc \in {"finalize.publish", "credit.insert", "credit.update"}
    <3>1. CASE CreditRefund(r)
      <4> DEFINE w == PassengerWallet(q.user)
                 new == [q EXCEPT !.pc = CreditPc(w), !.wallet = w]
      <4>1. payReqs' = [payReqs EXCEPT ![r] = new]
        BY <3>1 DEF CreditRefund
      <4>2. new.pc = CreditPc(w)
        BY DEF PayInv, PayTypeOK, PayRequest
      <4> HIDE DEF new
      <4>3. payReqs'[r] = new
        BY <4>1 DEF PayInv, PayTypeOK
      <4> QED
        BY <4>2, <4>3 DEF CreditPc
    <3>2. CASE CreditDriverEarnings(r)
      <4> DEFINE w == EarningsWallet(q.driver)
                 done == [q EXCEPT !.pc = "finalize.publish"]
                 credit == [q EXCEPT !.pc = CreditPc(w), !.wallet = w,
                              !.amount = Net(@), !.next = "finalize.publish"]
                 new == IF q.driver = Null THEN done ELSE credit
      <4>1. payReqs' = [payReqs EXCEPT ![r] = new]
        BY <3>2 DEF CreditDriverEarnings
      <4>2. done.pc = "finalize.publish" /\ credit.pc = CreditPc(w)
        BY DEF PayInv, PayTypeOK, PayRequest
      <4> HIDE DEF done, credit
      <4>3. new.pc \in {"finalize.publish", CreditPc(w)}
        BY <4>2
      <4> HIDE DEF new
      <4>4. payReqs'[r] = new
        BY <4>1 DEF PayInv, PayTypeOK
      <4> QED
        BY <4>3, <4>4 DEF CreditPc
    <3> QED
      BY <1>6, <3>1, <3>2
  <2> QED
    BY <1>1, <2>1, NothingTested, MoneyStep DEF SerialOK
<1> QED
  BY <1>3, <1>4, <1>5, <1>6

\* The steps that write a wallet.
LEMMA WalletSerial ==
  ASSUME OneAtATime, PayInv, SerialInv, NEW r \in PayReqs,
         DebitWallet(r) \/ InsertWallet(r) \/ CreditWallet(r)
  PROVE  SerialInv' /\ TakenKept
<1> DEFINE q == payReqs[r]
<1>1. /\ UNCHANGED <<payments, trips>>
      /\ q.pc # "finalize.trip" \/ PayCrashes
      /\ SerialOK(q) /\ PayOK(q) /\ q \in PayRequest
  BY DEF DebitWallet, InsertWallet, CreditWallet, PayAt, SerialInv, PayInv,
         PayTypeOK
<1>2. CASE DebitWallet(r)
  <2>1. q.pc = "debit.update"
    BY <1>2 DEF DebitWallet, PayAt
  <2>2. /\ payReqs'[r].pc = "finalize.payment"
        /\ payReqs'[r].trip = q.trip /\ payReqs'[r].payment = q.payment
    BY <1>2, PayGotoKeeps DEF DebitWallet
  <2>3. SerialOK(payReqs[r])'
    BY <1>1, <2>1, <2>2 DEF SerialOK, IsPaymentOf
  <2> QED
    BY <1>1, <2>3, MoneyStep
<1>3. CASE InsertWallet(r) \/ CreditWallet(r)
  <2>1. q.next \in {"idle", "finalize.publish"}
    BY <1>1 DEF PayRequest
  <2>2. payReqs'[r].pc \in {"idle", "credit.update", "finalize.publish"}
    BY <1>3, <2>1, PayGotoKeeps, SlotWrites DEF InsertWallet, CreditWallet
  <2>3. SerialOK(payReqs[r])'
    BY <2>2, NothingTested DEF SerialOK
  <2> QED
    BY <1>1, <2>3, MoneyStep
<1> QED
  BY <1>2, <1>3

-------------------------------------------------------------------------------
\* The new row is the last of the table, and its trip's only live payment.
LEMMA CreateSerial ==
  ASSUME OneAtATime, PayInv, SerialInv, NEW r \in PayReqs, CreatePayment(r)
  PROVE  SerialInv' /\ TakenKept
<1> DEFINE q == payReqs[r]
<1>1. PICK p \in PaymentIds :
        /\ InsertPayment(p, q.trip, q.user, q.amount, q.method)
        /\ payReqs' = [payReqs EXCEPT ![r] =
                         [@ EXCEPT !.pc = AfterInsert(q.method), !.payment = p]]
  BY DEF CreatePayment
<1>2. /\ q.pc = "process.insert" /\ UNCHANGED <<trips, wallets>>
      /\ SerialOK(q) /\ PayOK(q) /\ q \in PayRequest /\ q.trip \in TripIds
      /\ trips[q.trip].status # "paid"
  BY DEF CreatePayment, PayAt, SerialInv, PayInv, PayTypeOK, PayOK, SerialOK
<1>3. /\ payments'[p].status = "processing" /\ payments'[p].trip = q.trip
      /\ ~PaymentExists(p)
      /\ \A o \in PaymentIds : o < p => PaymentExists(o)
      /\ \A o \in PaymentIds : o # p => payments'[o] = payments[o]
  <2> DEFINE row == [status |-> "processing", trip |-> q.trip, user |-> q.user,
                     amount |-> q.amount, method |-> q.method]
  <2>1. /\ payments' = [payments EXCEPT ![p] = row]
        /\ ~PaymentExists(p)
        /\ \A o \in PaymentIds : o < p => PaymentExists(o)
    BY <1>1 DEF InsertPayment
  <2>2. row.status = "processing" /\ row.trip = q.trip
    OBVIOUS
  <2> HIDE DEF row
  <2> QED
    BY <2>1, <2>2 DEF PayInv, PayTypeOK
<1>4. PaymentIds \subseteq Nat
  BY DEF PaymentIds
<1>5. \A o \in PaymentIds : PaymentExists(o) => o < p
  <2> SUFFICES ASSUME NEW o \in PaymentIds, PaymentExists(o), ~(o < p)
               PROVE  FALSE
    OBVIOUS
  <2>1. o = p \/ p < o
    BY <1>4
  <2>2. PaymentExists(p)
    BY <2>1 DEF SerialInv, NoRowMissing
  <2> QED
    BY <1>3, <2>2
<1>6. \A o \in PaymentIds : payments[o].trip = q.trip => o < p
  <2>1. q.trip # Null
    BY <1>2, NullIsNoNumber
  <2> QED
    BY <1>5, <2>1 DEF PayInv, RowOK
<1>7. IsPaymentOf(p, q.trip)'
  <2> SUFFICES /\ payments'[p].trip = payReqs'[r].trip
               /\ \A o \in PaymentIds :
                    payments'[o].trip = payReqs'[r].trip => o <= p
               /\ payReqs'[r].trip = q.trip
    BY DEF IsPaymentOf
  <2>1. payReqs'[r].trip = q.trip
    BY <1>1, <1>2 DEF PayInv, PayTypeOK, PayRequest
  <2>2. ASSUME NEW o \in PaymentIds, payments'[o].trip = q.trip
        PROVE  o <= p
    <3>1. o = p \/ payments[o].trip = q.trip
      BY <1>3, <2>2
    <3>2. o = p \/ o < p
      BY <1>6, <3>1
    <3> QED
      BY <1>4, <3>2
  <2> QED
    BY <1>3, <2>1, <2>2
<1>8. SerialOK(payReqs[r])'
  <2>1. payReqs'[r].pc = AfterInsert(q.method) /\ payReqs'[r].payment = p
          /\ payReqs'[r].trip = q.trip
    BY <1>1 DEF PayInv, PayTypeOK, PayRequest
  <2>2. AfterInsert(q.method) \in {"finalize.payment", "debit.check",
                                   "process.provider"}
    BY DEF AfterInsert
  <2> QED
    BY <1>3, <1>7, <2>1, <2>2 DEF SerialOK, IsPaymentOf
<1>9. NoRowMissing'
  BY <1>3, <1>4, <1>5 DEF NoRowMissing, SerialInv, PaymentExists
<1>10. PaidTripHasPayment'
  BY <1>2, <1>3 DEF SerialInv, PaidTripHasPayment, PaymentExists
<1>11. ASSUME ~PayCrashes, TakenInv
       PROVE  TakenInv'
  <2>1. \A o \in PaymentIds : payments[o].status \in Taken
           => payments[o].trip # q.trip
                /\ trips[payments[o].trip].status = "paid"
    BY <1>2, <1>11 DEF TakenInv, TakenIsPaid, OneAtATime
  <2>2. \A o \in PaymentIds : payments'[o].status \in Taken
           => /\ o # p /\ payments'[o] = payments[o]
              /\ payments[o].status \in Taken
    BY <1>3 DEF Taken
  <2>3. TakenIsPaid'
    BY <1>2, <2>1, <2>2 DEF TakenIsPaid
  <2>4. TakenIsLast'
    <3> SUFFICES ASSUME NEW o \in PaymentIds, payments'[o].status \in Taken,
                        NEW x \in PaymentIds,
                        payments'[x].trip = payments'[o].trip
                 PROVE  x <= o
      BY DEF TakenIsLast, IsPaymentOf
    <3>1. x # p
      BY <1>3, <2>1, <2>2
    <3>2. payments[x].trip = payments[o].trip
      BY <1>3, <2>2, <3>1
    <3> QED
      BY <1>11, <2>2, <3>2 DEF TakenInv, TakenIsLast, IsPaymentOf
  <2> QED
    BY <2>3, <2>4 DEF TakenInv
<1>12. \A o \in PayReqs : SerialOK(payReqs[o])'
  BY <1>8 DEF OneAtATime
<1> QED
  BY <1>9, <1>10, <1>11, <1>12 DEF SerialInv, TakenKept

\* The status of a payment changes, to one of the two that settle its trip
\* only if it is the last payment of a trip that is paid or about to be.
LEMMA StatusSerial ==
  ASSUME OneAtATime, PayInv, SerialInv, NEW r \in PayReqs,
         NEW p \in PaymentIds, NEW s \in PaymentStatus, PaymentExists(p),
         SetPaymentStatus(p, s), UNCHANGED <<trips, wallets>>,
         SerialOK(payReqs[r])', payReqs[r].pc # "finalize.trip",
         s \in Taken \/ payments[p].status \notin Taken,
         ~PayCrashes /\ TakenInv /\ s \in Taken =>
           /\ IsPaymentOf(p, payments[p].trip)
           /\ \/ trips[payments[p].trip].status = "paid"
              \/ /\ payReqs'[r].pc = "finalize.trip"
                 /\ payReqs'[r].trip = payments[p].trip
  PROVE  SerialInv' /\ TakenKept
<1>1. /\ payments'[p].status = s /\ payments'[p].trip = payments[p].trip
      /\ \A o \in PaymentIds : o # p => payments'[o] = payments[o]
      /\ \A o \in PaymentIds : payments'[o].trip = payments[o].trip
  <2>1. /\ payments'[p].status = s /\ payments'[p].trip = payments[p].trip
        /\ \A o \in PaymentIds : o # p => payments'[o] = payments[o]
    BY DEF SetPaymentStatus, PayInv, PayTypeOK, PaymentRow
  <2> QED
    BY <2>1
<1>2. \A o \in PayReqs : SerialOK(payReqs[o])'
  BY DEF OneAtATime
<1>3. NoRowMissing'
  BY <1>1 DEF SerialInv, NoRowMissing, PaymentExists, PaymentStatus
<1>4. PaidTripHasPayment'
  <2> SUFFICES ASSUME NEW t \in TripIds, trips[t].status = "paid"
               PROVE  \E o \in PaymentIds : /\ payments'[o].trip = t
                                            /\ payments'[o].status \in Taken
    BY DEF PaidTripHasPayment, Taken
  <2>1. PICK o \in PaymentIds : /\ payments[o].trip = t
                                /\ payments[o].status \in Taken
    BY DEF SerialInv, PaidTripHasPayment, Taken
  <2> QED
    BY <1>1, <2>1
<1>5. ASSUME ~PayCrashes, TakenInv
      PROVE  TakenInv'
  <2>1. TakenIsLast'
    <3> SUFFICES ASSUME NEW o \in PaymentIds, payments'[o].status \in Taken
                 PROVE  \A x \in PaymentIds :
                          payments'[x].trip = payments'[o].trip => x <= o
      BY DEF TakenIsLast, IsPaymentOf
    <3>1. IsPaymentOf(o, payments[o].trip)
      BY <1>1, <1>5 DEF TakenInv, TakenIsLast
    <3> QED
      BY <1>1, <3>1 DEF IsPaymentOf
  <2>2. TakenIsPaid'
    <3> SUFFICES ASSUME NEW o \in PaymentIds, payments'[o].status \in Taken
                 PROVE  \/ trips[payments'[o].trip].status = "paid"
                        \/ \E x \in PayReqs :
                             /\ payReqs'[x].pc = "finalize.trip"
                             /\ payReqs'[x].trip = payments'[o].trip
      BY DEF TakenIsPaid
    <3>1. CASE o = p
      BY <1>1, <1>5, <3>1
    <3>2. CASE o # p
      BY <1>1, <1>5, <3>2 DEF TakenInv, TakenIsPaid, OneAtATime
    <3> QED
      BY <3>1, <3>2
  <2> QED
    BY <2>1, <2>2 DEF TakenInv
<1> QED
  BY <1>2, <1>3, <1>4, <1>5 DEF SerialInv, TakenKept

\* The three steps that change it.
LEMMA PaymentStatusSerial ==
  ASSUME OneAtATime, PayInv, SerialInv, NEW r \in PayReqs,
         FailProcess(r) \/ FinalizePayment(r) \/ CommitRefund(r)
  PROVE  SerialInv' /\ TakenKept
<1> DEFINE q == payReqs[r]
           p == q.payment
<1>1. /\ UNCHANGED <<trips, wallets>> /\ q.pc # "finalize.trip"
      /\ SerialOK(q) /\ PayOK(q) /\ p \in PaymentIds /\ PaymentExists(p)
  BY DEF FailProcess, FinalizePayment, CommitRefund, PayAt, SerialInv, PayInv,
         PayOK
<1>2. CASE FailProcess(r)
  <2>1. /\ payments[p].status \notin Taken /\ SetPaymentStatus(p, "failed")
        /\ payReqs'[r].pc = "idle"
    BY <1>1, <1>2, SlotWrites DEF FailProcess, FailPayment, PayAt, SerialOK, Taken
  <2>2. SerialOK(payReqs[r])'
    BY <2>1, NothingTested DEF SerialOK
  <2>3. "failed" \in PaymentStatus /\ "failed" \notin Taken
    BY DEF PaymentStatus, Taken
  <2> QED
    BY <1>1, <2>1, <2>2, <2>3, StatusSerial
<1>3. CASE FinalizePayment(r)
  <2>1. /\ IsPaymentOf(p, q.trip) /\ SetPaymentStatus(p, "completed")
        /\ payReqs'[r].pc = "finalize.trip" /\ payReqs'[r].trip = q.trip
        /\ payReqs'[r].payment = p
    BY <1>1, <1>3, PayGotoKeeps
       DEF FinalizePayment, CompletePayment, PayAt, SerialOK
  <2>2. payments[p].trip = q.trip
    BY <2>1 DEF IsPaymentOf
  <2>3. payments'[p].status = "completed" /\ payments'[p].trip = q.trip
    BY <1>1, <2>1, <2>2 DEF SetPaymentStatus, PayInv, PayTypeOK, PaymentRow
  <2>4. SerialOK(payReqs[r])'
    BY <1>1, <2>1, <2>3 DEF SerialOK
  <2>5. "completed" \in PaymentStatus /\ "completed" \in Taken
    BY DEF PaymentStatus, Taken
  <2> QED
    BY <1>1, <2>1, <2>2, <2>4, <2>5, StatusSerial
<1>4. CASE CommitRefund(r)
  <2>1. /\ payments[p].status = "completed" /\ SetPaymentStatus(p, "refunded")
        /\ payReqs'[r].pc \in {"idle", "refund.wallet"}
    BY <1>1, <1>4, SlotWrites, PayGotoKeeps
       DEF CommitRefund, RefundPayment, PayAt, SerialOK
  <2>2. SerialOK(payReqs[r])'
    BY <2>1, NothingTested DEF SerialOK
  <2>3. /\ "refunded" \in PaymentStatus /\ "refunded" \in Taken
        /\ payments[p].status \in Taken
    BY <2>1 DEF PaymentStatus, Taken
  <2>4. ~PayCrashes /\ TakenInv => /\ IsPaymentOf(p, payments[p].trip)
                       /\ trips[payments[p].trip].status = "paid"
    BY <1>1, <2>3 DEF TakenInv, TakenIsLast, TakenIsPaid, OneAtATime
  <2> QED
    BY <1>1, <2>1, <2>2, <2>3, <2>4, StatusSerial
<1> QED
  BY <1>2, <1>3, <1>4

\* The trip of the payment that was just completed is marked.
LEMMA FinalizeTripSerial ==
  ASSUME OneAtATime, PayInv, TripsTyped, SerialInv, NEW r \in PayReqs,
         FinalizeTrip(r)
  PROVE  SerialInv' /\ TakenKept
<1> DEFINE q == payReqs[r]
           t == q.trip
<1>1. /\ q.pc = "finalize.trip" /\ UNCHANGED <<payments, wallets>>
      /\ SerialOK(q) /\ PayOK(q) /\ t \in TripIds
      /\ trips' = [trips EXCEPT ![t].status = "paid"]
  BY DEF FinalizeTrip, UpdateTripPaid, PayAt, SerialInv, PayInv, PayOK
<1>2. /\ trips'[t].status = "paid"
      /\ \A u \in TripIds : u # t => trips'[u] = trips[u]
  BY <1>1 DEF TripsTyped, TripRow
<1>3. payReqs'[r].pc = "finalize.driver"
  BY PayGotoKeeps DEF FinalizeTrip
<1>4. \A o \in PayReqs : SerialOK(payReqs[o])'
  BY <1>3, NothingTested DEF SerialOK, OneAtATime
<1>5. NoRowMissing'
  BY <1>1 DEF SerialInv, NoRowMissing, PaymentExists
<1>6. PaidTripHasPayment'
  <2> SUFFICES ASSUME NEW u \in TripIds, trips'[u].status = "paid"
               PROVE  \E p \in PaymentIds :
                        /\ payments[p].trip = u
                        /\ payments[p].status \in {"completed", "refunded"}
    BY <1>1 DEF PaidTripHasPayment
  <2>1. CASE u = t
    BY <1>1, <2>1 DEF SerialOK
  <2>2. CASE u # t
    BY <1>2, <2>2 DEF SerialInv, PaidTripHasPayment
  <2> QED
    BY <2>1, <2>2
<1>7. ASSUME ~PayCrashes, TakenInv
      PROVE  TakenInv'
  <2>1. TakenIsLast'
    BY <1>1, <1>7 DEF TakenInv, TakenIsLast, IsPaymentOf
  <2>2. TakenIsPaid'
    <3> SUFFICES ASSUME NEW p \in PaymentIds, payments[p].status \in Taken
                 PROVE  trips'[payments[p].trip].status = "paid"
      BY <1>1 DEF TakenIsPaid
    <3>1. payments[p].trip \in TripIds
      BY DEF PayInv, RowOK, PaymentExists, Taken
    <3>2. payments[p].trip = t \/ trips[payments[p].trip].status = "paid"
      BY <1>7 DEF TakenInv, TakenIsPaid, OneAtATime
    <3> QED
      BY <1>2, <3>1, <3>2
  <2> QED
    BY <2>1, <2>2 DEF TakenInv
<1> QED
  BY <1>4, <1>5, <1>6, <1>7 DEF SerialInv, TakenKept

-------------------------------------------------------------------------------
LEMMA PayNextSerial ==
  ASSUME OneAtATime, PayInv, TripsTyped, SerialInv, PayNext
  PROVE  SerialInv' /\ TakenKept
<1>1. PICK r \in PayReqs : PayArrival(r) \/ PayStep(r) \/ CrashPay(r)
  BY DEF PayNext
<1> QED
  BY <1>1, ArrivalSerial, ControlSerial, WalletSerial, CreateSerial,
     PaymentStatusSerial, FinalizeTripSerial DEF PayStep

\* No trip is paid and nothing was taken.
LEMMA SerialInvInit ==
  ASSUME PayInit, \A t \in TripIds : trips[t].status # "paid"
  PROVE  SerialInv /\ TakenInv
<1>1. /\ \A r \in PayReqs : payReqs[r].pc = "idle"
      /\ \A p \in PaymentIds : payments[p].status = "none"
  BY DEF PayInit, IdlePay, NoPayment
<1>2. \A r \in PayReqs : SerialOK(payReqs[r])
  BY <1>1, NothingTested
<1>3. NoRowMissing /\ TakenInv
  BY <1>1 DEF NoRowMissing, TakenInv, TakenIsLast, TakenIsPaid, PaymentExists,
     Taken
<1>4. PaidTripHasPayment
  BY DEF PaidTripHasPayment
<1> QED
  BY <1>2, <1>3, <1>4 DEF SerialInv

LEMMA NothingPaid ==
  ASSUME PaymentInit
  PROVE  PayInit /\ \A t \in TripIds : trips[t].status # "paid"
<1>1. \A row \in CompletedTrips : row.status = "completed"
  BY DEF CompletedTrips
<1> QED
  BY <1>1 DEF PaymentInit

\* The inductive invariant of the service that does one thing at a time.
THEOREM SerialInvariant ==
  ASSUME OneAtATime
  PROVE  PaySpec => []SerialInv
<1>1. PaymentInit => SerialInv
  BY NothingPaid, SerialInvInit
<1>2. PayInv /\ TripsTyped /\ SerialInv /\ [PayNext]_paymentVars => SerialInv'
  BY PayNextSerial DEF paymentVars, payVars, SerialInv, SerialOK, NoRowMissing,
     PaidTripHasPayment, IsPaymentOf, PaymentExists
<1> QED
  BY <1>1, <1>2, PayInvariant, PTL DEF PaySpec

\* What is added to it while no handler dies.
LEMMA TakenInvariant ==
  ASSUME OneAtATime, ~PayCrashes
  PROVE  PaySpec => []TakenInv
<1>1. PaymentInit => TakenInv
  BY NothingPaid, SerialInvInit
<1>2. /\ PayInv /\ TripsTyped /\ SerialInv /\ TakenInv /\ [PayNext]_paymentVars
      => TakenInv'
  BY PayNextSerial
     DEF paymentVars, payVars, TakenKept, TakenInv, TakenIsLast, TakenIsPaid,
         IsPaymentOf
<1> QED
  BY <1>1, <1>2, SerialInvariant, PayInvariant, PTL DEF PaySpec

\* While requests do not overlap, a paid trip has the payment that paid it,
\* whichever provider answers late, again, or never.
THEOREM SerialPaidHasPayment ==
  ASSUME OneAtATime
  PROVE  PaySpec => []PaidTripHasPayment
<1>1. SerialInv => PaidTripHasPayment
  BY DEF SerialInv
<1> QED
  BY <1>1, SerialInvariant, PTL

\* While requests do not overlap and no handler dies between completing a
\* payment and marking its trip, no trip is charged twice.
THEOREM SerialChargedOnce ==
  ASSUME OneAtATime, ~PayCrashes
  PROVE  PaySpec => []ChargedOnce
<1>1. TakenInv => ChargedOnce
  <2> SUFFICES ASSUME TakenInv, NEW t \in TripIds
               PROVE  Cardinality({p \in PaymentIds :
                                     /\ payments[p].trip = t
                                     /\ payments[p].status = "completed"}) <= 1
    BY DEF ChargedOnce
  <2> DEFINE S == {p \in PaymentIds : /\ payments[p].trip = t
                                      /\ payments[p].status = "completed"}
  <2>1. \A p, o \in S : p = o
    <3> SUFFICES ASSUME NEW p \in S, NEW o \in S
                 PROVE  p = o
      OBVIOUS
    <3>1. IsPaymentOf(p, t) /\ IsPaymentOf(o, t)
      BY DEF TakenInv, TakenIsLast, Taken
    <3>2. p \in Nat /\ o \in Nat
      BY DEF PaymentIds
    <3> QED
      BY <3>1, <3>2 DEF IsPaymentOf
  <2> HIDE DEF S
  <2>2. Cardinality(S) <= 1
    <3>1. CASE S = {}
      BY <3>1, FS_EmptySet
    <3>2. CASE S # {}
      <4>1. PICK p : S = {p}
        BY <2>1, <3>2
      <4>2. Cardinality(S) = 1
        BY <4>1, FS_Singleton
      <4> QED
        BY <4>2
    <3> QED
      BY <3>1, <3>2
  <2> QED
    BY <2>2 DEF S
<1> QED
  BY <1>1, TakenInvariant, PTL

-------------------------------------------------------------------------------
(***************************************************************************)
(* Sums.  Total is a fold over a set, a CHOOSE of a recursive function;    *)
(* that the strict subsets of a finite set are well-founded gives what a   *)
(* ledger needs of it: one row counts for what it holds.                   *)
(***************************************************************************)
Pick(s) == CHOOSE x \in s : TRUE

\* g is the fold that sums f over the subsets of S.
Iterates(g, f, S) ==
  g = [s \in SUBSET S |-> IF s = {} THEN 0 ELSE f[Pick(s)] + g[s \ {Pick(s)}]]

LEMMA TotalIs ==
  ASSUME NEW f, NEW S
  PROVE  Total(f, S) = (CHOOSE g : Iterates(g, f, S))[S]
BY DEF Total, MapThenSumSet, MapThenFoldSet, Iterates, Pick

\* A family of subsets of a finite set has a minimal member.
LEMMA Smallest ==
  ASSUME NEW S, IsFiniteSet(S), NEW T \in SUBSET SUBSET S, T # {}
  PROVE  \E s \in T : \A t \in T : ~(t \subseteq s /\ t # s)
<1>1. T \subseteq FiniteSubsetsOf(S)
  BY FS_Subset DEF FiniteSubsetsOf
<1>2. IsWellFoundedOn(StrictSubsetOrdering(S), FiniteSubsetsOf(S))
  BY FS_StrictSubsetOrderingWellFounded
<1>3. \E s \in T : \A t \in T : <<t, s>> \notin StrictSubsetOrdering(S)
  BY <1>1, <1>2, WFMin
<1> QED
  BY <1>3 DEF StrictSubsetOrdering

\* Induction over the subsets of a finite set: what holds for a set whenever
\* it holds for the smaller ones holds for all of them.
LEMMA SubsetInduction ==
  ASSUME NEW S, IsFiniteSet(S), NEW Good,
         \A s \in SUBSET S :
           (\A t \in SUBSET s : t # s => t \in Good) => s \in Good
  PROVE  \A s \in SUBSET S : s \in Good
<1> DEFINE Bad == {s \in SUBSET S : s \notin Good}
<1> SUFFICES ASSUME Bad # {}
             PROVE  FALSE
  OBVIOUS
<1>1. Bad \in SUBSET SUBSET S
  OBVIOUS
<1>2. \E s \in Bad : \A t \in Bad : ~(t \subseteq s /\ t # s)
  <2> HIDE DEF Bad
  <2> QED
    BY <1>1, Smallest
<1> QED
  BY <1>2

\* What a fold is at one set.
LEMMA Unfold ==
  ASSUME NEW f, NEW S, NEW g, Iterates(g, f, S), NEW s \in SUBSET S
  PROVE  /\ s = {} => g[s] = 0
         /\ s # {} => /\ Pick(s) \in s
                      /\ g[s] = f[Pick(s)] + g[s \ {Pick(s)}]
<1>1. g[s] = IF s = {} THEN 0 ELSE f[Pick(s)] + g[s \ {Pick(s)}]
  BY DEF Iterates
<1>2. s # {} => Pick(s) \in s
  BY DEF Pick
<1> QED
  BY <1>1, <1>2

\* Two folds agree where their summands do.
LEMMA Agree ==
  ASSUME NEW S, IsFiniteSet(S), NEW T \in SUBSET S, NEW f, NEW e, NEW g, NEW h,
         Iterates(g, f, S), Iterates(h, e, T), \A x \in T : f[x] = e[x]
  PROVE  \A s \in SUBSET T : g[s] = h[s]
<1> DEFINE Good == {s \in SUBSET T : g[s] = h[s]}
<1>1. ASSUME NEW s \in SUBSET T, \A t \in SUBSET s : t # s => t \in Good
      PROVE  s \in Good
  <2> s \in SUBSET S
    OBVIOUS
  <2>1. /\ s = {} => g[s] = 0
        /\ s # {} => /\ Pick(s) \in s
                     /\ g[s] = f[Pick(s)] + g[s \ {Pick(s)}]
    BY Unfold
  <2>2. /\ s = {} => h[s] = 0
        /\ s # {} => /\ Pick(s) \in s
                     /\ h[s] = e[Pick(s)] + h[s \ {Pick(s)}]
    BY Unfold
  <2>3. s # {} => g[s \ {Pick(s)}] = h[s \ {Pick(s)}]
    BY <1>1, <2>1
  <2>4. g[s] = h[s]
    BY <2>1, <2>2, <2>3
  <2> QED
    BY <2>4
<1>2. \A s \in SUBSET T : s \in Good
  <2> HIDE DEF Good
  <2> QED
    BY <1>1, FS_Subset, SubsetInduction
<1> QED
  BY <1>2

\* The fold exists, by joining those of the smaller sets.
LEMMA FoldExists ==
  ASSUME NEW S, IsFiniteSet(S), NEW f
  PROVE  \E g : Iterates(g, f, S)
<1> DEFINE Good == {s \in SUBSET S : \E g : Iterates(g, f, s)}
           H(t) == CHOOSE g : Iterates(g, f, t)
<1>1. ASSUME NEW u \in SUBSET S, \A t \in SUBSET u : t # u => t \in Good
      PROVE  u \in Good
  <2> DEFINE G == [s \in SUBSET u |-> IF s = {} THEN 0
                     ELSE f[Pick(s)] + H(s \ {Pick(s)})[s \ {Pick(s)}]]
  <2>1. ASSUME NEW t \in SUBSET u, t # u
        PROVE  Iterates(H(t), f, t)
    <3>1. \E g : Iterates(g, f, t)
      BY <1>1, <2>1
    <3> QED
      BY <3>1, Zenon
  <2>2. ASSUME NEW t \in SUBSET u, t # u
        PROVE  G[t] = H(t)[t]
    <3> HIDE DEF H
    <3>1. /\ t = {} => H(t)[t] = 0
          /\ t # {} => /\ Pick(t) \in t
                       /\ H(t)[t] = f[Pick(t)] + H(t)[t \ {Pick(t)}]
      <4>1. Iterates(H(t), f, t) /\ t \in SUBSET t
        BY <2>1, <2>2
      <4> QED
        BY <4>1, Unfold
    <3>2. CASE t = {}
      BY <3>1, <3>2
    <3>3. CASE t # {}
      <4> DEFINE v == t \ {Pick(t)}
      <4>1. v \in SUBSET u /\ v # u /\ v \in SUBSET t
        BY <2>2
      <4>2. IsFiniteSet(t) /\ Iterates(H(v), f, v) /\ Iterates(H(t), f, t)
        BY <2>1, <2>2, <4>1, FS_Subset
      <4>3. H(t)[v] = H(v)[v]
        <5> HIDE DEF v
        <5> QED
          BY <4>1, <4>2, Agree
      <4>4. G[t] = f[Pick(t)] + H(v)[v]
        BY <3>3
      <4> QED
        BY <3>1, <3>3, <4>3, <4>4
    <3> QED
      BY <3>2, <3>3
  <2>3. ASSUME NEW s \in SUBSET u, s # {}
        PROVE  G[s] = f[Pick(s)] + G[s \ {Pick(s)}]
    <3> DEFINE v == s \ {Pick(s)}
    <3>1. v \in SUBSET u /\ v # u
      BY <2>3 DEF Pick
    <3>2. G[v] = H(v)[v]
      <4> HIDE DEF v, G, H
      <4> QED
        BY <2>2, <3>1
    <3>3. G[s] = f[Pick(s)] + H(v)[v]
      BY <2>3
    <3> HIDE DEF G, H
    <3> QED
      BY <3>2, <3>3
  <2>4. /\ G = [s \in SUBSET u |-> G[s]]
        /\ {} \in SUBSET u => G[{}] = 0
    OBVIOUS
  <2> HIDE DEF G
  <2>5. Iterates(G, f, u)
    BY <2>3, <2>4 DEF Iterates
  <2> QED
    BY <2>5
<1>2. \A s \in SUBSET S : s \in Good
  <2> HIDE DEF Good
  <2> QED
    BY <1>1, SubsetInduction
<1> QED
  BY <1>2

\* Total is one such fold.
LEMMA TotalFold ==
  ASSUME NEW S, IsFiniteSet(S), NEW f
  PROVE  \E g : Iterates(g, f, S) /\ \A T \in SUBSET S : Total(f, T) = g[T]
<1> DEFINE H(t) == CHOOSE g : Iterates(g, f, t)
<1>1. \A T \in SUBSET S : Iterates(H(T), f, T)
  BY FoldExists, FS_Subset
<1>2. \A T \in SUBSET S : Total(f, T) = H(T)[T]
  BY TotalIs
<1> HIDE DEF H
<1>3. Iterates(H(S), f, S)
  BY <1>1
<1>4. ASSUME NEW T \in SUBSET S
      PROVE  H(S)[T] = H(T)[T]
  <2>1. Iterates(H(T), f, T) /\ T \in SUBSET T /\ (\A x \in T : f[x] = f[x])
    BY <1>1
  <2> QED
    BY <1>3, <2>1, Agree
<1> QED
  BY <1>2, <1>3, <1>4

LEMMA TotalEmpty == \A f : Total(f, {}) = 0
<1> SUFFICES ASSUME NEW f
             PROVE  Total(f, {}) = 0
  OBVIOUS
<1>1. PICK g : Iterates(g, f, {}) /\ \A T \in SUBSET {} : Total(f, T) = g[T]
  BY TotalFold, FS_EmptySet
<1>2. {} \in SUBSET {} /\ {} = {}
  OBVIOUS
<1> QED
  BY <1>1, <1>2, Unfold

LEMMA TotalStep ==
  ASSUME NEW S, IsFiniteSet(S), NEW f, S # {}
  PROVE  /\ Pick(S) \in S
         /\ Total(f, S) = f[Pick(S)] + Total(f, S \ {Pick(S)})
<1>1. PICK g : Iterates(g, f, S) /\ \A T \in SUBSET S : Total(f, T) = g[T]
  BY TotalFold
<1>2. S \in SUBSET S /\ S \ {Pick(S)} \in SUBSET S
  OBVIOUS
<1>3. /\ Pick(S) \in S
      /\ g[S] = f[Pick(S)] + g[S \ {Pick(S)}]
  BY <1>1, <1>2, Unfold
<1> QED
  BY <1>1, <1>2, <1>3

\* A sum depends only on the summands of its set.
LEMMA TotalSame ==
  ASSUME NEW S, IsFiniteSet(S), NEW f, NEW e, \A x \in S : f[x] = e[x]
  PROVE  Total(f, S) = Total(e, S)
<1>1. PICK g : Iterates(g, f, S) /\ \A T \in SUBSET S : Total(f, T) = g[T]
  BY TotalFold
<1>2. PICK h : Iterates(h, e, S) /\ \A T \in SUBSET S : Total(e, T) = h[T]
  BY TotalFold
<1>3. S \in SUBSET S
  OBVIOUS
<1>4. \A s \in SUBSET S : g[s] = h[s]
  <2>1. Iterates(g, f, S) /\ Iterates(h, e, S)
    BY <1>1, <1>2
  <2> QED
    BY <1>3, <2>1, Agree
<1> QED
  BY <1>1, <1>2, <1>3, <1>4

LEMMA TotalType ==
  ASSUME NEW S, IsFiniteSet(S), NEW f, \A x \in S : f[x] \in Int
  PROVE  Total(f, S) \in Int
<1> DEFINE Good == {s \in SUBSET S : Total(f, s) \in Int}
<1>1. ASSUME NEW s \in SUBSET S, \A t \in SUBSET s : t # s => t \in Good
      PROVE  s \in Good
  <2>1. CASE s = {}
    BY <2>1, TotalEmpty
  <2>2. CASE s # {}
    <3>1. /\ Pick(s) \in s
          /\ Total(f, s) = f[Pick(s)] + Total(f, s \ {Pick(s)})
      BY <2>2, FS_Subset, TotalStep
    <3>2. Total(f, s \ {Pick(s)}) \in Int /\ f[Pick(s)] \in Int
      BY <1>1, <3>1
    <3> QED
      BY <3>1, <3>2
  <2> QED
    BY <2>1, <2>2
<1>2. \A s \in SUBSET S : s \in Good
  <2> HIDE DEF Good
  <2> QED
    BY <1>1, SubsetInduction
<1> QED
  BY <1>2

\* Any member may be taken out first, not only the one the fold picks.
LEMMA TotalRemove ==
  ASSUME NEW S, IsFiniteSet(S), NEW f, \A x \in S : f[x] \in Int, NEW z \in S
  PROVE  Total(f, S) = f[z] + Total(f, S \ {z})
<1> DEFINE Good == {s \in SUBSET S :
                      \A y \in s : Total(f, s) = f[y] + Total(f, s \ {y})}
<1>1. ASSUME NEW s \in SUBSET S, \A t \in SUBSET s : t # s => t \in Good,
             NEW y \in s
      PROVE  Total(f, s) = f[y] + Total(f, s \ {y})
  <2> DEFINE x == Pick(s)
  <2>1. x \in s /\ Total(f, s) = f[x] + Total(f, s \ {x})
    BY FS_Subset, TotalStep
  <2> HIDE DEF x
  <2>2. CASE x # y
    <3> DEFINE rest == (s \ {x}) \ {y}
    <3>1. s \ {x} \in Good /\ s \ {y} \in Good
      BY <1>1, <2>1
    <3>2. /\ Total(f, s \ {x}) = f[y] + Total(f, (s \ {x}) \ {y})
          /\ Total(f, s \ {y}) = f[x] + Total(f, (s \ {y}) \ {x})
      BY <2>1, <2>2, <3>1
    <3>3. (s \ {y}) \ {x} = rest
      OBVIOUS
    <3>4. f[x] \in Int /\ f[y] \in Int /\ Total(f, rest) \in Int
      <4>1. IsFiniteSet(rest) /\ \A v \in rest : f[v] \in Int
        BY FS_Subset
      <4>2. Total(f, rest) \in Int
        <5> HIDE DEF rest
        <5> QED
          BY <4>1, TotalType
      <4> QED
        BY <2>1, <4>2
    <3>5. /\ Total(f, s \ {x}) = f[y] + Total(f, rest)
          /\ Total(f, s \ {y}) = f[x] + Total(f, rest)
      BY <3>2, <3>3
    <3> HIDE DEF rest
    <3> QED
      BY <2>1, <3>4, <3>5
  <2> QED
    BY <2>1, <2>2
<1>2. \A s \in SUBSET S : (\A t \in SUBSET s : t # s => t \in Good) => s \in Good
  BY <1>1
<1>3. \A s \in SUBSET S : s \in Good
  <2> HIDE DEF Good
  <2> QED
    BY <1>2, SubsetInduction
<1> QED
  BY <1>3

\* Without some that are not negative, a sum is no larger.
LEMMA TotalFewer ==
  ASSUME NEW S, IsFiniteSet(S), NEW f, \A x \in S : f[x] \in Int,
         NEW T \in SUBSET S, \A x \in S \ T : f[x] >= 0
  PROVE  Total(f, T) <= Total(f, S)
<1> DEFINE Good == {s \in SUBSET S : T \subseteq s => Total(f, T) <= Total(f, s)}
<1>1. \A v \in SUBSET S : Total(f, v) \in Int
  BY FS_Subset, TotalType
<1>2. ASSUME NEW s \in SUBSET S, \A t \in SUBSET s : t # s => t \in Good
      PROVE  s \in Good
  <2> SUFFICES ASSUME T \subseteq s
               PROVE  Total(f, T) <= Total(f, s)
    OBVIOUS
  <2>1. CASE T = s
    BY <1>1, <2>1
  <2>2. CASE T # s
    <3>1. PICK z \in s : z \notin T
      BY <2>2
    <3>2. Total(f, T) <= Total(f, s \ {z})
      BY <1>2, <3>1
    <3>3. Total(f, s) = f[z] + Total(f, s \ {z})
      BY FS_Subset, TotalRemove
    <3>4. /\ f[z] \in Int /\ f[z] >= 0
          /\ Total(f, T) \in Int /\ Total(f, s \ {z}) \in Int
      BY <1>1, <3>1
    <3> QED
      BY <3>2, <3>3, <3>4
  <2> QED
    BY <2>1, <2>2
<1>3. \A s \in SUBSET S : s \in Good
  <2> HIDE DEF Good
  <2> QED
    BY <1>2, SubsetInduction
<1> QED
  BY <1>3

\* Two sets of payments that differ in one row, and sums of them: the row may
\* come or go, or change its amount.
LEMMA OneRow ==
  ASSUME NEW f, NEW e, NEW S \in SUBSET PaymentIds, NEW T \in SUBSET PaymentIds,
         \A o \in PaymentIds : f[o] \in Int /\ e[o] \in Int,
         NEW p \in PaymentIds,
         \A o \in PaymentIds \ {p} : f[o] = e[o] /\ (o \in S <=> o \in T)
  PROVE  /\ Total(f, S) \in Int /\ Total(e, T) \in Int
         /\ Total(e, T) = Total(f, S) + (IF p \in T THEN e[p] ELSE 0)
                                      - (IF p \in S THEN f[p] ELSE 0)
<1> DEFINE rest == S \ {p}
<1>1. IsFiniteSet(PaymentIds)
  BY PaymentServiceAssumption, FS_Interval
     DEF PaymentIds, PaymentServiceAssumption
<1>2. IsFiniteSet(S) /\ IsFiniteSet(T) /\ IsFiniteSet(rest)
  BY <1>1, FS_Subset
<1>3. rest = T \ {p}
  OBVIOUS
<1>4. /\ \A o \in S : f[o] \in Int
      /\ \A o \in T : e[o] \in Int
      /\ \A o \in rest : f[o] \in Int /\ f[o] = e[o]
  OBVIOUS
<1>5. Total(f, S) \in Int
  BY <1>2, <1>4, TotalType
<1>6. Total(e, T) \in Int
  BY <1>2, <1>4, TotalType
<1>7. Total(f, rest) \in Int
  <2> HIDE DEF rest
  <2> QED
    BY <1>2, <1>4, TotalType
<1>8. Total(f, rest) = Total(e, rest)
  <2> HIDE DEF rest
  <2> QED
    BY <1>2, <1>4, TotalSame
<1>9. Total(f, S) = Total(f, rest) + (IF p \in S THEN f[p] ELSE 0)
  <2>1. CASE p \in S
    BY <1>2, <1>4, <1>7, <2>1, TotalRemove
  <2>2. CASE p \notin S
    <3>1. rest = S
      BY <2>2
    <3>2. Total(f, rest) = Total(f, S)
      BY <3>1
    <3> HIDE DEF rest
    <3> QED
      BY <1>5, <2>2, <3>2
  <2> QED
    BY <2>1, <2>2
<1>10. Total(e, T) = Total(e, rest) + (IF p \in T THEN e[p] ELSE 0)
  <2>1. CASE p \in T
    BY <1>2, <1>3, <1>4, <1>7, <1>8, <2>1, TotalRemove
  <2>2. CASE p \notin T
    <3>1. rest = T
      BY <1>3, <2>2
    <3>2. Total(e, rest) = Total(e, T)
      BY <3>1
    <3> HIDE DEF rest
    <3> QED
      BY <1>6, <2>2, <3>2
  <2> QED
    BY <2>1, <2>2
<1>11. f[p] \in Int /\ e[p] \in Int
  OBVIOUS
<1> HIDE DEF rest
<1> QED
  BY <1>5, <1>6, <1>7, <1>8, <1>9, <1>10, <1>11

\* The sums of the ledger are over integers: a fare can be negative.
LEMMA AmountsAreInt ==
  ASSUME PayTypeOK
  PROVE  \A p \in PaymentIds : /\ Amount[p] = payments[p].amount
                               /\ Amount[p] \in Int
                               /\ NetAmount[p] = Net(payments[p].amount)
                               /\ NetAmount[p] \in Int
BY AmountTypes, NetIsShare DEF PayTypeOK, Amount, NetAmount

-------------------------------------------------------------------------------
(***************************************************************************)
(* What the steps write, whatever else is running.                         *)
(***************************************************************************)
RowPcs == {"process.provider", "process.fail", "debit.check", "debit.update",
           "finalize.payment", "refund.update"}

DriverPcs == {"process.insert", "process.provider", "debit.check",
              "debit.update", "finalize.payment", "finalize.trip"}

DebitPcs == {"debit.check", "debit.update"}

CreditPcs == {"credit.insert", "credit.update"}

\* A handler's local variables are what it read of its trip and its payment.
BookOK(q) ==
  /\ q.pc \in DriverPcs => q.driver = trips[q.trip].driver
  /\ q.pc = "process.insert" => q.user = trips[q.trip].passenger
  /\ q.pc \in RowPcs => /\ payments[q.payment].trip = q.trip
                        /\ payments[q.payment].user = q.user
                        /\ payments[q.payment].amount = q.amount
                        /\ payments[q.payment].method = q.method

\* A payment is its trip's passenger's, and a row that was not inserted is
\* nobody's and of nothing.
RowUserOK(p) ==
  IF PaymentExists(p)
    THEN payments[p].user = trips[payments[p].trip].passenger
    ELSE payments[p].user = Null /\ payments[p].amount = 0

BookInv == /\ \A r \in PayReqs : BookOK(payReqs[r])
           /\ \A p \in PaymentIds : RowUserOK(p)

Step(r) == PayArrival(r) \/ PayStep(r) \/ CrashPay(r)

\* The handler in slot r keeps its local variables, apart from where it is.
Keeps(r) == /\ payReqs'[r].trip = payReqs[r].trip
            /\ payReqs'[r].payment = payReqs[r].payment
            /\ payReqs'[r].user = payReqs[r].user
            /\ payReqs'[r].driver = payReqs[r].driver
            /\ payReqs'[r].amount = payReqs[r].amount
            /\ payReqs'[r].method = payReqs[r].method
            /\ payReqs'[r].wallet = payReqs[r].wallet

LEMMA GotoKeeps ==
  ASSUME PayInv, NEW r \in PayReqs, NEW pc, PayGoto(r, pc)
  PROVE  payReqs'[r].pc = pc /\ Keeps(r)
BY DEF PayGoto, PayInv, PayTypeOK, PayRequest, Keeps

\* Where a step of slot r may write: that slot.
LEMMA OthersWait ==
  ASSUME PayInv, NEW r \in PayReqs, Step(r)
  PROVE  \A o \in PayReqs : o # r => payReqs'[o] = payReqs[o]
<1>1. \/ \E new : payReqs' = [payReqs EXCEPT ![r] = new]
      \/ \E pc : PayGoto(r, pc)
  <2>1. CASE PayArrival(r)
    BY <2>1 DEF PayArrival, ProcessPayment, ConfirmExternalPayment,
       RequestRefund, TopUp, GetBalance, PayBegin
  <2>2. CASE CrashPay(r)
    BY <2>2 DEF CrashPay, PayEnd
  <2>3. CASE CreatePayment(r) \/ CreditDriverEarnings(r) \/ CreditRefund(r)
    BY <2>3 DEF CreatePayment, CreditDriverEarnings, CreditRefund
  <2>4. CASE \/ ProviderFails(r) \/ ProviderSettles(r) \/ ProviderInvoices(r)
             \/ FailProcess(r) \/ CheckBalance(r) \/ DebitWallet(r)
             \/ FinalizePayment(r) \/ FinalizeTrip(r)
    BY <2>4 DEF ProviderFails, ProviderSettles, ProviderInvoices, FailProcess,
       CheckBalance, DebitWallet, FinalizePayment, FinalizeTrip, PayEnd
  <2>5. CASE PublishPaid(r) \/ CommitRefund(r) \/ InsertWallet(r) \/ CreditWallet(r)
    BY <2>5 DEF PublishPaid, CommitRefund, InsertWallet, CreditWallet, PayEnd
  <2> QED
    BY <2>1, <2>2, <2>3, <2>4, <2>5 DEF Step, PayStep
<1> QED
  BY <1>1 DEF PayGoto, PayInv, PayTypeOK

\* What no step changes: whose a trip is and that it is paid, what a payment
\* is for, that an invoice is open.
Frozen ==
  /\ \A t \in TripIds : /\ trips'[t].driver = trips[t].driver
                        /\ trips'[t].passenger = trips[t].passenger
                        /\ trips[t].status = "paid" => trips'[t].status = "paid"
  /\ \A p \in PaymentIds :
       PaymentExists(p) => /\ PaymentExists(p)'
                           /\ payments'[p].trip = payments[p].trip
                           /\ payments'[p].user = payments[p].user
                           /\ payments'[p].amount = payments[p].amount
                           /\ payments'[p].method = payments[p].method
  /\ invoices \subseteq invoices'

LEMMA StatusKeepsRow ==
  ASSUME PayInv, NEW p \in PaymentIds, NEW s, SetPaymentStatus(p, s)
  PROVE  /\ payments'[p].status = s
         /\ \A o \in PaymentIds :
              /\ payments'[o].trip = payments[o].trip
              /\ payments'[o].user = payments[o].user
              /\ payments'[o].amount = payments[o].amount
              /\ payments'[o].method = payments[o].method
              /\ o # p => payments'[o] = payments[o]
<1> DEFINE row == [payments[p] EXCEPT !.status = s]
<1>1. payments' = [payments EXCEPT ![p] = row] /\ payments[p] \in PaymentRow
  BY DEF SetPaymentStatus, PayInv, PayTypeOK
<1>2. /\ row.status = s /\ row.trip = payments[p].trip
      /\ row.user = payments[p].user /\ row.amount = payments[p].amount
      /\ row.method = payments[p].method
  BY <1>1 DEF PaymentRow
<1> HIDE DEF row
<1> QED
  BY <1>1, <1>2 DEF PayInv, PayTypeOK

\* The row that is inserted.
LEMMA InsertedRow ==
  ASSUME PayInv, NEW p \in PaymentIds, NEW t, NEW u, NEW amount, NEW method,
         InsertPayment(p, t, u, amount, method)
  PROVE  /\ ~PaymentExists(p)
         /\ payments'[p].status = "processing" /\ payments'[p].trip = t
         /\ payments'[p].user = u /\ payments'[p].amount = amount
         /\ payments'[p].method = method
         /\ \A o \in PaymentIds : o # p => payments'[o] = payments[o]
<1> DEFINE row == [status |-> "processing", trip |-> t, user |-> u,
                   amount |-> amount, method |-> method]
<1>1. payments' = [payments EXCEPT ![p] = row] /\ ~PaymentExists(p)
  BY DEF InsertPayment
<1>2. /\ row.status = "processing" /\ row.trip = t /\ row.user = u
      /\ row.amount = amount /\ row.method = method
  OBVIOUS
<1> HIDE DEF row
<1> QED
  BY <1>1, <1>2 DEF PayInv, PayTypeOK

\* A trip is marked paid.
LEMMA MarkedTrip ==
  ASSUME TripsTyped, NEW t \in TripIds, UpdateTripPaid(t)
  PROVE  /\ trips'[t].status = "paid"
         /\ \A o \in TripIds :
              /\ trips'[o].driver = trips[o].driver
              /\ trips'[o].passenger = trips[o].passenger
              /\ o # t => trips'[o] = trips[o]
<1> DEFINE row == [trips[t] EXCEPT !.status = "paid"]
<1>1. trips' = [trips EXCEPT ![t] = row] /\ trips[t] \in TripRow
  BY DEF UpdateTripPaid, TripsTyped
<1>2. /\ row.status = "paid" /\ row.driver = trips[t].driver
      /\ row.passenger = trips[t].passenger
  BY <1>1 DEF TripRow
<1> HIDE DEF row
<1> QED
  BY <1>1, <1>2 DEF TripsTyped

LEMMA StepIsFrozen ==
  ASSUME PayInv, TripsTyped, NEW r \in PayReqs, Step(r)
  PROVE  Frozen
<1>1. ASSUME UNCHANGED <<trips, payments>>, invoices \subseteq invoices'
      PROVE  Frozen
  BY <1>1 DEF Frozen, PaymentExists
<1>2. CASE PayArrival(r)
  BY <1>1, <1>2 DEF PayArrival, ProcessPayment, ConfirmExternalPayment,
     RequestRefund, TopUp, GetBalance
<1>3. CASE \/ ProviderFails(r) \/ ProviderSettles(r) \/ ProviderInvoices(r)
           \/ CheckBalance(r) \/ DebitWallet(r)
  BY <1>1, <1>3 DEF ProviderFails, ProviderSettles, ProviderInvoices,
     CheckBalance, DebitWallet
<1>4. CASE \/ CreditDriverEarnings(r) \/ PublishPaid(r) \/ CreditRefund(r)
           \/ InsertWallet(r) \/ CreditWallet(r) \/ CrashPay(r)
  BY <1>1, <1>4 DEF CreditDriverEarnings, PublishPaid, CreditRefund,
     InsertWallet, CreditWallet, CrashPay
<1>5. CASE CreatePayment(r)
  <2>1. PICK p \in PaymentIds :
          InsertPayment(p, payReqs[r].trip, payReqs[r].user, payReqs[r].amount,
                        payReqs[r].method)
    BY <1>5 DEF CreatePayment
  <2>2. UNCHANGED <<trips, invoices>>
    BY <1>5 DEF CreatePayment
  <2> QED
    BY <2>1, <2>2, InsertedRow DEF Frozen, PaymentExists
<1>6. CASE FailProcess(r) \/ FinalizePayment(r) \/ CommitRefund(r)
  <2>1. payReqs[r].payment \in PaymentIds
    BY <1>6 DEF FailProcess, FinalizePayment, CommitRefund, PayAt, PayInv, PayOK
  <2>2. PICK s \in {"failed", "completed", "refunded"} :
          SetPaymentStatus(payReqs[r].payment, s)
    BY <1>6 DEF FailProcess, FinalizePayment, CommitRefund, FailPayment,
       CompletePayment, RefundPayment
  <2>3. UNCHANGED <<trips, invoices>>
    BY <1>6 DEF FailProcess, FinalizePayment, CommitRefund
  <2> QED
    BY <2>1, <2>2, <2>3, StatusKeepsRow DEF Frozen, PaymentExists
<1>7. CASE FinalizeTrip(r)
  <2>1. payReqs[r].trip \in TripIds
    BY <1>7 DEF FinalizeTrip, PayAt, PayInv, PayOK
  <2> QED
    BY <1>7, <2>1, MarkedTrip DEF FinalizeTrip, Frozen, PaymentExists
<1> QED
  BY <1>2, <1>3, <1>4, <1>5, <1>6, <1>7 DEF Step, PayStep

\* What a request is when it begins: a payment of a trip, a webhook or a refund
\* for a row it has read, or an errand to a passenger's wallet.
BeginsPayment(q) ==
  /\ q.pc = "process.insert" /\ q.trip \in TripIds
  /\ q.driver = trips[q.trip].driver /\ q.user = trips[q.trip].passenger

BeginsWithRow(q) ==
  /\ \/ /\ q.pc = "finalize.payment"
        /\ q.driver = trips[q.trip].driver
        /\ q.trip \in invoices
     \/ q.pc = "refund.update"
  /\ q.trip \in TripIds /\ q.payment \in PaymentIds /\ PaymentExists(q.payment)
  /\ payments[q.payment].trip = q.trip
  /\ payments[q.payment].user = q.user
  /\ payments[q.payment].amount = q.amount
  /\ payments[q.payment].method = q.method

BeginsErrand(q) ==
  /\ \/ q.pc = "balance.insert"
     \/ /\ q.pc = "credit.insert" /\ wallets[q.wallet] = Null
        /\ q.amount \in TopUps
     \/ q.pc = "credit.update" /\ q.amount \in TopUps
  /\ \E u \in Passengers : q.wallet = PassengerWallet(u)

LEMMA ArrivalBegins ==
  ASSUME PayInv, NEW r \in PayReqs, PayArrival(r)
  PROVE  /\ payReqs[r].pc = "idle"
         /\ UNCHANGED <<trips, payments, wallets, invoices>>
         /\ \/ BeginsPayment(payReqs'[r])
            \/ BeginsWithRow(payReqs'[r])
            \/ BeginsErrand(payReqs'[r])
<1>1. UNCHANGED <<trips, payments, wallets, invoices>>
  BY DEF PayArrival, ProcessPayment, ConfirmExternalPayment, RequestRefund,
         TopUp, GetBalance
<1>2. payReqs[r].pc = "idle"
  BY DEF PayArrival, ProcessPayment, ConfirmExternalPayment, RequestRefund,
         TopUp, GetBalance, PayBegin, PayAt
<1>3. ASSUME NEW u \in Passengers, NEW t \in TripIds, NEW method \in Methods,
             ProcessPayment(r, u, t, method)
      PROVE  BeginsPayment(payReqs'[r])
  <2> DEFINE req == [IdlePay EXCEPT !.pc = "process.insert", !.trip = t,
                       !.user = u, !.driver = trips[t].driver,
                       !.amount = FareDue(t), !.method = method]
  <2>1. PayBegin(r, req) /\ trips[t].passenger = u
    BY <1>3 DEF ProcessPayment
  <2>2. /\ req.pc = "process.insert" /\ req.trip = t /\ req.user = u
        /\ req.driver = trips[t].driver
    BY DEF IdlePay
  <2> HIDE DEF req
  <2>3. payReqs'[r] = req
    BY <2>1, SlotWrites
  <2> QED
    BY <2>1, <2>2, <2>3 DEF BeginsPayment
<1>4. ASSUME NEW t \in TripIds, ConfirmExternalPayment(r, t)
      PROVE  BeginsWithRow(payReqs'[r])
  <2>1. PICK p \in PaymentIds :
          /\ IsPaymentOf(p, t)
          /\ PayBegin(r, [IdlePay EXCEPT !.pc = "finalize.payment",
                            !.trip = t, !.payment = p,
                            !.user = payments[p].user,
                            !.driver = trips[t].driver,
                            !.amount = payments[p].amount,
                            !.method = payments[p].method])
    BY <1>4 DEF ConfirmExternalPayment
  <2> DEFINE req == [IdlePay EXCEPT !.pc = "finalize.payment", !.trip = t,
                       !.payment = p, !.user = payments[p].user,
                       !.driver = trips[t].driver,
                       !.amount = payments[p].amount,
                       !.method = payments[p].method]
  <2>2. /\ req.pc = "finalize.payment" /\ req.trip = t /\ req.payment = p
        /\ req.user = payments[p].user /\ req.driver = trips[t].driver
        /\ req.amount = payments[p].amount /\ req.method = payments[p].method
    BY DEF IdlePay
  <2>3. PayBegin(r, req)
    BY <2>1
  <2> HIDE DEF req
  <2>4. payReqs'[r] = req
    BY <2>3, SlotWrites
  <2>5. PaymentExists(p) /\ payments[p].trip = t /\ t \in invoices
    BY <1>4, <2>1, PaymentOfTrip DEF IsPaymentOf, ConfirmExternalPayment
  <2> QED
    BY <2>2, <2>4, <2>5 DEF BeginsWithRow
<1>5. ASSUME NEW u \in Passengers, NEW t \in TripIds, RequestRefund(r, u, t)
      PROVE  BeginsWithRow(payReqs'[r])
  <2>1. PICK p \in PaymentIds :
          /\ IsPaymentOf(p, t) /\ payments[p].user = u
          /\ PayBegin(r, [IdlePay EXCEPT !.pc = "refund.update", !.trip = t,
                            !.payment = p, !.user = u,
                            !.amount = payments[p].amount,
                            !.method = payments[p].method])
    BY <1>5 DEF RequestRefund
  <2> DEFINE req == [IdlePay EXCEPT !.pc = "refund.update", !.trip = t,
                       !.payment = p, !.user = u,
                       !.amount = payments[p].amount,
                       !.method = payments[p].method]
  <2>2. /\ req.pc = "refund.update" /\ req.trip = t /\ req.payment = p
        /\ req.user = u
        /\ req.amount = payments[p].amount /\ req.method = payments[p].method
    BY DEF IdlePay
  <2>3. PayBegin(r, req)
    BY <2>1
  <2> HIDE DEF req
  <2>4. payReqs'[r] = req
    BY <2>3, SlotWrites
  <2>5. PaymentExists(p) /\ payments[p].trip = t
    BY <2>1, PaymentOfTrip DEF IsPaymentOf
  <2> QED
    BY <2>1, <2>2, <2>4, <2>5 DEF BeginsWithRow
<1>6. ASSUME NEW u \in Passengers, NEW amount \in TopUps, TopUp(r, u, amount)
      PROVE  BeginsErrand(payReqs'[r])
  <2> DEFINE w == PassengerWallet(u)
             req == [IdlePay EXCEPT !.pc = CreditPc(w), !.user = u,
                                    !.wallet = w, !.amount = amount]
  <2>1. req.pc = CreditPc(w) /\ req.wallet = w /\ req.amount = amount
    BY DEF IdlePay
  <2>2. PayBegin(r, req)
    BY <1>6 DEF TopUp
  <2> HIDE DEF req
  <2>3. payReqs'[r] = req
    BY <2>2, SlotWrites
  <2> QED
    BY <2>1, <2>3 DEF BeginsErrand, CreditPc
<1>7. ASSUME NEW u \in Passengers, GetBalance(r, u)
      PROVE  BeginsErrand(payReqs'[r])
  <2> DEFINE w == PassengerWallet(u)
             req == [IdlePay EXCEPT !.pc = "balance.insert", !.user = u,
                                    !.wallet = w]
  <2>1. req.pc = "balance.insert" /\ req.wallet = w
    BY DEF IdlePay
  <2>2. PayBegin(r, req)
    BY <1>7 DEF GetBalance
  <2> HIDE DEF req
  <2>3. payReqs'[r] = req
    BY <2>2, SlotWrites
  <2> QED
    BY <2>1, <2>3 DEF BeginsErrand
<1> QED
  BY <1>1, <1>2, <1>3, <1>4, <1>5, <1>6, <1>7 DEF PayArrival

\* The handler goes on with the row it has inserted.
LEMMA Created ==
  ASSUME PayInv, NEW r \in PayReqs, CreatePayment(r)
  PROVE  \E p \in PaymentIds :
           LET q == payReqs[r]
               n == payReqs'[r] IN
           /\ q.pc = "process.insert" /\ n.pc = AfterInsert(q.method)
           /\ n.trip = q.trip /\ n.user = q.user /\ n.driver = q.driver
           /\ n.amount = q.amount /\ n.method = q.method /\ n.payment = p
           /\ ~PaymentExists(p)
           /\ payments'[p].status = "processing" /\ payments'[p].trip = q.trip
           /\ payments'[p].user = q.user /\ payments'[p].amount = q.amount
           /\ payments'[p].method = q.method
           /\ \A o \in PaymentIds : o # p => payments'[o] = payments[o]
<1> DEFINE q == payReqs[r]
<1>1. PICK p \in PaymentIds :
        /\ InsertPayment(p, q.trip, q.user, q.amount, q.method)
        /\ payReqs' = [payReqs EXCEPT ![r] =
                         [@ EXCEPT !.pc = AfterInsert(q.method), !.payment = p]]
  BY DEF CreatePayment
<1> DEFINE new == [q EXCEPT !.pc = AfterInsert(q.method), !.payment = p]
<1>2. /\ new.pc = AfterInsert(q.method) /\ new.trip = q.trip
      /\ new.user = q.user /\ new.driver = q.driver /\ new.amount = q.amount
      /\ new.method = q.method /\ new.payment = p
  BY DEF PayInv, PayTypeOK, PayRequest
<1>3. payReqs' = [payReqs EXCEPT ![r] = new]
  BY <1>1
<1> HIDE DEF new
<1>4. payReqs'[r] = new /\ q.pc = "process.insert"
  BY <1>3 DEF PayInv, PayTypeOK, CreatePayment, PayAt
<1> QED
  BY <1>1, <1>2, <1>4, InsertedRow

\* The calls of creditWallet.
LEMMA DriverCredit ==
  ASSUME PayInv, NEW r \in PayReqs, CreditDriverEarnings(r)
  PROVE  LET q == payReqs[r]
             n == payReqs'[r] IN
         /\ q.pc = "finalize.driver"
         /\ q.driver = Null => n.pc = "finalize.publish"
         /\ q.driver # Null => /\ q.driver \in Drivers
                               /\ n.wallet = EarningsWallet(q.driver)
                               /\ n.pc = CreditPc(n.wallet)
                               /\ n.amount = Net(q.amount)
<1> DEFINE q == payReqs[r]
           w == EarningsWallet(q.driver)
           done == [q EXCEPT !.pc = "finalize.publish"]
           credit == [q EXCEPT !.pc = CreditPc(w), !.wallet = w,
                               !.amount = Net(@), !.next = "finalize.publish"]
<1>1. q.pc = "finalize.driver" /\ q \in PayRequest
  BY DEF CreditDriverEarnings, PayAt, PayInv, PayTypeOK
<1>2. q.driver = Null => payReqs' = [payReqs EXCEPT ![r] = done]
  BY DEF CreditDriverEarnings
<1>3. q.driver # Null => payReqs' = [payReqs EXCEPT ![r] = credit]
  BY DEF CreditDriverEarnings
<1>4. /\ done.pc = "finalize.publish"
      /\ credit.pc = CreditPc(w) /\ credit.wallet = w
      /\ credit.amount = Net(q.amount)
  BY <1>1 DEF PayRequest
<1> HIDE DEF done, credit
<1>5. /\ q.driver = Null => payReqs'[r] = done
      /\ q.driver # Null => payReqs'[r] = credit
  BY <1>2, <1>3 DEF PayInv, PayTypeOK
<1>6. q.driver # Null => q.driver \in Drivers
  BY <1>1 DEF PayRequest
<1> QED
  BY <1>1, <1>4, <1>5, <1>6

LEMMA RefundCredit ==
  ASSUME PayInv, NEW r \in PayReqs, CreditRefund(r)
  PROVE  LET q == payReqs[r]
             n == payReqs'[r] IN
         /\ q.pc = "refund.wallet" /\ q.user \in Passengers
         /\ n.wallet = PassengerWallet(q.user)
         /\ n.pc = CreditPc(n.wallet) /\ n.amount = q.amount
<1> DEFINE q == payReqs[r]
           w == PassengerWallet(q.user)
           new == [q EXCEPT !.pc = CreditPc(w), !.wallet = w]
<1>1. q.pc = "refund.wallet" /\ q \in PayRequest /\ PayOK(q)
  BY DEF CreditRefund, PayAt, PayInv, PayTypeOK
<1>2. payReqs' = [payReqs EXCEPT ![r] = new]
  BY DEF CreditRefund
<1>3. new.pc = CreditPc(w) /\ new.wallet = w /\ new.amount = q.amount
  BY <1>1 DEF PayRequest
<1> HIDE DEF new
<1>4. payReqs'[r] = new
  BY <1>2 DEF PayInv, PayTypeOK
<1> QED
  BY <1>1, <1>3, <1>4 DEF PayOK

\* Every other step ends the handler or moves it on, as this table says.
MovesTo(from, to) ==
  \/ from = "process.provider" /\ to \in {"process.fail", "finalize.payment"}
  \/ from = "debit.check"      /\ to \in {"process.fail", "debit.update"}
  \/ from = "debit.update"     /\ to = "finalize.payment"
  \/ from = "finalize.payment" /\ to = "finalize.trip"
  \/ from = "finalize.trip"    /\ to = "finalize.driver"
  \/ from = "refund.update"    /\ to = "refund.wallet"
  \/ from = "credit.insert"    /\ to = "credit.update"
  \/ from = "credit.update"    /\ to = "finalize.publish"

\* Where a handler may end, unless it dies.
LastPcs == {"process.provider", "process.fail", "finalize.publish",
            "refund.update", "balance.insert", "credit.insert",
            "credit.update"}

LEMMA MovesOn ==
  ASSUME PayInv, NEW r \in PayReqs, PayStep(r) \/ CrashPay(r),
         ~CreatePayment(r), ~CreditDriverEarnings(r), ~CreditRefund(r)
  PROVE  \/ /\ payReqs'[r].pc = "idle"
            /\ payReqs[r].pc \in LastPcs \/ CrashPay(r)
         \/ MovesTo(payReqs[r].pc, payReqs'[r].pc) /\ Keeps(r)
<1>1. ASSUME NEW pc, PayGoto(r, pc), MovesTo(payReqs[r].pc, pc)
      PROVE  MovesTo(payReqs[r].pc, payReqs'[r].pc) /\ Keeps(r)
  BY <1>1, GotoKeeps, Zenon
<1>2. PayEnd(r) => payReqs'[r].pc = "idle"
  BY SlotWrites
<1>3. CASE CrashPay(r)
  BY <1>2, <1>3 DEF CrashPay
<1>4. CASE ProviderFails(r) \/ ProviderSettles(r) \/ ProviderInvoices(r)
  BY <1>1, <1>2, <1>4 DEF ProviderFails, ProviderSettles, ProviderInvoices,
     PayAt, MovesTo, LastPcs
<1>5. CASE FailProcess(r) \/ CheckBalance(r) \/ DebitWallet(r)
  BY <1>1, <1>2, <1>5 DEF FailProcess, CheckBalance, DebitWallet, PayAt, MovesTo, LastPcs
<1>6. CASE FinalizePayment(r) \/ FinalizeTrip(r) \/ PublishPaid(r)
  BY <1>1, <1>2, <1>6 DEF FinalizePayment, FinalizeTrip, PublishPaid, PayAt,
     MovesTo, LastPcs
<1>7. CASE CommitRefund(r) \/ InsertWallet(r)
  BY <1>1, <1>2, <1>7 DEF CommitRefund, InsertWallet, PayAt, MovesTo, LastPcs
<1>8. CASE CreditWallet(r)
  <2>1. payReqs[r].next \in {"idle", "finalize.publish"}
    BY DEF PayInv, PayTypeOK, PayRequest
  <2> QED
    BY <1>1, <1>2, <1>8, <2>1 DEF CreditWallet, PayAt, MovesTo, LastPcs
<1> QED
  BY <1>3, <1>4, <1>5, <1>6, <1>7, <1>8 DEF PayStep

LEMMA BookStep ==
  ASSUME PayInv, TripsTyped, BookInv, NEW r \in PayReqs, Step(r)
  PROVE  BookInv'
<1> DEFINE q == payReqs[r]
           n == payReqs'[r]
<1>1. Frozen
  BY StepIsFrozen
<1>2. ASSUME NEW o \in PayReqs, payReqs'[o] = payReqs[o]
      PROVE  BookOK(payReqs[o])'
  <2>1. BookOK(payReqs[o]) /\ PayOK(payReqs[o])
    BY DEF BookInv, PayInv
  <2>2. /\ payReqs[o].pc \in DriverPcs => payReqs[o].trip \in TripIds
        /\ payReqs[o].pc \in RowPcs => /\ payReqs[o].payment \in PaymentIds
                                       /\ PaymentExists(payReqs[o].payment)
    BY <2>1 DEF PayOK, DriverPcs, RowPcs
  <2> QED
    BY <1>1, <1>2, <2>1, <2>2 DEF BookOK, Frozen, DriverPcs
<1>3. BookOK(payReqs[r])'
  <2>1. CASE PayArrival(r)
    BY <2>1, ArrivalBegins DEF BeginsPayment, BeginsWithRow, BeginsErrand,
       BookOK, DriverPcs, RowPcs
  <2>2. CASE CreatePayment(r)
    <3>1. UNCHANGED trips /\ BookOK(q)
      BY <2>2 DEF CreatePayment, BookInv
    <3> QED
      BY <2>2, <3>1, Created DEF BookOK, DriverPcs
  <2>3. CASE CreditDriverEarnings(r) \/ CreditRefund(r)
    <3>1. n.pc \in {"finalize.publish", "credit.insert", "credit.update"}
      BY <2>3, DriverCredit, RefundCredit DEF CreditPc
    <3> QED
      BY <3>1 DEF BookOK, DriverPcs, RowPcs
  <2>4. CASE /\ ~PayArrival(r)
             /\ ~(CreatePayment(r) \/ CreditDriverEarnings(r) \/ CreditRefund(r))
    <3>1. n.pc = "idle" \/ (MovesTo(q.pc, n.pc) /\ Keeps(r))
      BY <2>4, MovesOn DEF Step
    <3>2. CASE n.pc = "idle"
      BY <3>2 DEF BookOK, DriverPcs, RowPcs
    <3>3. CASE MovesTo(q.pc, n.pc) /\ Keeps(r)
      <4>1. BookOK(q) /\ PayOK(q)
        BY DEF BookInv, PayInv
      <4>2. n.pc \in DriverPcs => q.pc \in DriverPcs /\ q.trip \in TripIds
        BY <3>3, <4>1 DEF MovesTo, DriverPcs, PayOK
      <4>3. n.pc \in RowPcs => /\ q.pc \in RowPcs /\ q.payment \in PaymentIds
                               /\ PaymentExists(q.payment)
        BY <3>3, <4>1 DEF MovesTo, RowPcs, PayOK
      <4>4. n.pc # "process.insert"
        BY <3>3 DEF MovesTo
      <4> QED
        BY <1>1, <3>3, <4>1, <4>2, <4>3, <4>4 DEF BookOK, Keeps, Frozen
    <3> QED
      BY <3>1, <3>2, <3>3
  <2> QED
    BY <2>1, <2>2, <2>3, <2>4
<1>4. \A p \in PaymentIds : RowUserOK(p)'
  <2>1. ASSUME NEW p \in PaymentIds, PaymentExists(p) = PaymentExists(p)',
               payments'[p].trip = payments[p].trip,
               payments'[p].user = payments[p].user,
               payments'[p].amount = payments[p].amount
        PROVE  RowUserOK(p)'
    <3>1. RowUserOK(p) /\ RowOK(p)
      BY DEF BookInv, PayInv
    <3> QED
      BY <1>1, <2>1, <3>1 DEF RowUserOK, RowOK, Frozen
  <2>2. CASE CreatePayment(r)
    <3>1. BookOK(q) /\ UNCHANGED trips /\ q.pc = "process.insert"
      BY <2>2 DEF CreatePayment, BookInv, PayAt
    <3>2. PICK p \in PaymentIds :
            /\ payments'[p].status = "processing"
            /\ payments'[p].trip = q.trip /\ payments'[p].user = q.user
            /\ \A o \in PaymentIds : o # p => payments'[o] = payments[o]
      BY <2>2, Created
    <3>3. \A o \in PaymentIds : o # p => RowUserOK(o)'
      BY <2>1, <3>2 DEF PaymentExists
    <3>4. RowUserOK(p)'
      BY <3>1, <3>2 DEF RowUserOK, PaymentExists, BookOK
    <3> QED
      BY <3>3, <3>4
  <2>3. CASE FailProcess(r) \/ FinalizePayment(r) \/ CommitRefund(r)
    <3>1. q.payment \in PaymentIds /\ PaymentExists(q.payment)
      BY <2>3 DEF FailProcess, FinalizePayment, CommitRefund, PayAt, PayInv, PayOK
    <3>2. PICK s \in {"failed", "completed", "refunded"} :
            SetPaymentStatus(q.payment, s)
      BY <2>3 DEF FailProcess, FinalizePayment, CommitRefund, FailPayment,
         CompletePayment, RefundPayment
    <3> QED
      BY <2>1, <3>1, <3>2, StatusKeepsRow DEF PaymentExists
  <2>4. CASE UNCHANGED payments
    BY <2>1, <2>4 DEF PaymentExists
  <2>5. \/ CreatePayment(r) \/ FailProcess(r) \/ FinalizePayment(r)
        \/ CommitRefund(r) \/ UNCHANGED payments
    <3>1. PayArrival(r) \/ CrashPay(r) => UNCHANGED payments
      BY ArrivalBegins DEF CrashPay
    <3> QED
      BY <3>1 DEF Step, PayStep, ProviderFails, ProviderSettles,
         ProviderInvoices, CheckBalance, DebitWallet, FinalizeTrip,
         CreditDriverEarnings, PublishPaid, CreditRefund, InsertWallet,
         CreditWallet
  <2> QED
    BY <2>2, <2>3, <2>4, <2>5
<1>5. \A o \in PayReqs : BookOK(payReqs[o])'
  BY <1>2, <1>3, OthersWait
<1> QED
  BY <1>4, <1>5 DEF BookInv

\* The books begin empty.
LEMMA NoBooks ==
  ASSUME PayInit
  PROVE  /\ \A r \in PayReqs : payReqs[r].pc = "idle"
         /\ \A p \in PaymentIds : /\ payments[p].status = "none"
                                  /\ payments[p].user = Null
                                  /\ payments[p].amount = 0
         /\ \A u \in Passengers : wallets[PassengerWallet(u)] = Opening
         /\ \A d \in Drivers : wallets[EarningsWallet(d)] = Null
<1>1. /\ \A r \in PayReqs : payReqs[r].pc = "idle"
      /\ \A p \in PaymentIds : /\ payments[p].status = "none"
                               /\ payments[p].user = Null
                               /\ payments[p].amount = 0
  BY DEF PayInit, IdlePay, NoPayment
<1>2. \A w \in WalletIds : wallets[w] = IF w[2] = "passenger" THEN Opening ELSE Null
  BY DEF PayInit
<1>3. ASSUME NEW u \in Passengers
      PROVE  wallets[PassengerWallet(u)] = Opening
  BY <1>2 DEF WalletIds, PassengerWallet
<1>4. ASSUME NEW d \in Drivers
      PROVE  wallets[EarningsWallet(d)] = Null
  BY <1>2 DEF WalletIds, EarningsWallet
<1> QED
  BY <1>1, <1>3, <1>4

\* The books are kept, whatever interleaves or dies.
LEMMA BookInitial ==
  ASSUME PayInit
  PROVE  BookInv
BY NoBooks DEF BookInv, BookOK, DriverPcs, RowPcs, RowUserOK, PaymentExists

LEMMA BookInvariant == PaySpec => []BookInv
<1>1. PaymentInit => BookInv
  BY BookInitial DEF PaymentInit
<1>2. PayInv /\ TripsTyped /\ BookInv /\ [PayNext]_paymentVars => BookInv'
  <2> SUFFICES ASSUME PayInv, TripsTyped, BookInv, [PayNext]_paymentVars
               PROVE  BookInv'
    OBVIOUS
  <2>1. CASE PayNext
    BY <2>1, BookStep DEF PayNext, Step
  <2>2. CASE UNCHANGED paymentVars
    BY <2>2 DEF paymentVars, payVars, BookInv, BookOK, RowUserOK, PaymentExists
  <2> QED
    BY <2>1, <2>2
<1> QED
  BY <1>1, <1>2, PayInvariant, PTL DEF PaySpec

\* Two kinds of wallets, and one of each to a user.
LEMMA WalletNames ==
  /\ \A u, v : PassengerWallet(u) = PassengerWallet(v) => u = v
  /\ \A d, e : EarningsWallet(d) = EarningsWallet(e) => d = e
  /\ \A u, d : PassengerWallet(u) # EarningsWallet(d)
  /\ \A u \in Passengers : PassengerWallet(u) \in WalletIds
  /\ \A d \in Drivers : EarningsWallet(d) \in WalletIds
BY DEF PassengerWallet, EarningsWallet, WalletIds

\* Balances are integers; each of the three writes changes one of them.
LEMMA Balances ==
  ASSUME PayInv
  PROVE  \A w \in WalletIds : Balance(w) \in Int
BY DEF PayInv, PayTypeOK, Balance

LEMMA BalanceAdded ==
  ASSUME PayInv, NEW w \in WalletIds, wallets[w] # Null, NEW delta \in Int,
         AddToWallet(w, delta)
  PROVE  \A x \in WalletIds :
           Balance(x)' = Balance(x) + (IF x = w THEN delta ELSE 0)
<1>1. wallets[w] \in Int
  BY DEF PayInv, PayTypeOK
<1>2. wallets[w] + delta # Null
  BY <1>1, NullIsNoNumber
<1>3. /\ wallets'[w] = wallets[w] + delta
      /\ \A x \in WalletIds : x # w => wallets'[x] = wallets[x]
  BY DEF AddToWallet, PayInv, PayTypeOK
<1>4. \A x \in WalletIds : Balance(x) \in Int
  BY Balances
<1> QED
  BY <1>1, <1>2, <1>3, <1>4 DEF Balance

LEMMA BalanceInserted ==
  ASSUME PayInv, NEW r \in PayReqs, InsertWallet(r)
  PROVE  \A x \in WalletIds : Balance(x)' = Balance(x)
<1>1. payReqs[r].wallet \in WalletIds
  BY DEF InsertWallet, PayInv, PayOK
<1>2. 0 # Null
  BY NullIsNoNumber
<1> QED
  BY <1>1, <1>2 DEF InsertWallet, PayInv, PayTypeOK, Balance

\* No other step touches a balance.
LEMMA BalanceUntouched ==
  ASSUME PayInv, NEW r \in PayReqs, Step(r), ~DebitWallet(r), ~CreditWallet(r)
  PROVE  \A w \in WalletIds : Balance(w)' = Balance(w)
<1>1. CASE InsertWallet(r)
  BY <1>1, BalanceInserted
<1>2. CASE ~InsertWallet(r)
  <2>1. PayArrival(r) => UNCHANGED wallets
    BY ArrivalBegins
  <2>2. UNCHANGED wallets
    BY <1>2, <2>1 DEF Step, PayStep, CreatePayment, ProviderFails,
       ProviderSettles, ProviderInvoices, FailProcess, CheckBalance,
       FinalizePayment, FinalizeTrip, CreditDriverEarnings, PublishPaid,
       CommitRefund, CreditRefund, CrashPay
  <2> QED
    BY <2>2 DEF Balance
<1> QED
  BY <1>1, <1>2

\* What the two that do say of the handler.
LEMMA Debited ==
  ASSUME PayInv, NEW r \in PayReqs, DebitWallet(r)
  PROVE  LET q == payReqs[r] IN
         /\ q.pc = "debit.update" /\ q.user \in Passengers /\ q.amount \in Int
         /\ q.method = "wallet" /\ wallets[PassengerWallet(q.user)] # Null
         /\ payReqs'[r].pc = "finalize.payment" /\ Keeps(r)
         /\ \A w \in WalletIds :
              Balance(w)' = Balance(w) - (IF w = PassengerWallet(q.user)
                                            THEN q.amount ELSE 0)
<1> DEFINE q == payReqs[r]
<1>1. /\ q.pc = "debit.update" /\ q \in PayRequest /\ PayOK(q)
      /\ AddToWallet(PassengerWallet(q.user), -q.amount)
  BY DEF DebitWallet, PayAt, PayInv, PayTypeOK
<1>2. q.user \in Passengers /\ q.amount \in Int /\ q.method = "wallet"
        /\ wallets[PassengerWallet(q.user)] # Null
  BY <1>1, AmountTypes DEF PayOK
<1>3. PICK w \in WalletIds : w = PassengerWallet(q.user)
  BY <1>2, WalletNames
<1>4. PICK delta \in Int : delta = -q.amount
  BY <1>2
<1>5. \A x \in WalletIds :
        Balance(x)' = Balance(x) + (IF x = w THEN delta ELSE 0)
  BY <1>1, <1>2, <1>3, <1>4, BalanceAdded
<1>6. payReqs'[r].pc = "finalize.payment" /\ Keeps(r)
  BY GotoKeeps DEF DebitWallet
<1>7. \A x \in WalletIds : Balance(x) \in Int
  BY Balances
<1> QED
  BY <1>1, <1>2, <1>3, <1>4, <1>5, <1>6, <1>7

LEMMA Credited ==
  ASSUME PayInv, NEW r \in PayReqs, CreditWallet(r)
  PROVE  LET q == payReqs[r] IN
         /\ q.pc = "credit.update" /\ q.wallet \in WalletIds /\ q.amount \in Int
         /\ payReqs'[r].pc \in {"idle", "finalize.publish"}
         /\ \A w \in WalletIds :
              Balance(w)' = Balance(w) + (IF w = q.wallet THEN q.amount ELSE 0)
<1> DEFINE q == payReqs[r]
<1>1. /\ q.pc = "credit.update" /\ q \in PayRequest /\ PayOK(q)
      /\ AddToWallet(q.wallet, q.amount)
  BY DEF CreditWallet, PayAt, PayInv, PayTypeOK
<1>2. q.amount \in Int /\ q.wallet \in WalletIds /\ wallets[q.wallet] # Null
        /\ q.next \in {"idle", "finalize.publish"}
  BY <1>1, AmountTypes DEF PayOK, PayRequest
<1>3. PICK w \in WalletIds : w = q.wallet
  BY <1>2
<1>4. PICK delta \in Int : delta = q.amount
  BY <1>2
<1>5. \A x \in WalletIds :
        Balance(x)' = Balance(x) + (IF x = w THEN delta ELSE 0)
  BY <1>1, <1>2, <1>3, <1>4, BalanceAdded
<1>6. payReqs'[r].pc \in {"idle", "finalize.publish"}
  BY <1>2, GotoKeeps, SlotWrites DEF CreditWallet
<1> QED
  BY <1>1, <1>2, <1>3, <1>4, <1>5, <1>6

-------------------------------------------------------------------------------
(***************************************************************************)
(* Where a balance can fall below zero.  Nothing keeps an offered price    *)
(* from being negative, and the payment of one moves its money backwards;  *)
(* every handler that is about to do so has a row in the table to show it. *)
(***************************************************************************)
SignOK(q) ==
  /\ q.pc \in {"finalize.trip", "finalize.driver"} /\ q.amount < 0
       => NegativeFor(EarningsWallet(q.driver))
  /\ q.pc = "refund.wallet" /\ q.amount < 0
       => NegativeFor(PassengerWallet(q.user))
  /\ q.pc \in CreditPcs /\ q.amount < 0 => NegativeFor(q.wallet)

SignInv == \A r \in PayReqs : SignOK(payReqs[r])

\* Rows and their trips' drivers stay, so a wallet that can be overdrawn still
\* can.
RowsKeepUsers ==
  \A p \in PaymentIds :
    PaymentExists(p) =>
      /\ payments'[p].trip = payments[p].trip
      /\ payments'[p].user = payments[p].user
      /\ payments'[p].amount = payments[p].amount
      /\ payments'[p].method = payments[p].method
      /\ trips'[payments[p].trip].driver = trips[payments[p].trip].driver

LEMMA NegativeStays ==
  ASSUME BookInv, RowsKeepUsers, NEW w, NegativeFor(w)
  PROVE  NegativeFor(w)'
<1>1. PICK p \in PaymentIds :
        /\ payments[p].amount < 0
        /\ \/ /\ payments[p].method = "wallet"
              /\ w = PassengerWallet(payments[p].user)
           \/ w = EarningsWallet(trips[payments[p].trip].driver)
  BY DEF NegativeFor
<1>2. PaymentExists(p)
  BY <1>1 DEF BookInv, RowUserOK
<1> QED
  BY <1>1, <1>2 DEF RowsKeepUsers, NegativeFor

LEMMA StepKeepsUsers ==
  ASSUME PayInv, TripsTyped, NEW r \in PayReqs, Step(r)
  PROVE  RowsKeepUsers
BY StepIsFrozen DEF Frozen, RowsKeepUsers, PayInv, RowOK

LEMMA NegativeKept ==
  ASSUME PayInv, TripsTyped, BookInv, NEW r \in PayReqs, Step(r)
  PROVE  \A w : NegativeFor(w) => NegativeFor(w)'
BY NegativeStays, StepKeepsUsers

\* What a row's amount says of the wallets it moves.
LEMMA RowSign ==
  ASSUME NEW p \in PaymentIds, payments[p].amount < 0
  PROVE  /\ NegativeFor(EarningsWallet(trips[payments[p].trip].driver))
         /\ payments[p].method = "wallet"
              => NegativeFor(PassengerWallet(payments[p].user))
BY DEF NegativeFor

LEMMA WalletRowsPay ==
  ASSUME PayTypeOK, NEW u, ~NegativeFor(PassengerWallet(u))
  PROVE  \A p \in WalletPaymentsOf(u) : Amount[p] >= 0
<1> SUFFICES ASSUME NEW p \in WalletPaymentsOf(u)
             PROVE  Amount[p] >= 0
  OBVIOUS
<1>1. /\ p \in PaymentIds /\ payments[p].user = u
      /\ payments[p].method = "wallet"
  BY DEF WalletPaymentsOf
<1>2. Amount[p] = payments[p].amount /\ Amount[p] \in Int
  BY <1>1, AmountsAreInt
<1> QED
  BY <1>1, <1>2, RowSign

\* A handler that is elsewhere has no wallet in mind.
LEMMA NoSign ==
  ASSUME NEW q, q.pc \notin CreditPcs \cup {"finalize.trip", "finalize.driver",
                                          "refund.wallet"}
  PROVE  SignOK(q)
BY DEF SignOK

LEMMA SignStep ==
  ASSUME PayInv, TripsTyped, BookInv, SignInv, NEW r \in PayReqs, Step(r)
  PROVE  SignInv'
<1> DEFINE q == payReqs[r]
           n == payReqs'[r]
<1>1. \A w : NegativeFor(w) => NegativeFor(w)'
  BY NegativeKept
<1>2. SignOK(q) /\ PayOK(q) /\ BookOK(q) /\ q \in PayRequest
  BY DEF SignInv, PayInv, BookInv, PayTypeOK
<1>3. ASSUME NEW new, n = new, SignOK(new)
      PROVE  SignOK(payReqs[r])'
  BY <1>1, <1>3 DEF SignOK
<1>4. SignOK(n)
  <2>1. CASE PayArrival(r)
    <3>1. CASE BeginsPayment(n) \/ BeginsWithRow(n)
      BY <3>1, NoSign DEF BeginsPayment, BeginsWithRow, CreditPcs
    <3>2. CASE BeginsErrand(n)
      <4>1. n.pc = "balance.insert"
              \/ (n.pc \in {"credit.insert", "credit.update"} /\ n.amount \in TopUps)
        BY <3>2 DEF BeginsErrand
      <4>2. n.amount \in TopUps => n.amount \in Nat
        BY PaymentServiceAssumption DEF PaymentServiceAssumption
      <4>3. n.amount \in TopUps => ~(n.amount < 0)
        BY <4>2
      <4> QED
        BY <4>1, <4>3 DEF SignOK, CreditPcs
    <3> QED
      BY <2>1, <3>1, <3>2, ArrivalBegins
  <2>2. CASE CreatePayment(r)
    <3>1. n.pc \in {"finalize.payment", "debit.check", "process.provider"}
      BY <2>2, Created DEF AfterInsert
    <3> QED
      BY <3>1, NoSign DEF CreditPcs
  <2>3. CASE CreditDriverEarnings(r)
    <3>1. CASE q.driver = Null
      BY <2>3, <3>1, DriverCredit, NoSign DEF CreditPcs
    <3>2. CASE q.driver # Null
      <4>1. /\ q.pc = "finalize.driver" /\ n.wallet = EarningsWallet(q.driver)
            /\ n.pc \in CreditPcs /\ n.amount = Net(q.amount)
        BY <2>3, <3>2, DriverCredit DEF CreditPc, CreditPcs
      <4>2. q.amount \in Int
        BY <1>2, AmountTypes
      <4>3. Net(q.amount) \in Int /\ Within(Net(q.amount), q.amount)
        BY <4>2, NetIsShare
      <4>4. n.amount < 0 => q.amount < 0
        BY <4>1, <4>2, <4>3 DEF Within
      <4> QED
        BY <1>2, <4>1, <4>4 DEF SignOK, CreditPcs
    <3> QED
      BY <3>1, <3>2
  <2>4. CASE CreditRefund(r)
    <3>1. /\ q.pc = "refund.wallet" /\ n.wallet = PassengerWallet(q.user)
          /\ n.pc \in CreditPcs /\ n.amount = q.amount
      BY <2>4, RefundCredit DEF CreditPc, CreditPcs
    <3> QED
      BY <1>2, <3>1 DEF SignOK, CreditPcs
  <2>5. CASE FinalizePayment(r)
    <3>1. /\ q.pc = "finalize.payment" /\ n.pc = "finalize.trip" /\ Keeps(r)
      BY <2>5, GotoKeeps DEF FinalizePayment, PayAt
    <3>2. PICK p \in PaymentIds :
            /\ payments[p].amount = q.amount
            /\ q.driver = trips[payments[p].trip].driver
      BY <1>2, <3>1 DEF PayOK, BookOK, RowPcs, DriverPcs
    <3> QED
      BY <3>1, <3>2, RowSign DEF SignOK, Keeps, CreditPcs
  <2>6. CASE CommitRefund(r)
    <3>1. CASE q.method # "wallet"
      BY <2>6, <3>1, SlotWrites, NoSign DEF CommitRefund, CreditPcs
    <3>2. CASE q.method = "wallet"
      <4>1. /\ q.pc = "refund.update" /\ n.pc = "refund.wallet" /\ Keeps(r)
        BY <2>6, <3>2, GotoKeeps DEF CommitRefund, PayAt
      <4>2. PICK p \in PaymentIds :
              /\ payments[p].amount = q.amount /\ payments[p].user = q.user
              /\ payments[p].method = "wallet"
        BY <1>2, <3>2, <4>1 DEF PayOK, BookOK, RowPcs
      <4> QED
        BY <4>1, <4>2, RowSign DEF SignOK, Keeps, CreditPcs
    <3> QED
      BY <3>1, <3>2
  <2>7. CASE /\ PayStep(r) \/ CrashPay(r)
             /\ ~CreatePayment(r) /\ ~CreditDriverEarnings(r)
             /\ ~CreditRefund(r) /\ ~FinalizePayment(r) /\ ~CommitRefund(r)
    <3>1. n.pc = "idle" \/ (MovesTo(q.pc, n.pc) /\ Keeps(r))
      BY <2>7, MovesOn
    <3>2. CASE n.pc = "idle"
      BY <3>2, NoSign DEF CreditPcs
    <3>3. CASE /\ MovesTo(q.pc, n.pc) /\ Keeps(r)
               /\ n.pc \notin {"finalize.trip", "refund.wallet"}
      BY <1>2, <3>3 DEF MovesTo, Keeps, SignOK, CreditPcs
    <3>4. n.pc \notin {"finalize.trip", "refund.wallet"}
      <4>1. ASSUME NEW pc, PayGoto(r, pc), pc \notin {"finalize.trip", "refund.wallet"}
            PROVE  n.pc \notin {"finalize.trip", "refund.wallet"}
        BY <4>1, GotoKeeps
      <4>2. PayEnd(r) => n.pc = "idle"
        BY SlotWrites
      <4>3. q.next \in {"idle", "finalize.publish"}
        BY <1>2 DEF PayRequest
      <4> QED
        BY <2>7, <4>1, <4>2, <4>3 DEF PayStep, CrashPay, ProviderFails,
           ProviderSettles, ProviderInvoices, FailProcess, CheckBalance,
           DebitWallet, FinalizeTrip, PublishPaid, InsertWallet, CreditWallet
    <3> QED
      BY <3>1, <3>2, <3>3, <3>4
  <2> QED
    BY <2>1, <2>2, <2>3, <2>4, <2>5, <2>6, <2>7 DEF Step
<1>5. SignOK(payReqs[r])'
  BY <1>3, <1>4
<1>6. ASSUME NEW o \in PayReqs, o # r
      PROVE  SignOK(payReqs[o])'
  <2>1. payReqs'[o] = payReqs[o] /\ SignOK(payReqs[o])
    BY <1>6, OthersWait DEF SignInv
  <2> QED
    BY <1>1, <2>1 DEF SignOK
<1> QED
  BY <1>5, <1>6 DEF SignInv

LEMMA SignInitial ==
  ASSUME PayInit
  PROVE  SignInv
BY NoBooks, NoSign DEF SignInv, CreditPcs

LEMMA SignInvariant == PaySpec => []SignInv
<1>1. PaymentInit => SignInv
  BY SignInitial DEF PaymentInit
<1>2. PayInv /\ TripsTyped /\ BookInv /\ SignInv /\ [PayNext]_paymentVars
        => SignInv'
  <2> SUFFICES ASSUME PayInv, TripsTyped, BookInv, SignInv,
                      [PayNext]_paymentVars
               PROVE  SignInv'
    OBVIOUS
  <2>1. CASE PayNext
    BY <2>1, SignStep DEF PayNext, Step
  <2>2. CASE UNCHANGED paymentVars
    BY <2>2 DEF paymentVars, payVars, SignInv, SignOK, NegativeFor
  <2> QED
    BY <2>1, <2>2
<1> QED
  BY <1>1, <1>2, BookInvariant, PayInvariant, PTL DEF PaySpec

\* A wallet without a row holds nothing, so it is not overdrawn.
LEMMA OverdraftIs ==
  OverdraftNeedsNegativeFare
    <=> \A w \in WalletIds : Balance(w) < 0 => NegativeFor(w)
BY DEF OverdraftNeedsNegativeFare, Balance

\* A debit is of what the wallet was found to hold, so it is the credit of a
\* negative amount that overdraws.
LEMMA OverdraftStep ==
  ASSUME PayInv, TripsTyped, BookInv, SignInv, SerialInv,
         OverdraftNeedsNegativeFare, NEW r \in PayReqs, Step(r)
  PROVE  OverdraftNeedsNegativeFare'
<1> DEFINE q == payReqs[r]
<1>1. \A w : NegativeFor(w) => NegativeFor(w)'
  BY NegativeKept
<1>2. \A w \in WalletIds : Balance(w) \in Int /\ (Balance(w) < 0 => NegativeFor(w))
  BY Balances, OverdraftIs
<1>3. ASSUME NEW w \in WalletIds, Balance(w)' < 0
      PROVE  NegativeFor(w)
  <2>1. CASE DebitWallet(r)
    <3>1. /\ q.pc = "debit.update" /\ q.amount \in Int
          /\ wallets[PassengerWallet(q.user)] # Null
          /\ Balance(w)' = Balance(w) - (IF w = PassengerWallet(q.user)
                                            THEN q.amount ELSE 0)
      BY <2>1, Debited
    <3>2. wallets[PassengerWallet(q.user)] >= q.amount
      BY <3>1 DEF SerialInv, SerialOK
    <3>3. CASE w = PassengerWallet(q.user)
      <4>1. Balance(w) >= q.amount
        BY <3>1, <3>2, <3>3 DEF Balance
      <4> QED
        BY <1>2, <1>3, <3>1, <3>3, <4>1
    <3>4. CASE w # PassengerWallet(q.user)
      BY <1>2, <1>3, <3>1, <3>4
    <3> QED
      BY <3>3, <3>4
  <2>2. CASE CreditWallet(r)
    <3>1. /\ q.pc = "credit.update" /\ q.amount \in Int
          /\ Balance(w)' = Balance(w) + (IF w = q.wallet THEN q.amount ELSE 0)
      BY <2>2, Credited
    <3>2. w = q.wallet /\ q.amount < 0 => NegativeFor(w)
      BY <3>1 DEF SignInv, SignOK, CreditPcs
    <3> QED
      BY <1>2, <1>3, <3>1, <3>2
  <2>3. CASE ~DebitWallet(r) /\ ~CreditWallet(r)
    BY <1>2, <1>3, <2>3, BalanceUntouched
  <2> QED
    BY <2>1, <2>2, <2>3
<1>4. \A w \in WalletIds : Balance(w)' < 0 => NegativeFor(w)'
  BY <1>1, <1>3
<1> QED
  BY <1>4 DEF OverdraftNeedsNegativeFare, Balance

\* No wallet starts below zero.
LEMMA OverdraftInitial ==
  ASSUME PayInit
  PROVE  OverdraftNeedsNegativeFare
BY PaymentServiceAssumption
   DEF PaymentServiceAssumption, PayInit, OverdraftNeedsNegativeFare

\* While requests do not overlap, a wallet is overdrawn only by the payment of
\* a negative fare, even if handlers die between the test and the debit: what
\* is debited was found to be there.
THEOREM SerialOverdraft ==
  ASSUME OneAtATime
  PROVE  PaySpec => []OverdraftNeedsNegativeFare
<1>1. PaymentInit => OverdraftNeedsNegativeFare
  BY OverdraftInitial DEF PaymentInit
<1>2. PayInv /\ TripsTyped /\ BookInv /\ SignInv /\ SerialInv
        /\ OverdraftNeedsNegativeFare /\ [PayNext]_paymentVars
        => OverdraftNeedsNegativeFare'
  <2> SUFFICES ASSUME PayInv, TripsTyped, BookInv, SignInv, SerialInv,
                      OverdraftNeedsNegativeFare, [PayNext]_paymentVars
               PROVE  OverdraftNeedsNegativeFare'
    OBVIOUS
  <2>1. CASE PayNext
    BY <2>1, OverdraftStep DEF PayNext, Step
  <2>2. CASE UNCHANGED paymentVars
    BY <2>2 DEF paymentVars, payVars, OverdraftNeedsNegativeFare, NegativeFor
  <2> QED
    BY <2>1, <2>2
<1> QED
  BY <1>1, <1>2, SignInvariant, SerialInvariant, BookInvariant, PayInvariant,
     PTL DEF PaySpec

-------------------------------------------------------------------------------
(***************************************************************************)
(* A driver is credited only after her trip was marked.                    *)
(***************************************************************************)
HasPaidTrip(d) ==
  \E t \in TripIds : trips[t].driver = d /\ trips[t].status = "paid"

\* Whoever is about to credit a driver has marked a trip of hers.
EarnOK(q) ==
  \A d \in Drivers :
    \/ q.pc = "finalize.driver" /\ q.driver = d
    \/ q.pc \in CreditPcs /\ q.wallet = EarningsWallet(d)
    => HasPaidTrip(d)

EarnInv == (\A r \in PayReqs : EarnOK(payReqs[r])) /\ EarnedOnlyWhenPaid

LEMMA EarnStep ==
  ASSUME PayInv, TripsTyped, BookInv, EarnInv, NEW r \in PayReqs, Step(r)
  PROVE  EarnInv'
<1> DEFINE q == payReqs[r]
           n == payReqs'[r]
<1>1. \A d \in Drivers : HasPaidTrip(d) => HasPaidTrip(d)'
  BY StepIsFrozen DEF HasPaidTrip, Frozen
<1>2. EarnOK(q) /\ PayOK(q) /\ BookOK(q)
  BY DEF EarnInv, PayInv, BookInv
<1>3. EarnOK(payReqs[r])'
  <2>1. CASE n.pc \notin CreditPcs \cup {"finalize.driver"}
    BY <2>1 DEF EarnOK
  <2>2. CASE PayArrival(r) /\ n.pc \in CreditPcs \cup {"finalize.driver"}
    <3>1. \E u \in Passengers : n.wallet = PassengerWallet(u)
      BY <2>2, ArrivalBegins DEF BeginsPayment, BeginsWithRow, BeginsErrand,
         CreditPcs
    <3>2. n.pc # "finalize.driver"
      BY <2>2, ArrivalBegins DEF BeginsPayment, BeginsWithRow, BeginsErrand
    <3> QED
      BY <3>1, <3>2, WalletNames DEF EarnOK
  <2>3. CASE CreditDriverEarnings(r) /\ n.pc \in CreditPcs \cup {"finalize.driver"}
    <3>1. /\ q.pc = "finalize.driver" /\ q.driver \in Drivers
          /\ n.wallet = EarningsWallet(q.driver) /\ n.pc # "finalize.driver"
      BY <2>3, DriverCredit DEF CreditPcs, CreditPc
    <3>2. PICK d \in Drivers : d = q.driver
      BY <3>1
    <3>3. HasPaidTrip(d)'
      BY <1>1, <1>2, <3>1, <3>2 DEF EarnOK
    <3> QED
      BY <3>1, <3>2, <3>3, WalletNames DEF EarnOK
  <2>4. CASE CreditRefund(r)
    <3>1. n.wallet = PassengerWallet(q.user) /\ n.pc # "finalize.driver"
      BY <2>4, RefundCredit DEF CreditPc
    <3> QED
      BY <3>1, WalletNames DEF EarnOK
  <2>5. CASE FinalizeTrip(r)
    <3>1. n.pc = "finalize.driver" /\ Keeps(r) /\ q.pc = "finalize.trip"
      BY <2>5, GotoKeeps DEF FinalizeTrip, PayAt
    <3>2. q.trip \in TripIds /\ q.driver = trips[q.trip].driver
      BY <1>2, <3>1 DEF PayOK, BookOK, DriverPcs
    <3>3. trips'[q.trip].status = "paid" /\ trips'[q.trip].driver = q.driver
      BY <2>5, <3>2, MarkedTrip DEF FinalizeTrip
    <3> QED
      BY <3>1, <3>2, <3>3 DEF EarnOK, HasPaidTrip, Keeps, CreditPcs
  <2>6. CASE /\ PayStep(r) \/ CrashPay(r)
             /\ ~CreatePayment(r) /\ ~CreditDriverEarnings(r)
             /\ ~CreditRefund(r) /\ ~FinalizeTrip(r)
             /\ n.pc \in CreditPcs \cup {"finalize.driver"}
    <3>1. /\ MovesTo(q.pc, n.pc) /\ Keeps(r)
      BY <2>6, MovesOn DEF CreditPcs
    <3>2. q.pc # "finalize.trip"
      <4>1. q.pc = "finalize.trip" => CrashPay(r)
        BY <2>6 DEF PayStep, ProviderFails, ProviderSettles, ProviderInvoices,
           FailProcess, CheckBalance, DebitWallet, FinalizePayment,
           PublishPaid, CommitRefund, InsertWallet, CreditWallet, PayAt
      <4>2. CrashPay(r) => n.pc = "idle"
        BY SlotWrites DEF CrashPay
      <4> QED
        BY <2>6, <4>1, <4>2 DEF CreditPcs
    <3>3. q.pc \in CreditPcs /\ n.pc \in CreditPcs
      BY <2>6, <3>1, <3>2 DEF MovesTo, CreditPcs
    <3> QED
      BY <1>1, <1>2, <3>1, <3>3 DEF EarnOK, Keeps, CreditPcs
  <2>7. CASE CreatePayment(r)
    BY <2>1, <2>7, Created DEF AfterInsert, CreditPcs
  <2> QED
    BY <2>1, <2>2, <2>3, <2>4, <2>5, <2>6, <2>7 DEF Step
<1>4. ASSUME NEW o \in PayReqs, o # r
      PROVE  EarnOK(payReqs[o])'
  <2>1. payReqs'[o] = payReqs[o] /\ EarnOK(payReqs[o])
    BY <1>4, OthersWait DEF EarnInv
  <2> QED
    BY <1>1, <2>1 DEF EarnOK
<1>5. EarnedOnlyWhenPaid'
  <2> SUFFICES ASSUME NEW d \in Drivers, Balance(EarningsWallet(d))' # 0
               PROVE  HasPaidTrip(d)'
    BY DEF EarnedOnlyWhenPaid, HasPaidTrip
  <2>1. EarningsWallet(d) \in WalletIds
    BY WalletNames
  <2>2. CASE Balance(EarningsWallet(d)) # 0
    BY <1>1, <2>2 DEF EarnInv, EarnedOnlyWhenPaid, HasPaidTrip
  <2>3. CASE Balance(EarningsWallet(d)) = 0
    <3>1. CreditWallet(r) /\ q.wallet = EarningsWallet(d)
      <4>1. DebitWallet(r) =>
              Balance(EarningsWallet(d))' = Balance(EarningsWallet(d))
        BY <2>1, <2>3, Debited, WalletNames
      <4>2. CreditWallet(r) => q.wallet = EarningsWallet(d)
        BY <2>1, <2>3, Credited
      <4> QED
        BY <2>1, <2>3, <4>1, <4>2, BalanceUntouched
    <3>2. q.pc \in CreditPcs
      BY <3>1 DEF CreditWallet, PayAt, CreditPcs
    <3> QED
      BY <1>1, <1>2, <3>1, <3>2 DEF EarnOK
  <2> QED
    BY <2>2, <2>3
<1> QED
  BY <1>3, <1>4, <1>5 DEF EarnInv

\* However requests interleave or die, only a driver with a paid trip has
\* earned anything.
THEOREM LedgerEarnedOnlyWhenPaid == PaySpec => []EarnedOnlyWhenPaid
<1>1. PaymentInit => EarnInv
  BY NoBooks DEF PaymentInit, EarnInv, EarnOK, EarnedOnlyWhenPaid, Balance, CreditPcs
<1>2. PayInv /\ TripsTyped /\ BookInv /\ EarnInv /\ [PayNext]_paymentVars
        => EarnInv'
  <2> SUFFICES ASSUME PayInv, TripsTyped, BookInv, EarnInv,
                      [PayNext]_paymentVars
               PROVE  EarnInv'
    OBVIOUS
  <2>1. CASE PayNext
    BY <2>1, EarnStep DEF PayNext, Step
  <2>2. CASE UNCHANGED paymentVars
    BY <2>2 DEF paymentVars, payVars, EarnInv, EarnOK, EarnedOnlyWhenPaid,
       HasPaidTrip, Balance
  <2> QED
    BY <2>1, <2>2
<1>3. EarnInv => EarnedOnlyWhenPaid
  BY DEF EarnInv
<1> QED
  BY <1>1, <1>2, <1>3, BookInvariant, PayInvariant, PTL DEF PaySpec

-------------------------------------------------------------------------------
(***************************************************************************)
(* A row is debited at most once: what has been debited is at most the     *)
(* wallet payments that no handler has still to debit.  That is said of    *)
(* the passengers without a negative fare: two refunds of one race.        *)
(***************************************************************************)
Debiting == {r \in PayReqs : payReqs[r].pc \in DebitPcs}

PendingDebits == {payReqs[r].payment : r \in Debiting}

DebitedRows(u) == WalletPaymentsOf(u) \ PendingDebits

DebitInv ==
  /\ \A r, o \in Debiting : payReqs[r].payment = payReqs[o].payment => r = o
  /\ \A u \in Passengers : ~NegativeFor(PassengerWallet(u)) =>
       Balance(PassengerWallet(u)) >= Opening - TotalAmount(DebitedRows(u))

\* Only an INSERT writes more of a row than its status.
LEMMA RowsStay ==
  ASSUME PayInv, NEW r \in PayReqs, Step(r), ~CreatePayment(r)
  PROVE  /\ \A p \in PaymentIds : /\ payments'[p].trip = payments[p].trip
                                  /\ payments'[p].user = payments[p].user
                                  /\ payments'[p].amount = payments[p].amount
                                  /\ payments'[p].method = payments[p].method
         /\ Amount' = Amount /\ NetAmount' = NetAmount
<1>1. \A p \in PaymentIds : /\ payments'[p].trip = payments[p].trip
                            /\ payments'[p].user = payments[p].user
                            /\ payments'[p].amount = payments[p].amount
                            /\ payments'[p].method = payments[p].method
  <2>1. CASE FailProcess(r) \/ FinalizePayment(r) \/ CommitRefund(r)
    <3>1. payReqs[r].payment \in PaymentIds
      BY <2>1 DEF FailProcess, FinalizePayment, CommitRefund, PayAt, PayInv, PayOK
    <3>2. PICK s \in {"failed", "completed", "refunded"} :
            SetPaymentStatus(payReqs[r].payment, s)
      BY <2>1 DEF FailProcess, FinalizePayment, CommitRefund, FailPayment,
         CompletePayment, RefundPayment
    <3> QED
      BY <3>1, <3>2, StatusKeepsRow
  <2>2. CASE ~(FailProcess(r) \/ FinalizePayment(r) \/ CommitRefund(r))
    <3>1. PayArrival(r) \/ CrashPay(r) => UNCHANGED payments
      BY ArrivalBegins DEF CrashPay
    <3>2. UNCHANGED payments
      BY <2>2, <3>1 DEF Step, PayStep, ProviderFails, ProviderSettles,
         ProviderInvoices, CheckBalance, DebitWallet, FinalizeTrip,
         CreditDriverEarnings, PublishPaid, CreditRefund, InsertWallet,
         CreditWallet
    <3> QED
      BY <3>2
  <2> QED
    BY <2>1, <2>2
<1> QED
  BY <1>1 DEF Amount, NetAmount

\* Only a handler that has inserted its row is new among those who debit.
LEMMA DebitingStays ==
  ASSUME PayInv, NEW r \in PayReqs, Step(r), ~CreatePayment(r)
  PROVE  payReqs'[r].pc \in DebitPcs
           => /\ payReqs[r].pc = "debit.check"
              /\ payReqs'[r].payment = payReqs[r].payment
<1> DEFINE q == payReqs[r]
           n == payReqs'[r]
<1>1. CASE PayArrival(r)
  BY <1>1, ArrivalBegins DEF BeginsPayment, BeginsWithRow, BeginsErrand, DebitPcs
<1>2. CASE CreditDriverEarnings(r) \/ CreditRefund(r)
  BY <1>2, DriverCredit, RefundCredit DEF CreditPc, DebitPcs
<1>3. CASE /\ PayStep(r) \/ CrashPay(r)
           /\ ~CreditDriverEarnings(r) /\ ~CreditRefund(r)
  BY <1>3, MovesOn DEF MovesTo, Keeps, DebitPcs
<1> QED
  BY <1>1, <1>2, <1>3 DEF Step

\* The wallet row that is inserted has still to be debited.
LEMMA DebitCreated ==
  ASSUME Opening \in Nat, PayInv, TripsTyped, PayTypeOK', BookInv, DebitInv,
         NEW r \in PayReqs, CreatePayment(r)
  PROVE  DebitInv'
<1> DEFINE q == payReqs[r]
           n == payReqs'[r]
<1>1. PICK p \in PaymentIds :
        /\ q.pc = "process.insert" /\ n.pc = AfterInsert(q.method)
        /\ n.payment = p /\ ~PaymentExists(p)
        /\ payments'[p].method = q.method
        /\ \A o \in PaymentIds : o # p => payments'[o] = payments[o]
  BY Created
<1>2. n.pc \in DebitPcs <=> q.method = "wallet"
  BY <1>1 DEF AfterInsert, DebitPcs
<1>3. \A o \in PayReqs : o # r => payReqs'[o] = payReqs[o]
  BY OthersWait DEF Step, PayStep
<1>4. \A o \in Debiting : o # r /\ payReqs[o].payment # p
  <2> SUFFICES ASSUME NEW o \in Debiting
               PROVE  o # r /\ payReqs[o].payment # p
    OBVIOUS
  <2>1. PayOK(payReqs[o]) /\ payReqs[o].pc \in DebitPcs
    BY DEF PayInv, Debiting
  <2>2. PaymentExists(payReqs[o].payment)
    BY <2>1 DEF PayOK, DebitPcs
  <2> QED
    BY <1>1, <2>1, <2>2 DEF DebitPcs
<1>5. /\ q.method = "wallet" => /\ Debiting' = Debiting \cup {r}
                                /\ PendingDebits' = PendingDebits \cup {p}
      /\ q.method # "wallet" => /\ Debiting' = Debiting
                                /\ PendingDebits' = PendingDebits
  <2>1. Debiting' = Debiting \cup (IF q.method = "wallet" THEN {r} ELSE {})
    BY <1>2, <1>3, <1>4 DEF Debiting
  <2>2. \A o \in Debiting : payReqs'[o] = payReqs[o]
    BY <1>3, <1>4 DEF Debiting
  <2>3. payReqs'[r].payment = p
    BY <1>1
  <2>4. CASE q.method = "wallet"
    <3>1. Debiting' = Debiting \cup {r}
      BY <2>1, <2>4
    <3> QED
      BY <2>2, <2>3, <2>4, <3>1 DEF PendingDebits
  <2>5. CASE q.method # "wallet"
    <3>1. Debiting' = Debiting
      BY <2>1, <2>5
    <3> QED
      BY <2>2, <2>5, <3>1 DEF PendingDebits
  <2> QED
    BY <2>4, <2>5
<1>6. \A x, o \in Debiting' : payReqs'[x].payment = payReqs'[o].payment => x = o
  <2> SUFFICES ASSUME NEW x \in Debiting', NEW o \in Debiting',
                      payReqs'[x].payment = payReqs'[o].payment
               PROVE  x = o
    OBVIOUS
  <2>1. \A y \in Debiting : payReqs'[y] = payReqs[y] /\ payReqs'[y].payment # p
    BY <1>3, <1>4 DEF Debiting
  <2>2. payReqs'[r].payment = p
    BY <1>1
  <2>3. x \in Debiting \/ x = r
    BY <1>5
  <2>4. o \in Debiting \/ o = r
    BY <1>5
  <2> QED
    BY <2>1, <2>2, <2>3, <2>4 DEF DebitInv
<1>7. ASSUME NEW u \in Passengers
      PROVE  ~NegativeFor(PassengerWallet(u))' =>
               Balance(PassengerWallet(u))'
                 >= Opening - Total(Amount', DebitedRows(u)')
  <2>0. ~NegativeFor(PassengerWallet(u))' => ~NegativeFor(PassengerWallet(u))
    BY NegativeKept DEF Step, PayStep
  <2>1. p \notin WalletPaymentsOf(u)
    <3>1. payments[p].user = Null
      BY <1>1 DEF BookInv, RowUserOK
    <3> QED
      BY <3>1, TripTableAssumption DEF WalletPaymentsOf, TripTableAssumption
  <2>2. p \notin DebitedRows(u)'
    BY <1>1, <1>5 DEF DebitedRows, WalletPaymentsOf
  <2>3. \A o \in PaymentIds \ {p} : o \in DebitedRows(u) <=> o \in DebitedRows(u)'
    BY <1>1, <1>5 DEF DebitedRows, WalletPaymentsOf
  <2>4. \A o \in PaymentIds : Amount[o] \in Int /\ Amount'[o] \in Int
    <3>1. PayTypeOK
      BY DEF PayInv
    <3>2. \A o \in PaymentIds : Amount[o] \in Int
      BY <3>1, AmountsAreInt
    <3>3. \A o \in PaymentIds : payments'[o].amount \in Int
      BY AmountTypes DEF PayTypeOK
    <3> QED
      BY <3>2, <3>3 DEF Amount
  <2>5. \A o \in PaymentIds \ {p} : Amount[o] = Amount'[o]
    BY <1>1 DEF Amount
  <2>6. p \notin DebitedRows(u)
    BY <2>1 DEF DebitedRows
  <2>7. DebitedRows(u) \in SUBSET PaymentIds /\ DebitedRows(u)' \in SUBSET PaymentIds
    BY DEF DebitedRows, WalletPaymentsOf
  <2>8. /\ Total(Amount, DebitedRows(u)) \in Int
        /\ Total(Amount', DebitedRows(u)') = Total(Amount, DebitedRows(u))
    BY <2>2, <2>3, <2>4, <2>5, <2>6, <2>7, OneRow
  <2>9. ~NegativeFor(PassengerWallet(u)) =>
          Balance(PassengerWallet(u)) >= Opening - Total(Amount, DebitedRows(u))
    BY DEF DebitInv, TotalAmount
  <2>10. Balance(PassengerWallet(u))' = Balance(PassengerWallet(u))
    BY DEF CreatePayment, Balance
  <2> QED
    BY <2>0, <2>8, <2>9, <2>10
<1> QED
  BY <1>6, <1>7 DEF DebitInv, TotalAmount

\* The UPDATE debits what the row says, and the row is pending no more.
LEMMA DebitDone ==
  ASSUME Opening \in Nat, PayInv, TripsTyped, BookInv, DebitInv,
         NEW r \in PayReqs, DebitWallet(r)
  PROVE  DebitInv'
<1> DEFINE q == payReqs[r]
           n == payReqs'[r]
<1>1. /\ q.pc = "debit.update" /\ q.user \in Passengers /\ q.amount \in Int
      /\ q.method = "wallet" /\ n.pc = "finalize.payment"
      /\ \A w \in WalletIds :
           Balance(w)' = Balance(w) - (IF w = PassengerWallet(q.user)
                                         THEN q.amount ELSE 0)
  BY Debited
<1>2. PICK p \in PaymentIds :
        /\ q.payment = p /\ payments[p].user = q.user
        /\ payments[p].amount = q.amount /\ payments[p].method = "wallet"
  BY <1>1 DEF PayInv, PayOK, BookInv, BookOK, RowPcs
<1>3. \A o \in PayReqs : o # r => payReqs'[o] = payReqs[o]
  BY OthersWait DEF Step, PayStep
<1>4. UNCHANGED payments /\ Amount' = Amount
  BY DEF DebitWallet, Amount
<1>5. Debiting' = Debiting \ {r} /\ r \in Debiting
  BY <1>1, <1>3 DEF Debiting, DebitPcs
<1>6. PendingDebits' = PendingDebits \ {p} /\ p \in PendingDebits
  <2>1. \A o \in Debiting \ {r} : payReqs'[o] = payReqs[o] /\ payReqs[o].payment # p
    BY <1>2, <1>3, <1>5 DEF DebitInv, Debiting
  <2> QED
    BY <1>2, <1>5, <2>1 DEF PendingDebits
<1>7. \A x, o \in Debiting' : payReqs'[x].payment = payReqs'[o].payment => x = o
  BY <1>3, <1>5 DEF DebitInv, Debiting
<1>8. ASSUME NEW u \in Passengers
      PROVE  ~NegativeFor(PassengerWallet(u))' =>
               Balance(PassengerWallet(u))'
                 >= Opening - Total(Amount', DebitedRows(u)')
  <2>0. ~NegativeFor(PassengerWallet(u))' => ~NegativeFor(PassengerWallet(u))
    BY NegativeKept DEF Step, PayStep
  <2>1. p \in WalletPaymentsOf(u) <=> u = q.user
    BY <1>2 DEF WalletPaymentsOf
  <2>2. WalletPaymentsOf(u)' = WalletPaymentsOf(u)
    BY <1>4 DEF WalletPaymentsOf
  <2>3. /\ \A o \in PaymentIds \ {p} :
             o \in DebitedRows(u) <=> o \in DebitedRows(u)'
        /\ p \notin DebitedRows(u)
        /\ p \in DebitedRows(u)' <=> u = q.user
    BY <1>6, <2>1, <2>2 DEF DebitedRows
  <2>4. \A o \in PaymentIds : Amount[o] \in Int
    BY AmountsAreInt DEF PayInv
  <2>5. DebitedRows(u) \in SUBSET PaymentIds /\ DebitedRows(u)' \in SUBSET PaymentIds
    BY DEF DebitedRows, WalletPaymentsOf
  <2>6. /\ Total(Amount, DebitedRows(u)) \in Int
        /\ Total(Amount', DebitedRows(u)')
             = Total(Amount, DebitedRows(u)) + (IF u = q.user THEN Amount[p] ELSE 0)
    BY <1>4, <2>3, <2>4, <2>5, OneRow
  <2>7. ~NegativeFor(PassengerWallet(u)) =>
          Balance(PassengerWallet(u)) >= Opening - Total(Amount, DebitedRows(u))
    BY DEF DebitInv, TotalAmount
  <2>8. /\ Balance(PassengerWallet(u)) \in Int
        /\ Balance(PassengerWallet(u))'
             = Balance(PassengerWallet(u)) - (IF u = q.user THEN q.amount ELSE 0)
    BY <1>1, WalletNames, Balances
  <2>9. Amount[p] = q.amount
    BY <1>2 DEF Amount
  <2> QED
    BY <1>1, <2>0, <2>6, <2>7, <2>8, <2>9
<1> QED
  BY <1>7, <1>8 DEF DebitInv, TotalAmount

\* No other step lowers a passenger's balance or makes a debit pending.
LEMMA DebitElsewhere ==
  ASSUME Opening \in Nat, PayInv, TripsTyped, BookInv, SignInv, DebitInv,
         NEW r \in PayReqs, Step(r), ~CreatePayment(r), ~DebitWallet(r)
  PROVE  DebitInv'
<1>1. \A o \in PayReqs : o # r => payReqs'[o] = payReqs[o]
  BY OthersWait
<1>2. /\ Debiting' \subseteq Debiting
      /\ \A o \in Debiting' : payReqs'[o].payment = payReqs[o].payment
  BY <1>1, DebitingStays DEF Debiting, DebitPcs
<1>3. PendingDebits' \subseteq PendingDebits
  BY <1>2 DEF PendingDebits
<1>4. \A x, o \in Debiting' : payReqs'[x].payment = payReqs'[o].payment => x = o
  BY <1>2 DEF DebitInv
<1>5. ASSUME NEW u \in Passengers, ~NegativeFor(PassengerWallet(u))'
      PROVE  Balance(PassengerWallet(u))'
               >= Opening - Total(Amount', DebitedRows(u)')
  <2>0. ~NegativeFor(PassengerWallet(u))
    BY <1>5, NegativeKept
  <2>1. WalletPaymentsOf(u)' = WalletPaymentsOf(u) /\ Amount' = Amount
    BY RowsStay DEF WalletPaymentsOf
  <2>2. DebitedRows(u) \subseteq DebitedRows(u)'
    BY <1>3, <2>1 DEF DebitedRows
  <2>3. DebitedRows(u) \in SUBSET PaymentIds /\ DebitedRows(u)' \in SUBSET PaymentIds
    BY DEF DebitedRows, WalletPaymentsOf
  <2>4. /\ \A o \in PaymentIds : Amount[o] \in Int
        /\ \A o \in DebitedRows(u)' : Amount[o] >= 0
    BY <2>0, <2>1, AmountsAreInt, WalletRowsPay DEF PayInv, DebitedRows
  <2>5. IsFiniteSet(PaymentIds)
    BY PaymentServiceAssumption, FS_Interval
       DEF PaymentIds, PaymentServiceAssumption
  <2>6. IsFiniteSet(DebitedRows(u)) /\ IsFiniteSet(DebitedRows(u)')
    BY <2>3, <2>5, FS_Subset
  <2>7. Total(Amount, DebitedRows(u)) <= Total(Amount, DebitedRows(u)')
    BY <2>2, <2>3, <2>4, <2>6, TotalFewer
  <2>8. /\ Total(Amount, DebitedRows(u)) \in Int
        /\ Total(Amount, DebitedRows(u)') \in Int
    BY <2>3, <2>4, <2>6, TotalType
  <2>9. Balance(PassengerWallet(u)) >= Opening - Total(Amount, DebitedRows(u))
    BY <2>0 DEF DebitInv, TotalAmount
  <2>10. /\ Balance(PassengerWallet(u)) \in Int
         /\ Balance(PassengerWallet(u))' \in Int
         /\ Balance(PassengerWallet(u))' >= Balance(PassengerWallet(u))
    <3>1. PassengerWallet(u) \in WalletIds /\ Balance(PassengerWallet(u)) \in Int
      BY WalletNames, Balances
    <3>2. CASE CreditWallet(r)
      <4>1. /\ payReqs[r].pc = "credit.update" /\ payReqs[r].amount \in Int
            /\ Balance(PassengerWallet(u))'
                 = Balance(PassengerWallet(u))
                     + (IF PassengerWallet(u) = payReqs[r].wallet
                          THEN payReqs[r].amount ELSE 0)
        BY <3>1, <3>2, Credited
      <4>2. PassengerWallet(u) = payReqs[r].wallet => payReqs[r].amount >= 0
        BY <2>0, <4>1 DEF SignInv, SignOK, CreditPcs
      <4> QED
        BY <3>1, <4>1, <4>2
    <3>3. CASE ~CreditWallet(r)
      BY <3>1, <3>3, BalanceUntouched
    <3> QED
      BY <3>2, <3>3
  <2> QED
    BY <2>1, <2>7, <2>8, <2>9, <2>10
<1> QED
  BY <1>4, <1>5 DEF DebitInv, TotalAmount

\* At the start nobody owes a debit ...
LEMMA DebitInitial ==
  ASSUME Opening \in Nat, PayInit
  PROVE  DebitInv
<1>1. Debiting = {}
  BY NoBooks DEF Debiting, DebitPcs
<1>2. ASSUME NEW u \in Passengers
      PROVE  Balance(PassengerWallet(u)) >= Opening - TotalAmount(DebitedRows(u))
  <2>1. DebitedRows(u) = {}
    BY NoBooks, TripTableAssumption
       DEF DebitedRows, WalletPaymentsOf, TripTableAssumption
  <2>2. TotalAmount(DebitedRows(u)) = 0
    BY <2>1, TotalEmpty DEF TotalAmount
  <2>3. Balance(PassengerWallet(u)) = Opening
    BY NoBooks, NullIsNoNumber DEF Balance
  <2> QED
    BY <2>2, <2>3
<1> QED
  BY <1>1, <1>2 DEF DebitInv

\* ... and the rows still to be debited only make the bound looser.
LEMMA DebitBound ==
  ASSUME PayInv, DebitInv, Opening \in Nat
  PROVE  DebitedAtMostOnce
<1> SUFFICES ASSUME NEW u \in Passengers, ~NegativeFor(PassengerWallet(u))
             PROVE  Balance(PassengerWallet(u))
                      >= Opening - TotalAmount(WalletPaymentsOf(u))
  BY DEF DebitedAtMostOnce
<1>1. /\ DebitedRows(u) \in SUBSET WalletPaymentsOf(u)
      /\ WalletPaymentsOf(u) \in SUBSET PaymentIds
      /\ IsFiniteSet(WalletPaymentsOf(u)) /\ IsFiniteSet(DebitedRows(u))
  <2>1. IsFiniteSet(PaymentIds)
    BY PaymentServiceAssumption, FS_Interval
       DEF PaymentIds, PaymentServiceAssumption
  <2>2. DebitedRows(u) \in SUBSET WalletPaymentsOf(u)
          /\ WalletPaymentsOf(u) \in SUBSET PaymentIds
    BY DEF DebitedRows, WalletPaymentsOf
  <2> QED
    BY <2>1, <2>2, FS_Subset
<1>2. /\ \A o \in PaymentIds : Amount[o] \in Int
      /\ \A o \in WalletPaymentsOf(u) : Amount[o] >= 0
  BY AmountsAreInt, WalletRowsPay DEF PayInv
<1>3. Total(Amount, DebitedRows(u)) <= Total(Amount, WalletPaymentsOf(u))
  BY <1>1, <1>2, TotalFewer
<1>4. /\ Total(Amount, DebitedRows(u)) \in Int
      /\ Total(Amount, WalletPaymentsOf(u)) \in Int
  BY <1>1, <1>2, TotalType
<1>5. /\ Balance(PassengerWallet(u)) >= Opening - Total(Amount, DebitedRows(u))
      /\ Balance(PassengerWallet(u)) \in Int
  BY WalletNames, Balances DEF DebitInv, TotalAmount
<1> QED
  BY <1>3, <1>4, <1>5 DEF TotalAmount

\* However requests interleave or die, no payment of a fare is debited twice;
\* a passenger with a payment of a negative fare is not spoken of.
THEOREM LedgerDebitedAtMostOnce ==
  ASSUME Opening \in Nat
  PROVE  PaySpec => []DebitedAtMostOnce
<1>1. PaymentInit => DebitInv
  BY DebitInitial DEF PaymentInit
<1>2. PayInv /\ TripsTyped /\ PayInv' /\ BookInv /\ SignInv /\ DebitInv
        /\ [PayNext]_paymentVars => DebitInv'
  <2> SUFFICES ASSUME PayInv, TripsTyped, PayInv', BookInv, SignInv, DebitInv,
                      [PayNext]_paymentVars
               PROVE  DebitInv'
    OBVIOUS
  <2>1. CASE PayNext
    <3>1. PICK r \in PayReqs : Step(r)
      BY <2>1 DEF PayNext, Step
    <3>2. PayTypeOK'
      BY DEF PayInv
    <3> QED
      BY <3>1, <3>2, DebitCreated, DebitDone, DebitElsewhere
  <2>2. CASE UNCHANGED paymentVars
    BY <2>2 DEF paymentVars, payVars, DebitInv, Debiting, PendingDebits,
       DebitedRows, WalletPaymentsOf, TotalAmount, Amount, Balance, NegativeFor
  <2> QED
    BY <2>1, <2>2
<1>3. PayInv /\ DebitInv => DebitedAtMostOnce
  BY DebitBound
<1> QED
  BY <1>1, <1>2, <1>3, SignInvariant, BookInvariant, PayInvariant, PTL DEF PaySpec

-------------------------------------------------------------------------------
(***************************************************************************)
(* The two exact accounts, of a service that handles one request at a time *)
(* and whose handlers do not die: what a driver has earned or a passenger  *)
(* has spent, with what the running handler has still to move, is what the *)
(* payments table says.                                                    *)
(***************************************************************************)
Running == IF PayReqs = {} THEN IdlePay
                           ELSE payReqs[CHOOSE r \in PayReqs : TRUE]

LEMMA TheSlot ==
  ASSUME OneAtATime, NEW r \in PayReqs
  PROVE  Running = payReqs[r] /\ Running' = payReqs'[r]
BY DEF OneAtATime, Running

DriverTrips(d) == {t \in TripIds : trips[t].driver = d}

PassengerTrips(u) == {t \in TripIds : trips[t].passenger = u}

WalletCompleted(u) ==
  {p \in WalletPaymentsOf(u) : payments[p].status = "completed"}

\* Only Click finds a payment that is not as its own handler left it, only the
\* providers' methods go to a provider, and a wallet that was missing is
\* still missing.
EntryOK(q) ==
  /\ q.pc = "finalize.payment" => \/ payments[q.payment].status = "processing"
                                  \/ q.trip \in invoices
  /\ q.pc = "process.provider" => q.method # "wallet"
  /\ q.pc = "credit.insert" => wallets[q.wallet] = Null

\* What q has still to credit to d.
Coming(q, d) ==
  CASE q.pc \in {"finalize.trip", "finalize.driver"} /\ q.driver = d
         -> Net(q.amount)
    [] q.pc \in CreditPcs /\ q.wallet = EarningsWallet(d)
         -> q.amount
    [] OTHER -> 0

EarnsOK(d) ==
  LET got == Balance(EarningsWallet(d)) + Coming(Running, d)
      due == Total(NetAmount, SettledFor(d))
  IN  /\ ~NegativeFor(EarningsWallet(d)) => got >= due
      /\ Invoiced(DriverTrips(d)) \/ got = due

EntryInv == EntryOK(Running)

EarningsInv == \A d \in Drivers : EarnsOK(d)

\* A CASE with one branch to its name.
LEMMA ComingIs ==
  ASSUME NEW q \in PayRequest, NEW d \in Drivers
  PROVE  /\ Coming(q, d) \in Int
         /\ q.pc \in {"finalize.trip", "finalize.driver"} =>
              Coming(q, d) = IF q.driver = d THEN Net(q.amount) ELSE 0
         /\ q.pc \in CreditPcs =>
              Coming(q, d) = IF q.wallet = EarningsWallet(d) THEN q.amount ELSE 0
         /\ q.pc \notin CreditPcs \cup {"finalize.trip", "finalize.driver"} =>
              Coming(q, d) = 0
<1>1. q.amount \in Int /\ Net(q.amount) \in Int
  BY AmountTypes, NetIsShare
<1> QED
  BY <1>1 DEF Coming, CreditPcs

\* What a step finds at an entry, it has tested.
LEMMA EntryStep ==
  ASSUME OneAtATime, ~PayCrashes, PayInv, SerialInv, EntryInv,
         NEW r \in PayReqs, Step(r)
  PROVE  EntryInv'
<1> DEFINE q == payReqs[r]
           n == payReqs'[r]
<1>1. Running = q /\ Running' = n
  BY TheSlot
<1>2. EntryOK(q) /\ SerialOK(q) /\ invoices \subseteq invoices'
  <2>1. EntryOK(q) /\ SerialOK(q)
    BY <1>1 DEF EntryInv, SerialInv
  <2>2. PayArrival(r) \/ CrashPay(r) => UNCHANGED invoices
    BY ArrivalBegins DEF CrashPay
  <2>3. invoices \subseteq invoices'
    BY <2>2 DEF Step, PayStep, CreatePayment, ProviderFails, ProviderSettles,
       ProviderInvoices, FailProcess, CheckBalance, DebitWallet,
       FinalizePayment, FinalizeTrip, CreditDriverEarnings, PublishPaid,
       CommitRefund, CreditRefund, InsertWallet, CreditWallet
  <2> QED
    BY <2>1, <2>3
<1>3. EntryOK(payReqs[r])'
  <2>1. CASE n.pc \notin {"finalize.payment", "process.provider", "credit.insert"}
    BY <2>1 DEF EntryOK
  <2>2. CASE PayArrival(r)
    BY <2>2, ArrivalBegins
       DEF BeginsPayment, BeginsWithRow, BeginsErrand, EntryOK
  <2>3. CASE CreatePayment(r)
    BY <2>3, Created DEF AfterInsert, EntryOK
  <2>4. CASE CreditDriverEarnings(r)
    <3>1. UNCHANGED wallets
      BY <2>4 DEF CreditDriverEarnings
    <3> QED
      BY <2>4, <3>1, DriverCredit DEF CreditPc, EntryOK
  <2>5. CASE CreditRefund(r)
    <3>1. UNCHANGED wallets
      BY <2>5 DEF CreditRefund
    <3> QED
      BY <2>5, <3>1, RefundCredit DEF CreditPc, EntryOK
  <2>6. CASE ProviderSettles(r) \/ DebitWallet(r)
    <3>1. /\ n.pc = "finalize.payment" /\ Keeps(r)
          /\ q.pc \in {"process.provider", "debit.update"}
          /\ UNCHANGED payments
      BY <2>6, GotoKeeps DEF ProviderSettles, DebitWallet, PayAt
    <3> QED
      BY <1>2, <3>1 DEF SerialOK, EntryOK, Keeps
  <2>7. CASE /\ PayStep(r)
             /\ ~CreatePayment(r) /\ ~CreditDriverEarnings(r)
             /\ ~CreditRefund(r) /\ ~ProviderSettles(r) /\ ~DebitWallet(r)
    <3>1. n.pc = "idle" \/ MovesTo(q.pc, n.pc)
      BY <2>7, MovesOn
    <3>2. n.pc # "finalize.payment"
      <4>1. ASSUME NEW pc, PayGoto(r, pc), pc # "finalize.payment"
            PROVE  n.pc # "finalize.payment"
        BY <4>1, GotoKeeps
      <4>2. PayEnd(r) => n.pc = "idle"
        BY SlotWrites
      <4>3. payReqs[r].next \in {"idle", "finalize.publish"}
        BY DEF PayInv, PayTypeOK, PayRequest
      <4> QED
        BY <2>7, <4>1, <4>2, <4>3 DEF PayStep, ProviderFails, ProviderInvoices,
           FailProcess, CheckBalance, FinalizePayment, FinalizeTrip,
           PublishPaid, CommitRefund, InsertWallet, CreditWallet
    <3> QED
      BY <2>1, <3>1, <3>2 DEF MovesTo
  <2> QED
    BY <2>2, <2>3, <2>4, <2>5, <2>6, <2>7 DEF Step, CrashPay
<1> QED
  BY <1>1, <1>3 DEF EntryInv, EntryOK

\* A wallet that is to be inserted is inserted.
LEMMA Inserted ==
  ASSUME OneAtATime, PayInv, EntryInv, NEW r \in PayReqs, InsertWallet(r)
  PROVE  \/ payReqs[r].pc = "balance.insert" /\ payReqs'[r].pc = "idle"
         \/ /\ payReqs[r].pc = "credit.insert"
            /\ payReqs'[r].pc = "credit.update" /\ Keeps(r)
<1>1. EntryOK(payReqs[r])
  BY TheSlot DEF EntryInv
<1>2. \/ payReqs[r].pc = "balance.insert" /\ PayEnd(r)
      \/ payReqs[r].pc = "credit.insert" /\ PayGoto(r, "credit.update")
  BY <1>1 DEF InsertWallet, EntryOK
<1> QED
  BY <1>2, SlotWrites, GotoKeeps

\* Money on its way to a driver arrives.
LEMMA EarningsFlow ==
  ASSUME OneAtATime, ~PayCrashes, PayInv, PayTypeOK', EntryInv,
         NEW r \in PayReqs, Step(r), ~FinalizePayment(r), NEW d \in Drivers
  PROVE  Balance(EarningsWallet(d))' + Coming(payReqs'[r], d)
           = Balance(EarningsWallet(d)) + Coming(payReqs[r], d)
<1> DEFINE q == payReqs[r]
           n == payReqs'[r]
           w == EarningsWallet(d)
<1>1. q \in PayRequest /\ n \in PayRequest
  BY DEF PayInv, PayTypeOK
<1>2. w \in WalletIds /\ Balance(w) \in Int
  BY WalletNames, Balances
<1>3. ASSUME Coming(n, d) = Coming(q, d), ~DebitWallet(r), ~CreditWallet(r)
      PROVE  Balance(w)' + Coming(n, d) = Balance(w) + Coming(q, d)
  BY <1>2, <1>3, BalanceUntouched
<1>4. CASE PayArrival(r)
  <2>1. q.pc = "idle"
    BY <1>4, ArrivalBegins
  <2>2. n.pc \in CreditPcs => n.wallet # w
    BY <1>4, ArrivalBegins, WalletNames
       DEF BeginsPayment, BeginsWithRow, BeginsErrand, CreditPcs
  <2>3. n.pc \notin {"finalize.trip", "finalize.driver"}
    BY <1>4, ArrivalBegins DEF BeginsPayment, BeginsWithRow, BeginsErrand
  <2>4. Coming(q, d) = 0 /\ Coming(n, d) = 0
    BY <1>1, <2>1, <2>2, <2>3, ComingIs DEF CreditPcs
  <2> QED
    BY <1>3, <2>1, <2>4 DEF DebitWallet, CreditWallet, PayAt
<1>5. CASE CreatePayment(r)
  <2>1. q.pc = "process.insert"
          /\ n.pc \in {"finalize.payment", "debit.check", "process.provider"}
    BY <1>5, Created DEF AfterInsert
  <2>2. Coming(q, d) = 0 /\ Coming(n, d) = 0
    BY <1>1, <2>1, ComingIs DEF CreditPcs
  <2> QED
    BY <1>3, <2>1, <2>2 DEF DebitWallet, CreditWallet, PayAt
<1>6. CASE CreditDriverEarnings(r)
  <2>1. q.pc = "finalize.driver"
    BY <1>6, DriverCredit
  <2>2. Coming(q, d) = IF q.driver = d THEN Net(q.amount) ELSE 0
    BY <1>1, <2>1, ComingIs
  <2>3. CASE q.driver = Null
    <3>1. n.pc = "finalize.publish" /\ q.driver # d
      BY <1>6, <2>3, DriverCredit, TripTableAssumption DEF TripTableAssumption
    <3>2. Coming(n, d) = 0
      BY <1>1, <3>1, ComingIs DEF CreditPcs
    <3> QED
      BY <1>3, <2>1, <2>2, <3>1, <3>2 DEF DebitWallet, CreditWallet, PayAt
  <2>4. CASE q.driver # Null
    <3>1. n.pc \in CreditPcs /\ n.wallet = EarningsWallet(q.driver)
            /\ n.amount = Net(q.amount)
      BY <1>6, <2>4, DriverCredit DEF CreditPc, CreditPcs
    <3>2. Coming(n, d) = IF q.driver = d THEN Net(q.amount) ELSE 0
      BY <1>1, <3>1, ComingIs, WalletNames
    <3> QED
      BY <1>3, <2>1, <2>2, <3>2 DEF DebitWallet, CreditWallet, PayAt
  <2> QED
    BY <2>3, <2>4
<1>7. CASE CreditRefund(r)
  <2>1. /\ q.pc = "refund.wallet" /\ n.pc \in CreditPcs
        /\ n.wallet = PassengerWallet(q.user)
    BY <1>7, RefundCredit DEF CreditPc, CreditPcs
  <2>2. Coming(q, d) = 0 /\ Coming(n, d) = 0
    BY <1>1, <2>1, ComingIs, WalletNames DEF CreditPcs
  <2> QED
    BY <1>3, <2>1, <2>2 DEF DebitWallet, CreditWallet, PayAt
<1>8. CASE DebitWallet(r)
  <2>1. /\ q.pc = "debit.update" /\ n.pc = "finalize.payment"
        /\ Balance(w)' = Balance(w)
    BY <1>2, <1>8, Debited, WalletNames
  <2>2. Coming(q, d) = 0 /\ Coming(n, d) = 0
    BY <1>1, <2>1, ComingIs DEF CreditPcs
  <2> QED
    BY <2>1, <2>2
<1>9. CASE InsertWallet(r)
  <2>1. ~DebitWallet(r) /\ ~CreditWallet(r)
    BY <1>9 DEF InsertWallet, DebitWallet, CreditWallet, PayAt
  <2>2. CASE q.pc = "balance.insert" /\ n.pc = "idle"
    BY <1>1, <1>3, <2>1, <2>2, ComingIs DEF CreditPcs
  <2>3. CASE /\ q.pc = "credit.insert" /\ n.pc = "credit.update" /\ Keeps(r)
    <3>1. Coming(n, d) = Coming(q, d)
      BY <1>1, <2>3, ComingIs DEF CreditPcs, Keeps
    <3> QED
      BY <1>3, <2>1, <3>1
  <2> QED
    BY <1>9, <2>2, <2>3, Inserted
<1>10. CASE CreditWallet(r)
  <2>1. /\ q.pc = "credit.update" /\ q.amount \in Int
        /\ n.pc \in {"idle", "finalize.publish"}
        /\ Balance(w)' = Balance(w) + (IF w = q.wallet THEN q.amount ELSE 0)
    BY <1>2, <1>10, Credited
  <2>2. Coming(q, d) = IF q.wallet = w THEN q.amount ELSE 0
    BY <1>1, <2>1, ComingIs DEF CreditPcs
  <2>3. Coming(n, d) = 0
    BY <1>1, <2>1, ComingIs DEF CreditPcs
  <2> QED
    BY <1>2, <2>1, <2>2, <2>3
<1>11. CASE /\ PayStep(r)
            /\ ~CreatePayment(r) /\ ~CreditDriverEarnings(r)
            /\ ~CreditRefund(r) /\ ~DebitWallet(r)
            /\ ~InsertWallet(r) /\ ~CreditWallet(r)
  <2>1. \/ n.pc = "idle" /\ q.pc \in LastPcs
        \/ MovesTo(q.pc, n.pc) /\ Keeps(r)
    BY <1>11, MovesOn DEF CrashPay
  <2>2. q.pc \notin CreditPcs
    BY <1>11 DEF PayStep, ProviderFails, ProviderSettles, ProviderInvoices,
       FailProcess, CheckBalance, FinalizePayment, FinalizeTrip, PublishPaid,
       CommitRefund, PayAt, CreditPcs
  <2>3. CASE n.pc = "idle" /\ q.pc \in LastPcs
    <3>1. Coming(q, d) = 0 /\ Coming(n, d) = 0
      BY <1>1, <2>2, <2>3, ComingIs DEF LastPcs, CreditPcs
    <3> QED
      BY <1>3, <1>11, <3>1
  <2>4. CASE MovesTo(q.pc, n.pc) /\ Keeps(r) /\ q.pc = "finalize.trip"
    <3>1. Coming(n, d) = Coming(q, d)
      BY <1>1, <2>4, ComingIs DEF MovesTo, Keeps
    <3> QED
      BY <1>3, <1>11, <3>1
  <2>5. CASE MovesTo(q.pc, n.pc) /\ Keeps(r) /\ q.pc # "finalize.trip"
    <3>1. q.pc # "finalize.payment"
      BY <1>11 DEF PayStep, ProviderFails, ProviderSettles, ProviderInvoices,
         FailProcess, CheckBalance, FinalizeTrip, PublishPaid, CommitRefund,
         PayAt
    <3>2. Coming(q, d) = 0 /\ Coming(n, d) = 0
      BY <1>1, <2>2, <2>5, <3>1, ComingIs DEF MovesTo, CreditPcs
    <3> QED
      BY <1>3, <1>11, <3>2
  <2> QED
    BY <2>1, <2>3, <2>4, <2>5
<1> QED
  BY <1>4, <1>5, <1>6, <1>7, <1>8, <1>9, <1>10, <1>11 DEF Step, CrashPay

\* What is invoiced stays so.
LEMMA InvoicedStays ==
  ASSUME PayInv, TripsTyped, NEW r \in PayReqs, Step(r)
  PROVE  /\ \A d \in Drivers :
              /\ DriverTrips(d)' = DriverTrips(d)
              /\ Invoiced(DriverTrips(d)) => Invoiced(DriverTrips(d))'
         /\ \A u \in Passengers :
              /\ PassengerTrips(u)' = PassengerTrips(u)
              /\ Invoiced(PassengerTrips(u)) => Invoiced(PassengerTrips(u))'
<1>1. Frozen
  BY StepIsFrozen
<1> QED
  BY <1>1 DEF Frozen, DriverTrips, PassengerTrips, Invoiced

\* Taken payments stay taken, and only FinalizePayment takes one.
LEMMA SettledStays ==
  ASSUME OneAtATime, PayInv, TripsTyped, SerialInv, NEW r \in PayReqs, Step(r),
         ~CreatePayment(r), ~FinalizePayment(r), NEW d \in Drivers
  PROVE  SettledFor(d)' = SettledFor(d)
<1> DEFINE q == payReqs[r]
<1>1. \A p \in PaymentIds :
        payments[p].status \in Taken
          => trips'[payments[p].trip].driver = trips[payments[p].trip].driver
  <2> SUFFICES ASSUME NEW p \in PaymentIds, payments[p].status \in Taken
               PROVE  trips'[payments[p].trip].driver
                        = trips[payments[p].trip].driver
    OBVIOUS
  <2>1. payments[p].trip \in TripIds
    BY DEF PayInv, RowOK, PaymentExists, Taken
  <2> QED
    BY <2>1, StepIsFrozen DEF Frozen
<1>2. \A p \in PaymentIds :
        /\ payments'[p].trip = payments[p].trip
        /\ payments'[p].status \in Taken <=> payments[p].status \in Taken
  <2>1. \A p \in PaymentIds : payments'[p].trip = payments[p].trip
    BY RowsStay
  <2>2. CASE FailProcess(r) \/ CommitRefund(r)
    <3>1. /\ q.payment \in PaymentIds /\ SerialOK(q)
          /\ q.pc \in {"process.fail", "refund.update"}
      BY <2>2 DEF FailProcess, CommitRefund, PayAt, PayInv, PayOK, SerialInv
    <3>2. \/ q.pc = "process.fail" /\ SetPaymentStatus(q.payment, "failed")
          \/ q.pc = "refund.update" /\ SetPaymentStatus(q.payment, "refunded")
      BY <2>2 DEF FailProcess, CommitRefund, FailPayment, RefundPayment, PayAt
    <3>3. \A o \in PaymentIds : o # q.payment => payments'[o] = payments[o]
      BY <3>1, <3>2, StatusKeepsRow
    <3>4. payments'[q.payment].status \in Taken
            <=> payments[q.payment].status \in Taken
      BY <3>1, <3>2, StatusKeepsRow DEF SerialOK, Taken
    <3> QED
      BY <2>1, <3>3, <3>4
  <2>3. CASE ~(FailProcess(r) \/ CommitRefund(r))
    <3>1. UNCHANGED payments
      <4>1. PayArrival(r) \/ CrashPay(r) => UNCHANGED payments
        BY ArrivalBegins DEF CrashPay
      <4> QED
        BY <2>3, <4>1 DEF Step, PayStep, ProviderFails, ProviderSettles,
           ProviderInvoices, CheckBalance, DebitWallet, FinalizeTrip,
           CreditDriverEarnings, PublishPaid, CreditRefund, InsertWallet,
           CreditWallet
    <3> QED
      BY <3>1
  <2> QED
    BY <2>2, <2>3
<1> QED
  BY <1>1, <1>2 DEF SettledFor, Taken

LEMMA SettledRows ==
  \A d \in Drivers : /\ SettledFor(d) \in SUBSET PaymentIds
                     /\ SettledFor(d)' \in SUBSET PaymentIds
BY DEF SettledFor

LEMMA EarningsStep ==
  ASSUME OneAtATime, ~PayCrashes, PayInv, PayTypeOK', TripsTyped, BookInv,
         SerialInv, EntryInv, EarningsInv, NEW r \in PayReqs, Step(r)
  PROVE  EarningsInv'
<1> DEFINE q == payReqs[r]
           n == payReqs'[r]
<1>1. Running = q /\ Running' = n /\ q \in PayRequest /\ n \in PayRequest
  BY TheSlot DEF PayInv, PayTypeOK
<1> SUFFICES ASSUME NEW d \in Drivers
             PROVE  EarnsOK(d)'
  BY DEF EarningsInv
<1> DEFINE w    == EarningsWallet(d)
           due  == Total(NetAmount, SettledFor(d))
           next == Total(NetAmount', SettledFor(d)')
<1>2. /\ ~NegativeFor(w) => Balance(w) + Coming(q, d) >= due
      /\ Invoiced(DriverTrips(d)) \/ Balance(w) + Coming(q, d) = due
      /\ NegativeFor(w) => NegativeFor(w)'
  BY <1>1, NegativeKept DEF EarningsInv, EarnsOK
<1>3. /\ Balance(w) \in Int /\ Balance(w)' \in Int
      /\ Coming(q, d) \in Int /\ Coming(n, d) \in Int
  <2>1. Balance(w)' \in Int
    BY WalletNames DEF PayTypeOK, Balance
  <2> QED
    BY <1>1, <2>1, Balances, ComingIs, WalletNames
<1>4. Invoiced(DriverTrips(d)) => Invoiced(DriverTrips(d))'
  BY InvoicedStays
<1>5. \A o \in PaymentIds : NetAmount[o] \in Int /\ NetAmount'[o] \in Int
  <2>1. \A o \in PaymentIds : NetAmount[o] \in Int
    BY AmountsAreInt DEF PayInv
  <2>2. ASSUME NEW o \in PaymentIds
        PROVE  NetAmount'[o] \in Int
    <3>1. payments'[o].amount \in Int
      BY AmountTypes DEF PayTypeOK
    <3> QED
      BY <3>1, NetIsShare DEF NetAmount
  <2> QED
    BY <2>1, <2>2
<1>6. ASSUME /\ ~NegativeFor(w) => Balance(w)' + Coming(n, d) >= next
             /\ \/ Invoiced(DriverTrips(d))'
                \/ Balance(w)' + Coming(n, d) = next
      PROVE  EarnsOK(d)'
  <2>1. ~NegativeFor(w)' => Balance(w)' + Coming(n, d) >= next
    BY <1>2, <1>6
  <2> QED
    BY <1>1, <1>6, <2>1 DEF EarnsOK, Coming
<1>7. CASE ~CreatePayment(r) /\ ~FinalizePayment(r)
  <2>1. Balance(w)' + Coming(n, d) = Balance(w) + Coming(q, d)
    BY <1>7, EarningsFlow
  <2>2. next = due
    BY <1>7, SettledStays, RowsStay
  <2> QED
    BY <1>2, <1>4, <1>6, <2>1, <2>2
<1>8. CASE CreatePayment(r)
  <2>1. ~FinalizePayment(r)
    BY <1>8 DEF CreatePayment, FinalizePayment, PayAt
  <2>2. Balance(w)' + Coming(n, d) = Balance(w) + Coming(q, d)
    BY <2>1, EarningsFlow
  <2>3. PICK p \in PaymentIds :
          /\ ~PaymentExists(p) /\ payments'[p].status = "processing"
          /\ \A o \in PaymentIds : o # p => payments'[o] = payments[o]
    BY <1>8, Created
  <2>4. \A o \in PaymentIds \ {p} : NetAmount[o] = NetAmount'[o]
    BY <2>3 DEF NetAmount
  <2>5. p \notin SettledFor(d) /\ p \notin SettledFor(d)'
    BY <2>3 DEF SettledFor, PaymentExists
  <2>6. \A o \in PaymentIds \ {p} : o \in SettledFor(d) <=> o \in SettledFor(d)'
    BY <1>8, <2>3 DEF SettledFor, CreatePayment
  <2>7. next = due /\ due \in Int
    BY <1>5, <2>4, <2>5, <2>6, OneRow, SettledRows
  <2> QED
    BY <1>2, <1>4, <1>6, <2>2, <2>7
<1>9. CASE FinalizePayment(r)
  <2>1. /\ q.pc = "finalize.payment" /\ PayOK(q) /\ BookOK(q) /\ EntryOK(q)
        /\ SetPaymentStatus(q.payment, "completed") /\ UNCHANGED trips
        /\ n.pc = "finalize.trip" /\ Keeps(r)
    BY <1>1, <1>9, GotoKeeps
       DEF FinalizePayment, PayAt, CompletePayment, PayInv, BookInv, EntryInv
  <2>2. PICK p \in PaymentIds :
          /\ q.payment = p /\ payments[p].trip = q.trip
          /\ payments[p].amount = q.amount
          /\ q.driver = trips[q.trip].driver /\ q.trip \in TripIds
          /\ payments[p].status = "processing" \/ q.trip \in invoices
    BY <2>1 DEF PayOK, BookOK, EntryOK, RowPcs, DriverPcs
  <2>3. /\ payments'[p].status = "completed" /\ payments'[p].trip = q.trip
        /\ payments'[p].amount = q.amount
        /\ \A o \in PaymentIds : o # p => payments'[o] = payments[o]
    BY <2>1, <2>2, StatusKeepsRow
  <2>4. NetAmount' = NetAmount
    BY <1>9, RowsStay DEF Step, FinalizePayment, CreatePayment, PayAt
  <2>5. p \in SettledFor(d)' <=> q.driver = d
    BY <2>1, <2>2, <2>3 DEF SettledFor
  <2>6. p \in SettledFor(d) => q.driver = d /\ q.trip \in invoices
    BY <2>2 DEF SettledFor
  <2>7. \A o \in PaymentIds \ {p} : o \in SettledFor(d) <=> o \in SettledFor(d)'
    BY <2>1, <2>3 DEF SettledFor
  <2>8. /\ due \in Int
        /\ next = due + (IF p \in SettledFor(d)' THEN NetAmount[p] ELSE 0)
                      - (IF p \in SettledFor(d) THEN NetAmount[p] ELSE 0)
    BY <1>5, <2>4, <2>7, OneRow, SettledRows
  <2>9. /\ NetAmount[p] = Net(q.amount) /\ Net(q.amount) \in Int
        /\ q.driver = d /\ ~NegativeFor(w) => Net(q.amount) >= 0
    <3>1. q.amount \in Int
      BY <1>1, AmountTypes
    <3>2. Net(q.amount) \in Int /\ Within(Net(q.amount), q.amount)
      BY <3>1, NetIsShare
    <3>3. ASSUME q.driver = d, q.amount < 0
          PROVE  NegativeFor(w)
      <4>1. payments[p].amount < 0 /\ trips[payments[p].trip].driver = d
        BY <2>2, <3>3
      <4> QED
        BY <4>1, RowSign
    <3> QED
      BY <2>2, <3>1, <3>2, <3>3 DEF NetAmount, Within
  <2>10. Coming(q, d) = 0 /\ Coming(n, d) = IF q.driver = d THEN Net(q.amount) ELSE 0
    BY <1>1, <2>1, ComingIs DEF CreditPcs, Keeps
  <2>11. Balance(w)' = Balance(w)
    BY <1>9, BalanceUntouched, WalletNames
       DEF FinalizePayment, DebitWallet, CreditWallet, PayAt
  <2>12. p \in SettledFor(d) => Invoiced(DriverTrips(d))
    BY <2>2, <2>6 DEF Invoiced, DriverTrips
  <2> QED
    BY <1>2, <1>3, <1>4, <1>6, <2>5, <2>6, <2>8, <2>9, <2>10, <2>11, <2>12
<1> QED
  BY <1>7, <1>8, <1>9

LEMMA EntryInitial ==
  ASSUME PayInit
  PROVE  EntryInv
<1>1. Running.pc = "idle"
  BY NoBooks DEF Running, IdlePay
<1> QED
  BY <1>1 DEF EntryInv, EntryOK

\* The inductive invariant behind both accounts.
LEMMA EntryInvariant ==
  ASSUME OneAtATime, ~PayCrashes
  PROVE  PaySpec => []EntryInv
<1>1. PaymentInit => EntryInv
  BY EntryInitial DEF PaymentInit
<1>2. PayInv /\ SerialInv /\ EntryInv /\ [PayNext]_paymentVars => EntryInv'
  <2> SUFFICES ASSUME PayInv, SerialInv, EntryInv, [PayNext]_paymentVars
               PROVE  EntryInv'
    OBVIOUS
  <2>1. CASE PayNext
    BY <2>1, EntryStep DEF PayNext, Step
  <2>2. CASE UNCHANGED paymentVars
    BY <2>2 DEF paymentVars, payVars, EntryInv, EntryOK, Running
  <2> QED
    BY <2>1, <2>2
<1> QED
  BY <1>1, <1>2, SerialInvariant, PayInvariant, PTL DEF PaySpec

LEMMA EarningsInitial ==
  ASSUME PayInit
  PROVE  EarningsInv
<1> SUFFICES ASSUME NEW d \in Drivers
             PROVE  EarnsOK(d)
  BY DEF EarningsInv
<1>1. SettledFor(d) = {}
  BY NoBooks DEF SettledFor
<1>2. Total(NetAmount, SettledFor(d)) = 0
  BY <1>1, TotalEmpty
<1>3. Balance(EarningsWallet(d)) = 0
  BY NoBooks DEF Balance
<1>4. Running.pc = "idle"
  BY NoBooks DEF Running, IdlePay
<1>5. Coming(Running, d) = 0
  BY <1>4 DEF Coming, CreditPcs
<1> QED
  BY <1>2, <1>3, <1>5 DEF EarnsOK

\* When no handler runs, nothing is on its way.
LEMMA EarningsAtRest ==
  ASSUME PayInv, EarningsInv
  PROVE  EarningsMatchPayments
<1> SUFFICES ASSUME Quiet, NEW d \in Drivers
             PROVE  /\ ~NegativeFor(EarningsWallet(d)) =>
                         Balance(EarningsWallet(d)) >= TotalNet(SettledFor(d))
                    /\ ~Invoiced({t \in TripIds : trips[t].driver = d})
                         => Balance(EarningsWallet(d)) = TotalNet(SettledFor(d))
  BY DEF EarningsMatchPayments
<1>1. Running.pc = "idle"
  BY DEF Running, IdlePay, Quiet, PayAt
<1>2. Coming(Running, d) = 0 /\ Balance(EarningsWallet(d)) \in Int
  BY <1>1, Balances, WalletNames DEF Coming, CreditPcs
<1> QED
  BY <1>2 DEF EarningsInv, EarnsOK, TotalNet, DriverTrips

\* While requests do not overlap and handlers do not die, a driver has been
\* credited for every payment of her trips that went through, and for nothing
\* else unless Click confirms an invoice more than once; if one of them is of a
\* negative fare, a repetition takes it from her again.
THEOREM LedgerEarningsMatchPayments ==
  ASSUME OneAtATime, ~PayCrashes
  PROVE  PaySpec => []EarningsMatchPayments
<1>1. PaymentInit => EarningsInv
  BY EarningsInitial DEF PaymentInit
<1>2. PayInv /\ PayInv' /\ TripsTyped /\ BookInv /\ SerialInv /\ EntryInv
        /\ EarningsInv /\ [PayNext]_paymentVars => EarningsInv'
  <2> SUFFICES ASSUME PayInv, PayInv', TripsTyped, BookInv, SerialInv,
                      EntryInv, EarningsInv, [PayNext]_paymentVars
               PROVE  EarningsInv'
    OBVIOUS
  <2>1. CASE PayNext
    <3>1. PICK r \in PayReqs : Step(r)
      BY <2>1 DEF PayNext, Step
    <3>2. PayTypeOK'
      BY DEF PayInv
    <3> QED
      BY <3>1, <3>2, EarningsStep
  <2>2. CASE UNCHANGED paymentVars
    BY <2>2 DEF paymentVars, payVars, EarningsInv, EarnsOK, Running, Coming,
       SettledFor, NetAmount, Balance, DriverTrips, Invoiced, NegativeFor
  <2> QED
    BY <2>1, <2>2
<1>3. PayInv /\ EarningsInv => EarningsMatchPayments
  BY EarningsAtRest
<1> QED
  BY <1>1, <1>2, <1>3, EntryInvariant, SerialInvariant, BookInvariant,
     PayInvariant, PTL DEF PaySpec

-------------------------------------------------------------------------------
\* What q has taken from u's wallet, or has still to give back to it.
Held(q, u) ==
  CASE /\ q.pc = "finalize.payment" /\ q.method = "wallet" /\ q.user = u
       /\ payments[q.payment].status = "processing"
         -> q.amount
    [] q.pc = "refund.wallet" /\ q.user = u
         -> q.amount
    [] q.pc \in CreditPcs /\ q.wallet = PassengerWallet(u)
         -> q.amount
    [] OTHER -> 0

SpendsOK(u) ==
  LET spent == Opening - Balance(PassengerWallet(u)) - Held(Running, u)
      due   == Total(Amount, WalletCompleted(u))
  IN  /\ ~NegativeFor(PassengerWallet(u)) => spent <= due
      /\ Invoiced(PassengerTrips(u)) \/ spent = due

SpendingInv == \A u \in Passengers : SpendsOK(u)

\* As for Coming.
HeldOf(q, row, u) ==
  CASE /\ q.pc = "finalize.payment" /\ q.method = "wallet" /\ q.user = u
       /\ row.status = "processing"
         -> q.amount
    [] q.pc = "refund.wallet" /\ q.user = u
         -> q.amount
    [] q.pc \in CreditPcs /\ q.wallet = PassengerWallet(u)
         -> q.amount
    [] OTHER -> 0

LEMMA HeldIs ==
  ASSUME NEW q \in PayRequest, NEW row, NEW u \in Passengers
  PROVE  /\ HeldOf(q, row, u) \in Int
         /\ q.pc = "finalize.payment" =>
              HeldOf(q, row, u) =
                IF q.method = "wallet" /\ q.user = u /\ row.status = "processing"
                  THEN q.amount ELSE 0
         /\ q.pc = "refund.wallet" =>
              HeldOf(q, row, u) = IF q.user = u THEN q.amount ELSE 0
         /\ q.pc \in CreditPcs =>
              HeldOf(q, row, u) = IF q.wallet = PassengerWallet(u)
                                    THEN q.amount ELSE 0
         /\ q.pc \notin CreditPcs \cup {"finalize.payment", "refund.wallet"} =>
              HeldOf(q, row, u) = 0
<1>1. q.amount \in Int
  BY AmountTypes
<1> QED
  BY <1>1 DEF HeldOf, CreditPcs

\* What is held for u before and after a step.
Before(r, u) == HeldOf(payReqs[r], payments[payReqs[r].payment], u)
After(r, u)  == HeldOf(payReqs'[r], payments'[payReqs'[r].payment], u)

LEMMA HeldInSlot ==
  ASSUME OneAtATime, NEW r \in PayReqs, NEW u \in Passengers
  PROVE  Held(Running, u) = Before(r, u) /\ Held(Running, u)' = After(r, u)
BY TheSlot DEF Held, HeldOf, Before, After

\* Money taken from a passenger is accounted for or comes back; a webhook that
\* finds the row of an interrupted wallet payment counts it as taken.
LEMMA SpendingFlow ==
  ASSUME OneAtATime, ~PayCrashes, TopUps = {}, PayInv, PayTypeOK', BookInv,
         SerialInv, EntryInv, NEW r \in PayReqs, Step(r), ~FinalizePayment(r),
         ~CommitRefund(r), NEW u \in Passengers
  PROVE  LET old == Balance(PassengerWallet(u)) + Before(r, u)
             new == Balance(PassengerWallet(u))' + After(r, u)
         IN  /\ ~NegativeFor(PassengerWallet(u)) => new >= old
             /\ Invoiced(PassengerTrips(u)) \/ new = old
<1> DEFINE q == payReqs[r]
           n == payReqs'[r]
           w == PassengerWallet(u)
<1>1. q \in PayRequest /\ n \in PayRequest
  BY DEF PayInv, PayTypeOK
<1>2. w \in WalletIds /\ Balance(w) \in Int /\ Before(r, u) \in Int
        /\ After(r, u) \in Int
  BY <1>1, WalletNames, Balances, HeldIs DEF Before, After
<1> DEFINE old == Balance(w) + Before(r, u)
           new == Balance(w)' + After(r, u)
<1>3. ASSUME After(r, u) = Before(r, u), ~DebitWallet(r), ~CreditWallet(r)
      PROVE  new = old
  BY <1>2, <1>3, BalanceUntouched
<1>4. ASSUME new = old
      PROVE  new >= old
  BY <1>2, <1>4
<1>5. CASE PayArrival(r)
  <2>1. q.pc = "idle" /\ ~DebitWallet(r) /\ ~CreditWallet(r)
    BY <1>5, ArrivalBegins DEF DebitWallet, CreditWallet, PayAt
  <2>2. Before(r, u) = 0
    BY <1>1, <2>1, HeldIs DEF Before, CreditPcs
  <2>3. Balance(w)' = Balance(w)
    BY <1>2, <2>1, BalanceUntouched
  <2>4. CASE n.pc = "finalize.payment" /\ n.user = u
    <3>1. BeginsWithRow(n)
      BY <1>5, <2>4, ArrivalBegins DEF BeginsPayment, BeginsErrand
    <3>2. /\ n.trip \in invoices /\ n.trip \in TripIds
          /\ trips[n.trip].passenger = u
      BY <2>4, <3>1 DEF BeginsWithRow, BookInv, RowUserOK
    <3>3. Invoiced(PassengerTrips(u))
      BY <3>2 DEF Invoiced, PassengerTrips
    <3>4. ~NegativeFor(w) => After(r, u) >= 0
      <4>1. /\ n.payment \in PaymentIds /\ payments[n.payment].user = u
            /\ payments[n.payment].amount = n.amount
            /\ payments[n.payment].method = n.method
        BY <2>4, <3>1 DEF BeginsWithRow
      <4>2. n.amount \in Int
        BY <1>1, AmountTypes
      <4>3. n.method = "wallet" /\ ~NegativeFor(w) => n.amount >= 0
        BY <4>1, <4>2, RowSign
      <4> QED
        BY <1>1, <2>4, <4>2, <4>3, HeldIs DEF After
    <3> QED
      BY <1>2, <2>2, <2>3, <3>3, <3>4
  <2>5. CASE ~(n.pc = "finalize.payment" /\ n.user = u)
    <3>1. n.pc \notin CreditPcs \cup {"refund.wallet"}
      BY <1>5, ArrivalBegins
         DEF BeginsPayment, BeginsWithRow, BeginsErrand, CreditPcs
    <3>2. After(r, u) = 0
      BY <1>1, <2>5, <3>1, HeldIs DEF After
    <3> QED
      BY <1>3, <1>4, <2>1, <2>2, <3>2
  <2> QED
    BY <2>4, <2>5
<1>6. CASE CreatePayment(r)
  <2>1. /\ q.pc = "process.insert" /\ n.method = q.method
        /\ n.pc \in {"finalize.payment", "debit.check", "process.provider"}
        /\ n.pc = "finalize.payment" => n.method # "wallet"
    BY <1>6, Created DEF AfterInsert
  <2>2. Before(r, u) = 0 /\ After(r, u) = 0
    BY <1>1, <2>1, HeldIs DEF Before, After, CreditPcs
  <2> QED
    BY <1>3, <1>4, <2>1, <2>2 DEF DebitWallet, CreditWallet, PayAt
<1>7. CASE CreditDriverEarnings(r)
  <2>1. q.pc = "finalize.driver"
    BY <1>7, DriverCredit
  <2>2. Before(r, u) = 0
    BY <1>1, <2>1, HeldIs DEF Before, CreditPcs
  <2>3. \/ n.pc = "finalize.publish"
        \/ n.pc \in CreditPcs /\ n.wallet = EarningsWallet(q.driver)
    BY <1>7, DriverCredit DEF CreditPc, CreditPcs
  <2>4. After(r, u) = 0
    BY <1>1, <2>3, HeldIs, WalletNames DEF After, CreditPcs
  <2> QED
    BY <1>3, <1>4, <2>1, <2>2, <2>4 DEF DebitWallet, CreditWallet, PayAt
<1>8. CASE CreditRefund(r)
  <2>1. /\ q.pc = "refund.wallet" /\ n.pc \in CreditPcs
        /\ n.wallet = PassengerWallet(q.user) /\ n.amount = q.amount
    BY <1>8, RefundCredit DEF CreditPc, CreditPcs
  <2>2. After(r, u) = Before(r, u)
    BY <1>1, <2>1, HeldIs, WalletNames DEF Before, After
  <2> QED
    BY <1>3, <1>4, <2>1, <2>2 DEF DebitWallet, CreditWallet, PayAt
<1>9. CASE DebitWallet(r)
  <2>1. /\ q.pc = "debit.update" /\ n.pc = "finalize.payment" /\ Keeps(r)
        /\ q.method = "wallet" /\ q.amount \in Int
        /\ Balance(w)' = Balance(w) - (IF w = PassengerWallet(q.user)
                                         THEN q.amount ELSE 0)
    BY <1>2, <1>9, Debited
  <2>2. payments'[n.payment].status = "processing"
    BY <1>9, <2>1 DEF SerialInv, SerialOK, DebitWallet, Keeps
  <2>3. Before(r, u) = 0
    BY <1>1, <2>1, HeldIs DEF Before, CreditPcs
  <2>4. After(r, u) = IF q.user = u THEN q.amount ELSE 0
    BY <1>1, <2>1, <2>2, HeldIs DEF After, Keeps
  <2> QED
    BY <1>2, <2>1, <2>3, <2>4, WalletNames
<1>10. CASE InsertWallet(r)
  <2>1. ~DebitWallet(r) /\ ~CreditWallet(r)
    BY <1>10 DEF InsertWallet, DebitWallet, CreditWallet, PayAt
  <2>2. CASE q.pc = "balance.insert" /\ n.pc = "idle"
    <3>1. Before(r, u) = 0 /\ After(r, u) = 0
      BY <1>1, <2>2, HeldIs DEF Before, After, CreditPcs
    <3> QED
      BY <1>3, <1>4, <2>1, <3>1
  <2>3. CASE /\ q.pc = "credit.insert" /\ n.pc = "credit.update" /\ Keeps(r)
    <3>1. After(r, u) = Before(r, u)
      BY <1>1, <2>3, HeldIs DEF Before, After, CreditPcs, Keeps
    <3> QED
      BY <1>3, <1>4, <2>1, <3>1
  <2> QED
    BY <1>10, <2>2, <2>3, Inserted
<1>11. CASE CreditWallet(r)
  <2>1. /\ q.pc = "credit.update" /\ q.amount \in Int
        /\ n.pc \in {"idle", "finalize.publish"}
        /\ Balance(w)' = Balance(w) + (IF w = q.wallet THEN q.amount ELSE 0)
    BY <1>2, <1>11, Credited
  <2>2. Before(r, u) = IF q.wallet = w THEN q.amount ELSE 0
    BY <1>1, <2>1, HeldIs DEF Before, CreditPcs
  <2>3. After(r, u) = 0
    BY <1>1, <2>1, HeldIs DEF After, CreditPcs
  <2> QED
    BY <1>2, <2>1, <2>2, <2>3
<1>12. CASE /\ PayStep(r)
            /\ ~CreatePayment(r) /\ ~CreditDriverEarnings(r)
            /\ ~CreditRefund(r) /\ ~DebitWallet(r)
            /\ ~InsertWallet(r) /\ ~CreditWallet(r)
  <2>1. \/ n.pc = "idle" /\ q.pc \in LastPcs
        \/ MovesTo(q.pc, n.pc) /\ Keeps(r)
    BY <1>12, MovesOn DEF CrashPay
  <2>2. q.pc \notin CreditPcs \cup {"finalize.payment", "refund.wallet",
                                    "refund.update", "debit.update"}
    BY <1>12 DEF PayStep, ProviderFails, ProviderSettles, ProviderInvoices,
       FailProcess, CheckBalance, FinalizeTrip, PublishPaid, PayAt, CreditPcs
  <2>3. Before(r, u) = 0
    BY <1>1, <2>2, HeldIs DEF Before
  <2>4. After(r, u) = 0
    <3>1. CASE n.pc = "idle"
      BY <1>1, <3>1, HeldIs DEF After, CreditPcs
    <3>2. CASE MovesTo(q.pc, n.pc) /\ Keeps(r) /\ q.pc = "process.provider"
      <4>1. n.method # "wallet"
        BY <3>2, TheSlot DEF EntryInv, EntryOK, Keeps
      <4>2. n.pc \in {"process.fail", "finalize.payment"}
        BY <3>2 DEF MovesTo
      <4> QED
        BY <1>1, <4>1, <4>2, HeldIs DEF After, CreditPcs
    <3>3. CASE MovesTo(q.pc, n.pc) /\ q.pc # "process.provider"
      <4>1. n.pc \notin CreditPcs \cup {"finalize.payment", "refund.wallet"}
        BY <2>2, <3>3 DEF MovesTo, CreditPcs
      <4> QED
        BY <1>1, <4>1, HeldIs DEF After
    <3> QED
      BY <2>1, <3>1, <3>2, <3>3
  <2> QED
    BY <1>3, <1>4, <1>12, <2>3, <2>4
<1> QED
  BY <1>5, <1>6, <1>7, <1>8, <1>9, <1>10, <1>11, <1>12 DEF Step, CrashPay

\* Only these three write the set of completed wallet payments.
LEMMA WalletCompletedStays ==
  ASSUME OneAtATime, PayInv, SerialInv, NEW r \in PayReqs, Step(r),
         ~CreatePayment(r), ~FinalizePayment(r), ~CommitRefund(r),
         NEW u \in Passengers
  PROVE  WalletCompleted(u)' = WalletCompleted(u)
<1> DEFINE q == payReqs[r]
<1>1. \A p \in PaymentIds :
        payments'[p].user = payments[p].user
          /\ payments'[p].method = payments[p].method
  BY RowsStay
<1>2. \A p \in PaymentIds :
        payments'[p].status = "completed" <=> payments[p].status = "completed"
  <2>1. CASE FailProcess(r)
    <3>1. /\ q.payment \in PaymentIds /\ payments[q.payment].status = "processing"
          /\ SetPaymentStatus(q.payment, "failed")
      BY <2>1 DEF FailProcess, FailPayment, PayAt, PayInv, PayOK, SerialInv,
         SerialOK
    <3> QED
      BY <3>1, StatusKeepsRow
  <2>2. CASE ~FailProcess(r)
    <3>1. PayArrival(r) \/ CrashPay(r) => UNCHANGED payments
      BY ArrivalBegins DEF CrashPay
    <3>2. UNCHANGED payments
      BY <2>2, <3>1 DEF Step, PayStep, ProviderFails, ProviderSettles,
         ProviderInvoices, CheckBalance, DebitWallet, FinalizeTrip,
         CreditDriverEarnings, PublishPaid, CreditRefund, InsertWallet,
         CreditWallet
    <3> QED
      BY <3>2
  <2> QED
    BY <2>1, <2>2
<1> QED
  BY <1>1, <1>2 DEF WalletCompleted, WalletPaymentsOf

LEMMA WalletRows ==
  \A u \in Passengers : /\ WalletCompleted(u) \in SUBSET PaymentIds
                        /\ WalletCompleted(u)' \in SUBSET PaymentIds
BY DEF WalletCompleted, WalletPaymentsOf

\* A row's status is set, to or from completed.
LEMMA WalletRowSet ==
  ASSUME PayInv, NEW r \in PayReqs, Step(r), ~CreatePayment(r),
         NEW p \in PaymentIds, NEW s, SetPaymentStatus(p, s),
         NEW u \in Passengers
  PROVE  LET mine == payments[p].method = "wallet" /\ payments[p].user = u
             due  == Total(Amount, WalletCompleted(u))
             next == Total(Amount', WalletCompleted(u)')
             here == payments[p].amount
         IN  /\ due \in Int /\ here \in Int
             /\ next = due + (IF mine /\ s = "completed" THEN here ELSE 0)
                           - (IF mine /\ payments[p].status = "completed"
                                THEN here ELSE 0)
<1>1. \A o \in PaymentIds :
        /\ payments'[o].user = payments[o].user
        /\ payments'[o].method = payments[o].method
        /\ o # p => payments'[o] = payments[o]
  BY StatusKeepsRow
<1>2. payments'[p].status = s
  BY StatusKeepsRow
<1>3. \A o \in PaymentIds \ {p} : o \in WalletCompleted(u) <=> o \in WalletCompleted(u)'
  BY <1>1 DEF WalletCompleted, WalletPaymentsOf
<1>4. /\ p \in WalletCompleted(u)
           <=> /\ payments[p].method = "wallet" /\ payments[p].user = u
               /\ payments[p].status = "completed"
      /\ p \in WalletCompleted(u)'
           <=> /\ payments[p].method = "wallet" /\ payments[p].user = u
               /\ s = "completed"
  BY <1>1, <1>2 DEF WalletCompleted, WalletPaymentsOf
<1>5. \A o \in PaymentIds : Amount[o] = payments[o].amount /\ Amount[o] \in Int
  BY AmountsAreInt DEF PayInv
<1>6. Amount' = Amount
  BY RowsStay
<1>7. /\ Total(Amount, WalletCompleted(u)) \in Int
      /\ Total(Amount, WalletCompleted(u)')
           = Total(Amount, WalletCompleted(u))
               + (IF p \in WalletCompleted(u)' THEN Amount[p] ELSE 0)
               - (IF p \in WalletCompleted(u) THEN Amount[p] ELSE 0)
  BY <1>3, <1>5, OneRow, WalletRows
<1> QED
  BY <1>4, <1>5, <1>6, <1>7

LEMMA SpendingStep ==
  ASSUME OneAtATime, ~PayCrashes, TopUps = {}, Opening \in Nat, PayInv,
         PayTypeOK', TripsTyped, BookInv, SerialInv, EntryInv, SpendingInv,
         NEW r \in PayReqs, Step(r)
  PROVE  SpendingInv'
<1> DEFINE q == payReqs[r]
           n == payReqs'[r]
<1>1. Running = q /\ q \in PayRequest /\ n \in PayRequest
  BY TheSlot DEF PayInv, PayTypeOK
<1> SUFFICES ASSUME NEW u \in Passengers
             PROVE  SpendsOK(u)'
  BY DEF SpendingInv
<1> DEFINE w    == PassengerWallet(u)
           old  == Balance(w) + Before(r, u)
           new  == Balance(w)' + After(r, u)
           due  == Total(Amount, WalletCompleted(u))
           next == Total(Amount', WalletCompleted(u)')
<1>2. /\ Balance(w) \in Int /\ Balance(w)' \in Int
      /\ Before(r, u) \in Int /\ After(r, u) \in Int
  <2>1. Balance(w)' \in Int
    BY WalletNames DEF PayTypeOK, Balance
  <2> QED
    BY <1>1, <2>1, Balances, WalletNames, HeldIs DEF Before, After
<1>3. /\ ~NegativeFor(w) => Opening - old <= due
      /\ Invoiced(PassengerTrips(u)) \/ Opening - old = due
  <2>1. Held(Running, u) = Before(r, u)
    BY HeldInSlot
  <2> QED
    BY <1>2, <2>1 DEF SpendingInv, SpendsOK
<1>4. /\ Invoiced(PassengerTrips(u)) => Invoiced(PassengerTrips(u))'
      /\ NegativeFor(w) => NegativeFor(w)'
  BY InvoicedStays, NegativeKept
<1>5. ASSUME /\ ~NegativeFor(w) => Opening - new <= next
             /\ Invoiced(PassengerTrips(u))' \/ Opening - new = next
      PROVE  SpendsOK(u)'
  <2>1. Held(Running, u)' = After(r, u)
    BY HeldInSlot
  <2>2. ~NegativeFor(w)' => Opening - new <= next
    BY <1>4, <1>5
  <2> QED
    BY <1>2, <1>5, <2>1, <2>2 DEF SpendsOK
<1>6. ASSUME ~FinalizePayment(r), ~CommitRefund(r), next = due, due \in Int
      PROVE  SpendsOK(u)'
  <2>1. /\ ~NegativeFor(w) => new >= old
        /\ Invoiced(PassengerTrips(u)) \/ new = old
    BY <1>6, SpendingFlow
  <2>2. old \in Int /\ new \in Int
    BY <1>2
  <2> HIDE DEF old, new, due, next
  <2>3. /\ ~NegativeFor(w) => Opening - new <= next
        /\ Invoiced(PassengerTrips(u))' \/ Opening - new = next
    BY <1>3, <1>4, <1>6, <2>1, <2>2
  <2> QED
    BY <1>5, <2>3
<1>7. \A o \in PaymentIds : Amount[o] \in Int /\ Amount'[o] \in Int
  <2>1. \A o \in PaymentIds : Amount[o] \in Int
    BY AmountsAreInt DEF PayInv
  <2>2. \A o \in PaymentIds : Amount'[o] \in Int
    <3>1. \A o \in PaymentIds : payments'[o].amount \in Int
      BY AmountTypes DEF PayTypeOK
    <3> QED
      BY <3>1 DEF Amount
  <2> QED
    BY <2>1, <2>2
<1>8. CASE ~CreatePayment(r) /\ ~FinalizePayment(r) /\ ~CommitRefund(r)
  <2>1. next = due
    BY <1>8, WalletCompletedStays, RowsStay
  <2>2. due \in Int
    <3>1. IsFiniteSet(PaymentIds)
      BY PaymentServiceAssumption, FS_Interval
         DEF PaymentIds, PaymentServiceAssumption
    <3>2. IsFiniteSet(WalletCompleted(u))
      BY <3>1, FS_Subset, WalletRows
    <3>3. \A o \in WalletCompleted(u) : Amount[o] \in Int
      BY <1>7, WalletRows
    <3> QED
      BY <3>2, <3>3, TotalType
  <2> QED
    BY <1>6, <1>8, <2>1, <2>2
<1>9. CASE CreatePayment(r)
  <2>1. ~FinalizePayment(r) /\ ~CommitRefund(r)
    BY <1>9 DEF CreatePayment, FinalizePayment, CommitRefund, PayAt
  <2>2. PICK p \in PaymentIds :
          /\ ~PaymentExists(p) /\ payments'[p].status = "processing"
          /\ \A o \in PaymentIds : o # p => payments'[o] = payments[o]
    BY <1>9, Created
  <2>3. \A o \in PaymentIds \ {p} : Amount[o] = Amount'[o]
    BY <2>2 DEF Amount
  <2>4. p \notin WalletCompleted(u) /\ p \notin WalletCompleted(u)'
    BY <2>2 DEF WalletCompleted, PaymentExists
  <2>5. \A o \in PaymentIds \ {p} :
          o \in WalletCompleted(u) <=> o \in WalletCompleted(u)'
    BY <2>2 DEF WalletCompleted, WalletPaymentsOf
  <2>6. next = due /\ due \in Int
    BY <1>7, <2>3, <2>4, <2>5, OneRow, WalletRows
  <2> QED
    BY <1>6, <2>1, <2>6
<1>10. CASE FinalizePayment(r)
  <2>1. /\ q.pc = "finalize.payment" /\ PayOK(q) /\ BookOK(q) /\ EntryOK(q)
        /\ SetPaymentStatus(q.payment, "completed")
        /\ n.pc = "finalize.trip"
    BY <1>1, <1>10, GotoKeeps
       DEF FinalizePayment, PayAt, CompletePayment, PayInv, BookInv, EntryInv
  <2>2. PICK p \in PaymentIds :
          /\ q.payment = p /\ PaymentExists(p) /\ q.trip \in TripIds
          /\ payments[p].trip = q.trip /\ payments[p].user = q.user
          /\ payments[p].amount = q.amount /\ payments[p].method = q.method
          /\ payments[p].status = "processing" \/ q.trip \in invoices
    BY <2>1 DEF PayOK, BookOK, EntryOK, RowPcs
  <2> DEFINE mine == payments[p].method = "wallet" /\ payments[p].user = u
  <2>3. /\ due \in Int /\ payments[p].amount \in Int
        /\ next = due + (IF mine THEN payments[p].amount ELSE 0)
                      - (IF mine /\ payments[p].status = "completed"
                           THEN payments[p].amount ELSE 0)
    BY <1>10, <2>1, <2>2, WalletRowSet
       DEF FinalizePayment, CreatePayment, PayAt
  <2>4. Before(r, u) = IF mine /\ payments[p].status = "processing"
                         THEN payments[p].amount ELSE 0
    BY <1>1, <2>1, <2>2, HeldIs DEF Before
  <2>5. After(r, u) = 0
    BY <1>1, <2>1, HeldIs DEF After, CreditPcs
  <2>6. Balance(w)' = Balance(w)
    BY <1>10, BalanceUntouched, WalletNames
       DEF FinalizePayment, DebitWallet, CreditWallet, PayAt
  <2>7. mine /\ payments[p].status # "processing" => Invoiced(PassengerTrips(u))
    <3>1. payments[p].user = trips[q.trip].passenger
      BY <2>2 DEF BookInv, RowUserOK
    <3> QED
      BY <2>2, <3>1 DEF Invoiced, PassengerTrips
  <2>9. mine /\ ~NegativeFor(w) => payments[p].amount >= 0
    BY <2>3, RowSign
  <2> HIDE DEF due, next, mine, w
  <2>8. /\ ~NegativeFor(w) => Opening - new <= next
        /\ Invoiced(PassengerTrips(u))' \/ Opening - new = next
    <3>1. CASE mine /\ payments[p].status = "processing"
      BY <1>2, <1>3, <1>4, <2>3, <2>4, <2>5, <2>6, <3>1
    <3>2. CASE mine /\ payments[p].status # "processing"
      BY <1>2, <1>3, <1>4, <2>9, <2>3, <2>4, <2>5, <2>6, <2>7, <3>2
    <3>3. CASE ~mine
      BY <1>2, <1>3, <1>4, <2>3, <2>4, <2>5, <2>6, <3>3
    <3> QED
      BY <3>1, <3>2, <3>3
  <2> QED
    BY <1>5, <2>8
<1>11. CASE CommitRefund(r)
  <2>1. /\ q.pc = "refund.update" /\ PayOK(q) /\ BookOK(q) /\ SerialOK(q)
        /\ SetPaymentStatus(q.payment, "refunded")
        /\ IF q.method = "wallet" THEN PayGoto(r, "refund.wallet") ELSE PayEnd(r)
    BY <1>11 DEF CommitRefund, PayAt, RefundPayment, PayInv, BookInv, SerialInv
  <2>2. PICK p \in PaymentIds :
          /\ q.payment = p /\ payments[p].status = "completed"
          /\ payments[p].user = q.user /\ payments[p].amount = q.amount
          /\ payments[p].method = q.method
    BY <2>1 DEF PayOK, BookOK, SerialOK, RowPcs
  <2> DEFINE mine == payments[p].method = "wallet" /\ payments[p].user = u
  <2>3. /\ due \in Int /\ payments[p].amount \in Int
        /\ next = due - (IF mine THEN payments[p].amount ELSE 0)
    <3>1. ~CreatePayment(r) /\ SetPaymentStatus(p, "refunded")
      BY <2>1, <2>2 DEF CreatePayment, PayAt
    <3>2. /\ due \in Int /\ payments[p].amount \in Int
          /\ next = due + 0 - (IF mine /\ payments[p].status = "completed"
                                 THEN payments[p].amount ELSE 0)
      BY <3>1, WalletRowSet
    <3> HIDE DEF due, next, mine
    <3> QED
      BY <2>2, <3>2
  <2>4. Before(r, u) = 0
    BY <1>1, <2>1, HeldIs DEF Before, CreditPcs
  <2>5. After(r, u) = IF mine THEN payments[p].amount ELSE 0
    <3>1. CASE q.method = "wallet"
      <4>1. n.pc = "refund.wallet" /\ Keeps(r)
        BY <2>1, <3>1, GotoKeeps
      <4> QED
        BY <1>1, <2>2, <3>1, <4>1, HeldIs DEF After, Keeps
    <3>2. CASE q.method # "wallet"
      <4>1. n.pc = "idle"
        BY <2>1, <3>2, SlotWrites
      <4> QED
        BY <1>1, <2>2, <3>2, <4>1, HeldIs DEF After, CreditPcs
    <3> QED
      BY <3>1, <3>2
  <2>6. Balance(w)' = Balance(w)
    BY <1>11, BalanceUntouched, WalletNames
       DEF CommitRefund, DebitWallet, CreditWallet, PayAt
  <2> HIDE DEF due, next, mine, w
  <2>7. /\ ~NegativeFor(w) => Opening - new <= next
        /\ Invoiced(PassengerTrips(u))' \/ Opening - new = next
    BY <1>2, <1>3, <1>4, <2>3, <2>4, <2>5, <2>6
  <2> QED
    BY <1>5, <2>7
<1> QED
  BY <1>8, <1>9, <1>10, <1>11

LEMMA SpendingInitial ==
  ASSUME Opening \in Nat, PayInit
  PROVE  SpendingInv
<1> SUFFICES ASSUME NEW u \in Passengers
             PROVE  SpendsOK(u)
  BY DEF SpendingInv
<1>1. WalletCompleted(u) = {}
  BY NoBooks DEF WalletCompleted, WalletPaymentsOf
<1>2. Total(Amount, WalletCompleted(u)) = 0
  BY <1>1, TotalEmpty
<1>3. Balance(PassengerWallet(u)) = Opening
  BY NoBooks, NullIsNoNumber DEF Balance
<1>4. Running.pc = "idle"
  BY NoBooks DEF Running, IdlePay
<1>5. Held(Running, u) = 0
  BY <1>4 DEF Held, CreditPcs
<1> QED
  BY <1>2, <1>3, <1>5 DEF SpendsOK

\* When no handler runs, nothing is on its way.
LEMMA SpendingAtRest ==
  ASSUME Opening \in Nat, PayInv, SpendingInv
  PROVE  SpendingMatchesPayments
<1> SUFFICES ASSUME Quiet, NEW u \in Passengers
             PROVE  LET spent == Opening - Balance(PassengerWallet(u))
                        due   == TotalAmount(
                                   {p \in WalletPaymentsOf(u) :
                                      payments[p].status = "completed"})
                    IN  /\ ~NegativeFor(PassengerWallet(u)) => spent <= due
                        /\ ~Invoiced({t \in TripIds : trips[t].passenger = u})
                             => spent = due
  BY DEF SpendingMatchesPayments
<1>1. Running.pc = "idle"
  BY DEF Running, IdlePay, Quiet, PayAt
<1>2. Held(Running, u) = 0 /\ Balance(PassengerWallet(u)) \in Int
  BY <1>1, Balances, WalletNames DEF Held, CreditPcs
<1> QED
  <2>1. SpendsOK(u)
    BY DEF SpendingInv
  <2>2. Opening - Balance(PassengerWallet(u)) - Held(Running, u)
          = Opening - Balance(PassengerWallet(u))
    BY <1>2
  <2> QED
    BY <2>1, <2>2 DEF SpendsOK, TotalAmount, WalletCompleted, PassengerTrips

\* While requests do not overlap and handlers do not die, a passenger has never
\* spent more than her completed wallet payments add up to, and exactly that
\* unless Click opened an invoice for a trip of hers: a payment that failed
\* costs nothing, a refund gives all of it back.  The first half is not said of
\* a passenger who paid a negative fare, which a refund takes from her.
THEOREM LedgerSpendingMatchesPayments ==
  ASSUME OneAtATime, ~PayCrashes, TopUps = {}, Opening \in Nat
  PROVE  PaySpec => []SpendingMatchesPayments
<1>1. PaymentInit => SpendingInv
  BY SpendingInitial DEF PaymentInit
<1>2. PayInv /\ PayInv' /\ TripsTyped /\ BookInv /\ SerialInv /\ EntryInv
        /\ SpendingInv /\ [PayNext]_paymentVars => SpendingInv'
  <2> SUFFICES ASSUME PayInv, PayInv', TripsTyped, BookInv, SerialInv,
                      EntryInv, SpendingInv, [PayNext]_paymentVars
               PROVE  SpendingInv'
    OBVIOUS
  <2>1. CASE PayNext
    <3>1. PICK r \in PayReqs : Step(r)
      BY <2>1 DEF PayNext, Step
    <3>2. PayTypeOK'
      BY DEF PayInv
    <3> QED
      BY <3>1, <3>2, SpendingStep
  <2>2. CASE UNCHANGED paymentVars
    BY <2>2 DEF paymentVars, payVars, SpendingInv, SpendsOK, Running, Held,
       WalletCompleted, WalletPaymentsOf, Amount, Balance, PassengerTrips,
       Invoiced, NegativeFor
  <2> QED
    BY <2>1, <2>2
<1>3. PayInv /\ SpendingInv => SpendingMatchesPayments
  BY SpendingAtRest
<1> QED
  BY <1>1, <1>2, <1>3, EntryInvariant, SerialInvariant, BookInvariant,
     PayInvariant, PTL DEF PaySpec

================================================================================
