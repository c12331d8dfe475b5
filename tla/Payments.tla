------------------------------ MODULE Payments ------------------------------
(***************************************************************************)
(* The money path (apps/payments) on top of Booking: the provider captures *)
(* an order, and a webhook, a browser's verify call or the reconciliation  *)
(* job brings the capture in; it is recorded once and either confirms the  *)
(* booking or schedules a refund, which a task queue executes.             *)
(*                                                                         *)
(* A handler is the one transaction of handle_webhook / verify_and_confirm *)
(* split where it reads the booking without a lock: `Begin` inserts the    *)
(* ledger row (whose unique key makes a second handler of the same event   *)
(* wait) and reads, `Process` locks the booking, writes and commits.       *)
(***************************************************************************)
EXTENDS Booking

CONSTANTS
  Handlers, Refunders,     \* web workers and queue workers
  MayMiscapture,           \* may the provider capture another amount?
  HookLoss,                \* may a process die between commit and on_commit?
  MinAge, Grace            \* PAYMENT_RECONCILE_MIN_AGE / GRACE

VARIABLES
  captured,                \* provider: amount captured for an order, 0 if none
  failures,                \* provider: orders with a failed attempt
  refundedAtProvider,      \* provider: amount returned, keyed by payment
  ledger,                  \* ProcessedWebhook rows
  pay,                     \* Payment rows, keyed by the unique order id
  refundRows,              \* Refund rows: their amounts, per payment
  queue,                   \* payments.process_refund tasks
  hand, refunder,          \* what each handler / queue worker is doing
  voided,                  \* voided[b][t]: tickets a refund has voided
  issuedBy                 \* auxiliary: orders whose payment issued tickets

providerVars == <<captured, failures, refundedAtProvider>>
payDbVars == <<ledger, pay, refundRows, voided, issuedBy>>
payVars == <<providerVars, payDbVars, queue, hand, refunder>>
allVars == <<vars, payVars>>

ASSUME PaymentConstants ==
  /\ MayMiscapture \in BOOLEAN /\ HookLoss \in BOOLEAN
  /\ MinAge \in Nat /\ Grace \in Nat

OrderIds == 1 .. MaxOrders
NoPay == [status |-> "none", booking |-> NoKey, amount |-> 0]
Idle == [event |-> "none", order |-> NoOrder, booking |-> NoKey, total |-> 0]

PayInit ==
  /\ Init
  /\ captured = [o \in OrderIds |-> 0]
  /\ failures = {}
  /\ refundedAtProvider = [o \in OrderIds |-> 0]
  /\ ledger = {}
  /\ pay = [o \in OrderIds |-> NoPay]
  /\ refundRows = [o \in OrderIds |-> <<>>]
  /\ queue = {}
  /\ hand = [h \in Handlers |-> Idle]
  /\ refunder = [w \in Refunders |-> [order |-> NoOrder, amount |-> 0, called |-> FALSE]]
  /\ voided = [b \in Bookings |-> [t \in Tiers |-> 0]]
  /\ issuedBy = {}

-----------------------------------------------------------------------------
(* The provider and the customer.  Any order ever handed to a browser can  *)
(* still be paid there; a declined attempt may be followed by a capture.   *)

CustomerPays(o, amount) ==
  /\ captured[o] = 0
  /\ amount = orders[o].amount \/ MayMiscapture
  /\ captured' = [captured EXCEPT ![o] = amount]
  /\ UNCHANGED <<vars, failures, refundedAtProvider, payDbVars, queue, hand, refunder>>

AttemptFails(o) ==
  /\ o \in DOMAIN orders /\ captured[o] = 0
  /\ failures' = failures \cup {o}
  /\ UNCHANGED <<vars, captured, refundedAtProvider, payDbVars, queue, hand, refunder>>

-----------------------------------------------------------------------------
(* handle_webhook / verify_and_confirm.                                    *)

BookingOf(o) == {b \in Bookings : book[b].order = o}

(* The ledger row is inserted and the booking of the order read, no lock.  *)
Begin(h, event, o) ==
  /\ hand[h] = Idle
  /\ <<event, o>> \notin ledger
  /\ \A g \in Handlers : ~(hand[g].event = event /\ hand[g].order = o)
  /\ hand' = [hand EXCEPT ![h] =
       IF BookingOf(o) = {} THEN [Idle EXCEPT !.event = event, !.order = o]
       ELSE LET b == CHOOSE b \in BookingOf(o) : TRUE IN
            [event |-> event, order |-> o, booking |-> b, total |-> book[b].total]]
  /\ UNCHANGED <<vars, providerVars, payDbVars, queue, refunder>>

(* A signed delivery, or the browser's verify call: lost, late, repeated   *)
(* or out of order - anything the provider can state may arrive any time.  *)
Webhook(h, o) ==
  \/ captured[o] # 0 /\ Begin(h, "captured", o)
  \/ o \in failures /\ Begin(h, "failed", o)

(* reconcile_pending asks about the order a booking names NOW.             *)
Reconcile(h, b) ==
  /\ book[b].order # NoOrder
  /\ book[b].created + MinAge <= now
  /\ \/ book[b].status = "reserved"
     \/ book[b].status \in {"expired", "cancelled"} /\ book[b].expires + Grace >= now
  /\ captured[book[b].order] # 0
  /\ Begin(h, "captured", book[b].order)

Finish(h) ==
  /\ ledger' = ledger \cup {<<hand[h].event, hand[h].order>>}
  /\ hand' = [hand EXCEPT ![h] = Idle]
  /\ UNCHANGED <<now, orders, workerVars, providerVars, refundRows, refunder, voided>>

(* Mutant: the provider's word for the status is stored.                   *)
RecordCaptured_ProviderStatus(h) ==
  pay' = [pay EXCEPT ![hand[h].order] =
           [status |-> "captured", amount |-> captured[hand[h].order],
            booking |-> hand[h].booking]]

(* record_captured: create the row, or bring any row that is not paid to   *)
(* paid.                                                                   *)
RecordCaptured(h) ==
  LET o == hand[h].order IN
  pay' = IF pay[o].status = "paid" THEN pay
         ELSE [pay EXCEPT ![o] =
                [status |-> "paid", amount |-> captured[o],
                 booking |-> IF pay[o].status = "none" THEN hand[h].booking ELSE @.booking]]

(* _schedule_refund runs on commit; a process that dies there loses it.    *)
ScheduleRefund(o) == queue' = queue \cup {o} \/ (HookLoss /\ UNCHANGED queue)

IgnoreEvent(h) ==
  /\ hand[h].event # "none" /\ hand[h].booking = NoKey
  /\ Finish(h)
  /\ UNCHANGED <<dbVars, pay, queue, issuedBy>>

AmountMismatch(h) ==
  /\ hand[h].event = "captured" /\ hand[h].booking # NoKey
  /\ captured[hand[h].order] # hand[h].total
  /\ RecordCaptured(h)
  /\ ScheduleRefund(hand[h].order)
  /\ Finish(h)
  /\ UNCHANGED <<dbVars, issuedBy>>

(* Mutant: no amount check.                                                *)
AmountMatches_AnyAmount(h) ==
  /\ hand[h].event = "captured" /\ hand[h].booking # NoKey
  /\ Undisturbed(hand[h].booking)
  /\ RecordCaptured(h)
  /\ Finish(h)

AmountMatches(h) ==
  /\ hand[h].event = "captured" /\ hand[h].booking # NoKey
  /\ captured[hand[h].order] = hand[h].total
  /\ Undisturbed(hand[h].booking)
  /\ RecordCaptured(h)
  /\ Finish(h)

Confirm(h) ==
  /\ AmountMatches(h)
  /\ ConfirmIssues(hand[h].booking)
  /\ issuedBy' = issuedBy \cup {hand[h].order}
  /\ UNCHANGED queue

AlreadyConfirmed(h) ==
  /\ AmountMatches(h)
  /\ book[hand[h].booking].status = "paid"
  /\ UNCHANGED <<dbVars, queue, issuedBy>>

(* Mutant: the payment of a lapsed hold is recorded and forgotten.         *)
HoldExpired_NoRefund(h) ==
  /\ AmountMatches(h)
  /\ book[hand[h].booking].status # "paid"
  /\ HoldLapsed(hand[h].booking)
  /\ UNCHANGED <<dbVars, queue, issuedBy>>

HoldExpired(h) ==
  /\ AmountMatches(h)
  /\ book[hand[h].booking].status # "paid"
  /\ HoldLapsed(hand[h].booking)
  /\ ScheduleRefund(hand[h].order)
  /\ UNCHANGED <<dbVars, issuedBy>>

(* record_failed never downgrades a paid or refunded payment.              *)
RecordFailed(h) ==
  LET o == hand[h].order IN
  /\ hand[h].event = "failed" /\ hand[h].booking # NoKey
  /\ pay' = IF pay[o].status # "none" THEN pay
            ELSE [pay EXCEPT ![o] = [status |-> "failed", booking |-> hand[h].booking,
                                     amount |-> orders[o].amount]]
  /\ Finish(h)
  /\ UNCHANGED <<dbVars, queue, issuedBy>>

(* The transaction rolls back with its ledger row.                         *)
HandlerCrash(h) ==
  /\ hand[h] # Idle
  /\ hand' = [hand EXCEPT ![h] = Idle]
  /\ UNCHANGED <<vars, providerVars, payDbVars, queue, refunder>>

Process(h) ==
  \/ IgnoreEvent(h) \/ AmountMismatch(h) \/ Confirm(h) \/ AlreadyConfirmed(h)
  \/ HoldExpired(h) \/ RecordFailed(h)

-----------------------------------------------------------------------------
(* Refunds.                                                                *)

OrganizerRefund(o) ==
  /\ pay[o].status = "paid"
  /\ queue' = queue \cup {o}
  /\ UNCHANGED <<vars, providerVars, payDbVars, hand, refunder>>

(* refundable_amount_minor: a booking that delivered keeps its donation.   *)
RefundableAmount(b) ==
  IF book[b].status = "paid" THEN book[b].total - book[b].donation ELSE book[b].total

NotRefunding == [order |-> NoOrder, amount |-> 0, called |-> FALSE]

(* execute_refund, read without a lock.  The queue delivers at least once: *)
(* a task leaves it when an execution finds nothing to do.                 *)
RefundStart(w, o) ==
  /\ refunder[w] = NotRefunding /\ o \in queue
  /\ pay[o].status = "paid" /\ RefundableAmount(pay[o].booking) > 0
  /\ refunder' = [refunder EXCEPT ![w] =
                   [order |-> o, amount |-> RefundableAmount(pay[o].booking), called |-> FALSE]]
  /\ UNCHANGED <<vars, providerVars, payDbVars, queue, hand>>

RefundNothingToDo(w, o) ==
  /\ refunder[w] = NotRefunding /\ o \in queue
  /\ pay[o].status # "paid" \/ RefundableAmount(pay[o].booking) <= 0
  /\ queue' = queue \ {o}
  /\ UNCHANGED <<vars, providerVars, payDbVars, hand, refunder>>

(* The vendor call, under the idempotency key `refund:<payment id>`.       *)
RefundCall(w) ==
  LET o == refunder[w].order IN
  /\ refunder[w] # NotRefunding /\ ~refunder[w].called
  /\ refundedAtProvider' = [refundedAtProvider EXCEPT ![o] = IF @ = 0 THEN refunder[w].amount ELSE @]
  /\ refunder' = [refunder EXCEPT ![w].called = TRUE]
  /\ UNCHANGED <<vars, captured, failures, payDbVars, queue, hand>>

(* The vendor call failed, or the worker died before or after it: the      *)
(* queue will run the task again.                                          *)
RefundRetry(w) ==
  /\ refunder[w] # NotRefunding
  /\ refunder' = [refunder EXCEPT ![w] = NotRefunding]
  /\ UNCHANGED <<vars, providerVars, payDbVars, queue, hand>>

(* Mutants: no re-check under the lock; the tickets stay active.           *)
RefundRecord_NoRecheck(w) ==
  LET o == refunder[w].order IN
  /\ refunder[w].called
  /\ pay' = [pay EXCEPT ![o].status = "refunded"]
  /\ refundRows' = [refundRows EXCEPT ![o] = Append(@, refunder[w].amount)]
  /\ voided' = [voided EXCEPT ![pay[o].booking] = tickets[pay[o].booking]]
  /\ refunder' = [refunder EXCEPT ![w] = NotRefunding]
  /\ UNCHANGED <<vars, providerVars, ledger, issuedBy, queue, hand>>

RefundRecord_KeepsTickets(w) ==
  LET o == refunder[w].order IN
  /\ refunder[w].called
  /\ pay' = [pay EXCEPT ![o].status = "refunded"]
  /\ refundRows' = [refundRows EXCEPT ![o] = <<refunder[w].amount>>]
  /\ refunder' = [refunder EXCEPT ![w] = NotRefunding]
  /\ UNCHANGED <<vars, providerVars, ledger, issuedBy, voided, queue, hand>>

(* Recorded under the payment's row lock, with the tickets voided in the   *)
(* same transaction.                                                       *)
RefundRecord(w) ==
  LET o == refunder[w].order IN
  /\ refunder[w].called
  /\ IF pay[o].status = "refunded" THEN UNCHANGED payDbVars
     ELSE /\ pay' = [pay EXCEPT ![o].status = "refunded"]
          /\ refundRows' = [refundRows EXCEPT ![o] = Append(@, refunder[w].amount)]
          /\ voided' = [voided EXCEPT ![pay[o].booking] = tickets[pay[o].booking]]
          /\ UNCHANGED <<ledger, issuedBy>>
  /\ refunder' = [refunder EXCEPT ![w] = NotRefunding]
  /\ UNCHANGED <<vars, providerVars, queue, hand>>

-----------------------------------------------------------------------------
HandlerStep(h) ==
  \/ \E o \in OrderIds : Webhook(h, o)
  \/ \E b \in Bookings : Reconcile(h, b)
  \/ Process(h)
  \/ HandlerCrash(h)

RefunderStep(w) ==
  \/ \E o \in OrderIds : RefundStart(w, o) \/ RefundNothingToDo(w, o)
  \/ RefundCall(w) \/ RefundRetry(w) \/ RefundRecord(w)

BookingStep ==
  /\ \/ \E p \in Workers : WorkerStep(p)
     \/ \E b \in Bookings : CancelBooking(b) \/ ReleaseOneExpired(b)
     \/ Tick
  /\ UNCHANGED payVars

PayNext ==
  \/ BookingStep
  \/ \E o \in DOMAIN orders, excess \in {0, 1} : CustomerPays(o, orders[o].amount + excess)
  \/ \E o \in OrderIds : AttemptFails(o) \/ OrganizerRefund(o)
  \/ \E h \in Handlers : HandlerStep(h)
  \/ \E w \in Refunders : RefunderStep(w)

PaySpec == PayInit /\ [][PayNext]_allVars

(* Handlers and queue workers are restarted and their work redelivered: a  *)
(* step that can be taken again and again is taken (crashes and vendor     *)
(* failures do not last for ever).                                         *)
PayFairness ==
  /\ WF_allVars(Tick /\ UNCHANGED payVars)
  /\ \A b \in Bookings : WF_allVars(ReleaseOneExpired(b) /\ UNCHANGED payVars)
  /\ \A p \in Workers :
       WF_allVars((OrderFailed(p) \/ OrderCreated(p)) /\ UNCHANGED payVars)
  /\ \A h \in Handlers :
       /\ SF_allVars(Process(h))
       /\ \A b \in Bookings : SF_allVars(Reconcile(h, b))
  /\ \A w \in Refunders :
       /\ \A o \in OrderIds : WF_allVars(RefundStart(w, o) \/ RefundNothingToDo(w, o))
       /\ SF_allVars(RefundCall(w))
       /\ SF_allVars(RefundRecord(w))

PayFairSpec == PaySpec /\ PayFairness

(* ... and, where the provider can reach us, its deliveries arrive.        *)
PayWebhookSpec ==
  PayFairSpec /\ \A h \in Handlers, o \in OrderIds : SF_allVars(Webhook(h, o))

-----------------------------------------------------------------------------
PayTypeOK ==
  /\ captured \in [OrderIds -> Nat]
  /\ failures \subseteq OrderIds
  /\ refundedAtProvider \in [OrderIds -> Nat]
  /\ ledger \subseteq {"captured", "failed"} \X OrderIds
  /\ pay \in [OrderIds -> [status : {"none", "failed", "paid", "refunded"},
                           booking : Bookings \cup {NoKey}, amount : Nat]]
  /\ refundRows \in [OrderIds -> Seq(Nat)]
  /\ queue \subseteq OrderIds
  /\ hand \in [Handlers -> [event : {"none", "captured", "failed"}, order : Nat,
                            booking : Bookings \cup {NoKey}, total : Nat]]
  /\ refunder \in [Refunders -> [order : Nat, amount : Nat, called : BOOLEAN]]
  /\ voided \in [Bookings -> [Tiers -> Nat]]
  /\ issuedBy \subseteq OrderIds

(* "A refund never double-runs" (OPERATIONS.md): however often the task is *)
(* delivered and wherever a worker dies, at most one Refund row is written *)
(* and it records the amount the vendor returned.                          *)
RefundedOnce ==
  \A o \in OrderIds : pay[o].status = "refunded" => refundRows[o] = <<refundedAtProvider[o]>>

(* A payment whose money went back has left no ticket that opens a gate.   *)
RefundKillsTickets ==
  \A o \in OrderIds : o \in issuedBy /\ pay[o].status = "refunded"
    => voided[pay[o].booking] = tickets[pay[o].booking]

(* The AMOUNT CHECK of _process_captured: a booking is confirmed only by a *)
(* payment of exactly its total ("a tampered/mismatched amount is NOT      *)
(* confirmed").                                                            *)
ConfirmedForItsTotal ==
  \A b \in Bookings : book[b].status = "paid" =>
    \E o \in issuedBy : pay[o].booking = b /\ pay[o].amount = book[b].total

(* "Never keep money without a ticket": a captured payment ends with its   *)
(* tickets issued or with the money returned.                              *)
MoneyOrTicket ==
  \A o \in OrderIds :
    captured[o] # 0 ~> (o \in issuedBy \/ refundedAtProvider[o] # 0)
=============================================================================
