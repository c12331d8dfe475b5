---------------------------- MODULE PaymentsProofs ---------------------------
(***************************************************************************)
(* Proofs about Payments for every set of handlers, queue workers, orders  *)
(* and bookings: the money path is a Booking, each capture is recorded     *)
(* once, and each payment is refunded once.                                *)
(***************************************************************************)
EXTENDS Payments, BookingProofs

USE DEF NoOrder

-----------------------------------------------------------------------------
(* A Payments step is a Booking step.  Confirm calls confirm_booking with  *)
(* the booking a handler read BEFORE it had any lock, so what makes it a   *)
(* step of Booking is an invariant: a handler that carries a booking works *)
(* on an order that was created for this booking.                          *)

HandRow == [event : {"none", "captured", "failed"}, order : Nat,
            booking : Bookings \cup {NoKey}, total : Nat]

HandsKnow ==
  /\ hand \in [Handlers -> HandRow]
  /\ \A h \in Handlers : hand[h].event # "none" => hand[h].order \in OrderIds
  /\ \A h \in Handlers : hand[h].event = "none" => hand[h] = Idle
  /\ \A h \in Handlers : hand[h].booking # NoKey =>
       /\ hand[h].order \in DOMAIN orders
       /\ orders[hand[h].order].booking = hand[h].booking

(* Orders are never taken back at the provider.                            *)
OrdersGrow ==
  \A i \in DOMAIN orders : i \in DOMAIN orders' /\ orders'[i] = orders[i]

LEMMA NextOrdersGrow == ASSUME TypeOK, [Next]_vars PROVE OrdersGrow
<1>1. ASSUME NEW p \in Workers, OrderCreated(p) PROVE OrdersGrow
  <2>1. PICK new \in [booking : Bookings, amount : Int] : orders' = Append(orders, new)
    <3>1. mem[p].booking \in Bookings /\ mem[p].row \in Row
      BY <1>1 DEF OrderCreated, TypeOK, WorkersOK, Carried
    <3>2. [mem[p].row EXCEPT !.order = Len(orders) + 1, !.gw = mem[p].gw].total \in Int
      BY <3>1 DEF Row
    <3> QED
      BY <1>1, <3>1, <3>2 DEF OrderCreated
  <2> QED
    BY <2>1 DEF OrdersGrow, TypeOK, RowsOK
<1>2. CASE UNCHANGED orders
  BY <1>2 DEF OrdersGrow
<1> QED
  BY <1>1, <1>2, OrdersMove

LEMMA PayStepIsStep ==
  TypeOK /\ HandsKnow /\ [PayNext]_allVars => [Next]_vars
<1> SUFFICES ASSUME TypeOK, HandsKnow, [PayNext]_allVars PROVE [Next]_vars
  OBVIOUS
<1>1. CASE BookingStep
  BY <1>1 DEF BookingStep, Next
<1>2. ASSUME NEW h \in Handlers, Confirm(h) PROVE [Next]_vars
  <2>1. hand[h].booking \in Bookings
    BY <1>2 DEF Confirm, AmountMatches, HandsKnow, HandRow
  <2>2. ConfirmBooking(hand[h].booking)
    BY <1>2, <2>1 DEF Confirm, AmountMatches, Finish, HandsKnow, ConfirmBooking
  <2> QED
    BY <2>1, <2>2 DEF Next
<1>3. ASSUME NEW h \in Handlers, HandlerStep(h), ~Confirm(h) PROVE UNCHANGED vars
  BY <1>3
  DEF HandlerStep, Webhook, Reconcile, Begin, Process, HandlerCrash, IgnoreEvent,
      AmountMismatch, AlreadyConfirmed, HoldExpired, RecordFailed, AmountMatches, Finish, vars
<1>4. ASSUME NEW w \in Refunders, RefunderStep(w) PROVE UNCHANGED vars
  BY <1>4
  DEF RefunderStep, RefundStart, RefundNothingToDo, RefundCall, RefundRetry, RefundRecord
<1>5. ASSUME NEW o, NEW amount, CustomerPays(o, amount) \/ AttemptFails(o) \/ OrganizerRefund(o)
      PROVE  UNCHANGED vars
  BY <1>5 DEF CustomerPays, AttemptFails, OrganizerRefund
<1>6. CASE UNCHANGED allVars
  BY <1>6 DEF allVars
<1> QED
  BY <1>1, <1>2, <1>3, <1>4, <1>5, <1>6 DEF PayNext

(* What a step does to the handlers: nothing, one begins with an event the *)
(* provider knows of, or one is done.                                      *)
HandDone(h) == hand[h] # Idle /\ hand' = [hand EXCEPT ![h] = Idle]

Begins(h, event, o) == Begin(h, event, o) /\ (event = "captured" => captured[o] # 0)

OrdersFit == Len(orders) <= MaxOrders

LEMMA NextOrdersFit == TypeOK /\ OrdersFit /\ [Next]_vars => OrdersFit'
<1> SUFFICES ASSUME TypeOK, OrdersFit, [Next]_vars PROVE OrdersFit'
  OBVIOUS
<1>1. ASSUME NEW p \in Workers, OrderCreated(p) PROVE OrdersFit'
  <2>1. Len(orders) \in Nat /\ Len(orders) < MaxOrders /\ Len(orders') = Len(orders) + 1
    BY <1>1 DEF OrderCreated, TypeOK, RowsOK
  <2> QED
    BY <2>1, ConstantsAssumption DEF OrdersFit
<1>2. CASE UNCHANGED orders
  BY <1>2 DEF OrdersFit
<1> QED
  BY <1>1, <1>2, OrdersMove

LEMMA OrdersHaveIds == ASSUME TypeOK, OrdersFit PROVE DOMAIN orders \subseteq OrderIds
BY ConstantsAssumption DEF TypeOK, RowsOK, OrdersFit, OrderIds

(* No order is created for less than nothing, for the copy it is created   *)
(* from adds up.                                                           *)
OrdersCharge == \A o \in DOMAIN orders : orders[o].amount >= 0

LEMMA RowTotalNat == ASSUME NEW row \in Row, AddsUp(row) PROVE row.total \in Nat
<1> DEFINE charged == Subtotal(row.items) - row.discount
<1>1. charged \in Nat
  BY SubtotalType DEF AddsUp, Row
<1>2. charged * FeeBps \in Nat
  BY <1>1, ConstantsAssumption
<1>3. PlatformFee(charged) \in Nat
  BY <1>2 DEF PlatformFee
<1>4. row.total = charged + PlatformFee(charged) + row.donation
  BY DEF AddsUp
<1> HIDE DEF charged
<1> QED
  BY <1>1, <1>3, <1>4 DEF Row

LEMMA NextOrdersCharge ==
  TypeOK /\ InvoicesAddUp /\ OrdersCharge /\ [Next]_vars => OrdersCharge'
<1> SUFFICES ASSUME TypeOK, InvoicesAddUp, OrdersCharge, [Next]_vars PROVE OrdersCharge'
  OBVIOUS
<1>1. ASSUME NEW p \in Workers, OrderCreated(p) PROVE OrdersCharge'
  <2>1. mem[p].booking \in Bookings /\ mem[p].row \in Row /\ AddsUp(mem[p].row)
    BY <1>1 DEF OrderCreated, TypeOK, WorkersOK, Carried, InvoicesAddUp
  <2>2. [mem[p].row EXCEPT !.order = Len(orders) + 1, !.gw = mem[p].gw].total = mem[p].row.total
    BY <2>1 DEF Row
  <2>3. mem[p].row.total \in Nat
    BY <2>1, RowTotalNat
  <2>4. PICK new \in [booking : Bookings, amount : Nat] : orders' = Append(orders, new)
    BY <1>1, <2>1, <2>2, <2>3 DEF OrderCreated
  <2> QED
    BY <2>4 DEF OrdersCharge, TypeOK, RowsOK
<1>2. CASE UNCHANGED orders
  BY <1>2 DEF OrdersCharge
<1> QED
  BY <1>1, <1>2, OrdersMove

LEMMA OrderRows ==
  ASSUME TypeOK, OrdersCharge
  PROVE  \A o \in DOMAIN orders : orders[o].booking \in Bookings /\ orders[o].amount \in Nat
<1> DEFINE rows == [booking : Bookings, amount : Int]
<1>1. orders \in Seq(rows)
  BY DEF TypeOK, RowsOK
<1>2. \A row \in rows : row.booking \in Bookings /\ row.amount \in Int
  OBVIOUS
<1> HIDE DEF rows
<1> QED
  BY <1>1, <1>2 DEF OrdersCharge

LEMMA HandStep ==
  ASSUME TypeOK, OrderMatchesTotal, OrdersFit, HandsKnow, [PayNext]_allVars
  PROVE  \/ UNCHANGED hand
         \/ \E h \in Handlers, o \in OrderIds, event \in {"captured", "failed"} : Begins(h, event, o)
         \/ \E h \in Handlers : HandDone(h)
<1>1. CASE BookingStep \/ UNCHANGED allVars
  BY <1>1 DEF BookingStep, payVars, allVars
<1>2. ASSUME NEW h \in Handlers, NEW o \in OrderIds, Webhook(h, o)
      PROVE  \E event \in {"captured", "failed"} : Begins(h, event, o)
  BY <1>2 DEF Webhook, Begins
<1>3. ASSUME NEW h \in Handlers, NEW b \in Bookings, Reconcile(h, b)
      PROVE  \E o \in OrderIds : Begins(h, "captured", o)
  <2>1. book[b].order \in OrderIds
    BY <1>3, OrdersHaveIds DEF Reconcile, OrderMatchesTotal
  <2> QED
    BY <1>3, <2>1 DEF Reconcile, Begins
<1>4. ASSUME NEW h \in Handlers, Process(h) \/ HandlerCrash(h) PROVE HandDone(h)
  BY <1>4
  DEF Process, HandlerCrash, IgnoreEvent, AmountMismatch, Confirm, AlreadyConfirmed,
      HoldExpired, RecordFailed, AmountMatches, Finish, HandDone, Idle
<1>5. ASSUME NEW w \in Refunders, RefunderStep(w) PROVE UNCHANGED hand
  BY <1>5
  DEF RefunderStep, RefundStart, RefundNothingToDo, RefundCall, RefundRetry, RefundRecord
<1>6. ASSUME NEW o, NEW amount, CustomerPays(o, amount) \/ AttemptFails(o) \/ OrganizerRefund(o)
      PROVE  UNCHANGED hand
  BY <1>6 DEF CustomerPays, AttemptFails, OrganizerRefund
<1> QED
  BY <1>1, <1>2, <1>3, <1>4, <1>5, <1>6 DEF PayNext, HandlerStep

(* A handler that begins carries the booking that names its order.         *)
LEMMA BeginCarries ==
  ASSUME TypeOK, OrderMatchesTotal, OrdersCharge, HandsKnow, NEW h \in Handlers, NEW o \in OrderIds,
         NEW event \in {"captured", "failed"}, Begin(h, event, o)
  PROVE  /\ hand[h] = Idle /\ \A g \in Handlers : g # h => hand'[g] = hand[g]
         /\ hand'[h] \in HandRow
         /\ hand'[h].event = event /\ hand'[h].order = o
         /\ hand'[h].booking # NoKey =>
              /\ hand'[h].booking \in Bookings
              /\ o \in DOMAIN orders /\ orders[o].booking = hand'[h].booking
              /\ book[hand'[h].booking].order = o
              /\ hand'[h].total = book[hand'[h].booking].total
<1>1. o \in Nat /\ o # 0
  BY DEF OrderIds
<1>2. hand[h] = Idle /\ \A g \in Handlers : g # h => hand'[g] = hand[g]
  BY DEF Begin, HandsKnow
<1>3. CASE BookingOf(o) = {}
  <2>1. hand'[h] = [event |-> event, order |-> o, booking |-> NoKey, total |-> 0]
    BY <1>3 DEF Begin, HandsKnow, Idle
  <2>2. hand'[h] \in HandRow
    BY <1>1, <2>1 DEF HandRow
  <2> QED
    BY <1>2, <2>1, <2>2
<1>4. CASE BookingOf(o) # {}
  <2> DEFINE b == CHOOSE b \in BookingOf(o) : TRUE
  <2>1. b \in Bookings /\ book[b].order = o
    BY <1>4 DEF BookingOf
  <2>2. hand' = [hand EXCEPT ![h] = [event |-> event, order |-> o, booking |-> b,
                                     total |-> book[b].total]]
    BY <1>4 DEF Begin
  <2> HIDE DEF b
  <2>3. hand'[h] = [event |-> event, order |-> o, booking |-> b, total |-> book[b].total]
    BY <2>2 DEF HandsKnow
  <2>4. o \in DOMAIN orders /\ orders[o].booking = b /\ book[b].total \in Nat
    <3>1. book[b].order # 0
      BY <1>1, <2>1
    <3>2. o \in DOMAIN orders /\ orders[o] = [booking |-> b, amount |-> book[b].total]
      BY <2>1, <3>1 DEF OrderMatchesTotal
    <3> QED
      BY <3>2, OrderRows
  <2> QED
    BY <1>1, <1>2, <2>1, <2>3, <2>4 DEF HandRow
<1> QED
  BY <1>3, <1>4

PayBase ==
  TypeOK /\ InvoicesAddUp /\ OrderMatchesTotal /\ OrdersFit /\ OrdersCharge /\ HandsKnow

LEMMA NextHands == PayBase /\ [PayNext]_allVars => HandsKnow'
<1> SUFFICES ASSUME PayBase, [PayNext]_allVars PROVE HandsKnow'
  OBVIOUS
<1>1. OrdersGrow
  BY PayStepIsStep, NextOrdersGrow DEF PayBase
<1>2. CASE UNCHANGED hand
  BY <1>1, <1>2 DEF PayBase, HandsKnow, OrdersGrow
<1>3. ASSUME NEW h \in Handlers, NEW o \in OrderIds, NEW event \in {"captured", "failed"},
             Begins(h, event, o)
      PROVE  HandsKnow'
  <2>1. hand' = [hand EXCEPT ![h] = hand'[h]]
    BY <1>3 DEF Begins, Begin, PayBase, HandsKnow
  <2> QED
    BY <1>1, <1>3, <2>1, BeginCarries DEF Begins, PayBase, HandsKnow, OrdersGrow
<1>4. ASSUME NEW h \in Handlers, HandDone(h) PROVE HandsKnow'
  BY <1>1, <1>4 DEF HandDone, PayBase, HandsKnow, OrdersGrow, Idle, HandRow
<1> QED
  BY <1>2, <1>3, <1>4, HandStep DEF PayBase

LEMMA PayBaseHolds == PaySpec => []PayBase /\ [][Next]_vars
<1>1. PayInit => PayBase
  <2>1. PayInit => TypeOK
    BY InitType DEF PayInit
  <2> QED
    BY <2>1, ConstantsAssumption
    DEF PayInit, Init, NoRow, InvoicesAddUp, TotalAddsUp, OrderMatchesTotal, OrdersFit,
        OrdersCharge, HandsKnow, HandRow, Idle, PayBase
<1>2. PayBase /\ [PayNext]_allVars => [Next]_vars
  BY PayStepIsStep DEF PayBase
<1>3. PayBase /\ [PayNext]_allVars => PayBase'
  BY <1>2, NextType, NextInvoices, NextOrderFits, NextOrdersFit, NextOrdersCharge, NextHands
  DEF PayBase
<1> QED
  BY <1>1, <1>2, <1>3, PTL DEF PaySpec

(* The money path refines the booking lifecycle: whatever webhooks,        *)
(* verify calls, reconciliation, refunds and crashes do to the rows of     *)
(* Booking, Booking does - a handler confirms, under the row lock, only a  *)
(* booking its order was created for.  Every theorem about Spec is one     *)
(* about PaySpec.                                                          *)
THEOREM PaymentsAreBookings == PaySpec => Spec
<1>1. PayInit => Init
  BY DEF PayInit
<1> QED
  BY <1>1, PayBaseHolds, PTL DEF PaySpec, Spec

-----------------------------------------------------------------------------
(* What a step does to the payment tables: nothing, a handler commits with *)
(* its ledger row, or a queue worker records a refund.                     *)

Commits(h) ==
  /\ HandDone(h) /\ hand[h].event # "none"
  /\ ledger' = ledger \cup {<<hand[h].event, hand[h].order>>}
  /\ UNCHANGED <<providerVars, refundRows, refunder, voided>>

Captures(h) ==
  /\ hand[h].event = "captured" /\ hand[h].booking # NoKey
  /\ RecordCaptured(h)
  /\ Confirm(h) \/ UNCHANGED <<vars, issuedBy>>

LEMMA PayTablesStep ==
  ASSUME HandsKnow, [PayNext]_allVars
  PROVE  \/ UNCHANGED payDbVars
         \/ \E h \in Handlers :
              Commits(h) /\ (UNCHANGED <<vars, pay, issuedBy>> \/ Captures(h) \/ RecordFailed(h))
         \/ \E w \in Refunders : RefundRecord(w)
<1>1. CASE BookingStep \/ UNCHANGED allVars
  BY <1>1 DEF BookingStep, payVars, payDbVars, allVars
<1>2. ASSUME NEW h \in Handlers,
             (\E o \in OrderIds : Webhook(h, o)) \/ (\E b \in Bookings : Reconcile(h, b))
             \/ HandlerCrash(h)
      PROVE  UNCHANGED payDbVars
  BY <1>2 DEF Webhook, Reconcile, Begin, HandlerCrash
<1>3. ASSUME NEW h \in Handlers, Process(h)
      PROVE  Commits(h) /\ (UNCHANGED <<vars, pay, issuedBy>> \/ Captures(h) \/ RecordFailed(h))
  <2>1. Finish(h) /\ hand[h].event # "none"
    BY <1>3 DEF Process, IgnoreEvent, AmountMismatch, Confirm, AlreadyConfirmed, HoldExpired,
                RecordFailed, AmountMatches
  <2>2. Commits(h)
    BY <2>1 DEF Commits, Finish, HandDone, Idle
  <2>3. UNCHANGED <<vars, pay, issuedBy>> \/ Captures(h) \/ RecordFailed(h)
    BY <1>3, <2>1 DEF Process, IgnoreEvent, AmountMismatch, Confirm, AlreadyConfirmed,
                      HoldExpired, AmountMatches, Captures, Finish, vars
  <2> QED
    BY <2>2, <2>3
<1>4. ASSUME NEW w \in Refunders, RefunderStep(w), ~RefundRecord(w) PROVE UNCHANGED payDbVars
  BY <1>4 DEF RefunderStep, RefundStart, RefundNothingToDo, RefundCall, RefundRetry
<1>5. ASSUME NEW o, NEW amount, CustomerPays(o, amount) \/ AttemptFails(o) \/ OrganizerRefund(o)
      PROVE  UNCHANGED payDbVars
  BY <1>5 DEF CustomerPays, AttemptFails, OrganizerRefund
<1> QED
  BY <1>1, <1>2, <1>3, <1>4, <1>5 DEF PayNext, HandlerStep

(* ... and to the queue workers and what the provider has returned.        *)
LEMMA RefunderMoves ==
  ASSUME [PayNext]_allVars
  PROVE  \/ UNCHANGED <<refunder, refundedAtProvider>>
         \/ \E w \in Refunders, o \in OrderIds : RefundStart(w, o)
         \/ \E w \in Refunders : RefundCall(w) \/ RefundRetry(w) \/ RefundRecord(w)
<1>1. CASE BookingStep \/ UNCHANGED allVars
  BY <1>1 DEF BookingStep, payVars, providerVars, allVars
<1>2. ASSUME NEW h \in Handlers, HandlerStep(h) PROVE UNCHANGED <<refunder, refundedAtProvider>>
  BY <1>2
  DEF HandlerStep, Webhook, Reconcile, Begin, Process, HandlerCrash, IgnoreEvent,
      AmountMismatch, Confirm, AlreadyConfirmed, HoldExpired, RecordFailed, AmountMatches,
      Finish, providerVars
<1>3. ASSUME NEW o, NEW amount,
             CustomerPays(o, amount) \/ AttemptFails(o) \/ OrganizerRefund(o)
             \/ \E w \in Refunders : RefundNothingToDo(w, o)
      PROVE  UNCHANGED <<refunder, refundedAtProvider>>
  BY <1>3 DEF CustomerPays, AttemptFails, OrganizerRefund, RefundNothingToDo, providerVars
<1> QED
  BY <1>1, <1>2, <1>3 DEF PayNext, RefunderStep

-----------------------------------------------------------------------------
(* The records know their orders, an event is processed once, and a worker *)
(* that executes a refund works on a payment that was captured.            *)

RecordRow == [status : {"none", "failed", "paid", "refunded"},
              booking : Bookings \cup {NoKey}, amount : Nat]

RefunderRow == [order : Nat, amount : Nat, called : BOOLEAN]

RecordsKnow ==
  /\ pay \in [OrderIds -> RecordRow]
  /\ \A o \in OrderIds : pay[o].status # "none" =>
       o \in DOMAIN orders /\ pay[o].booking = orders[o].booking

RefundsKnow ==
  /\ refunder \in [Refunders -> RefunderRow]
  /\ \A w \in Refunders : refunder[w] # NotRefunding =>
       /\ refunder[w].order \in OrderIds
       /\ pay[refunder[w].order].status \in {"paid", "refunded"}

EventsOnce ==
  /\ \A h \in Handlers : hand[h].event # "none" => <<hand[h].event, hand[h].order>> \notin ledger
  /\ \A g, h \in Handlers : g # h /\ hand[g].event # "none" =>
       <<hand[g].event, hand[g].order>> # <<hand[h].event, hand[h].order>>
  /\ \A o \in OrderIds : pay[o].status \in {"paid", "refunded"} => <<"captured", o>> \in ledger

RefundRowsMatch ==
  /\ refundRows \in [OrderIds -> Seq(Nat)]
  /\ \A o \in OrderIds : Len(refundRows[o]) = IF pay[o].status = "refunded" THEN 1 ELSE 0

CapturesKnown == captured \in [OrderIds -> Nat]

PayRecords == RecordsKnow /\ RefundsKnow /\ EventsOnce /\ RefundRowsMatch /\ CapturesKnown

LEMMA NextCaptures == PayBase /\ CapturesKnown /\ [PayNext]_allVars => CapturesKnown'
<1> SUFFICES ASSUME PayBase, CapturesKnown, [PayNext]_allVars PROVE CapturesKnown'
  OBVIOUS
<1>1. ASSUME NEW o \in DOMAIN orders, NEW excess \in {0, 1},
             CustomerPays(o, orders[o].amount + excess)
      PROVE  CapturesKnown'
  <2>1. orders[o].amount + excess \in Nat
    BY OrderRows DEF PayBase
  <2> QED
    BY <1>1, <2>1 DEF CustomerPays, CapturesKnown
<1>2. CASE BookingStep \/ UNCHANGED allVars
  BY <1>2 DEF BookingStep, payVars, providerVars, allVars, CapturesKnown
<1>3. ASSUME NEW h \in Handlers, HandlerStep(h) PROVE UNCHANGED captured
  BY <1>3
  DEF HandlerStep, Webhook, Reconcile, Begin, Process, HandlerCrash, IgnoreEvent,
      AmountMismatch, Confirm, AlreadyConfirmed, HoldExpired, RecordFailed, AmountMatches,
      Finish, providerVars
<1>4. ASSUME NEW w \in Refunders, RefunderStep(w) PROVE UNCHANGED captured
  BY <1>4
  DEF RefunderStep, RefundStart, RefundNothingToDo, RefundCall, RefundRetry, RefundRecord,
      providerVars
<1>5. ASSUME NEW o, AttemptFails(o) \/ OrganizerRefund(o) PROVE UNCHANGED captured
  BY <1>5 DEF AttemptFails, OrganizerRefund, providerVars
<1> QED
  BY <1>1, <1>2, <1>3, <1>4, <1>5 DEF PayNext, CapturesKnown

(* A capture creates the row of its order or lifts it from `failed`: that  *)
(* event was never processed before.                                       *)
LEMMA CaptureRows ==
  ASSUME PayBase, PayRecords, NEW h \in Handlers, Commits(h), Captures(h)
  PROVE  \E o \in OrderIds :
           /\ o = hand[h].order /\ pay[o].status \in {"none", "failed"}
           /\ o \in DOMAIN orders /\ orders[o].booking = hand[h].booking
           /\ pay' = [pay EXCEPT ![o] = [status |-> "paid", booking |-> orders[o].booking,
                                         amount |-> captured[o]]]
           /\ ledger' = ledger \cup {<<"captured", o>>}
<1> DEFINE o == hand[h].order
<1>1. /\ o \in OrderIds /\ o \in DOMAIN orders /\ orders[o].booking = hand[h].booking
      /\ hand[h].event = "captured"
  BY DEF Captures, PayBase, HandsKnow
<1>2. pay[o].status \in {"none", "failed"}
  BY <1>1 DEF PayRecords, EventsOnce, RecordsKnow, RecordRow
<1>3. pay[o].status # "none" => pay[o].booking = orders[o].booking
  BY <1>1 DEF PayRecords, RecordsKnow
<1>4. ledger' = ledger \cup {<<"captured", o>>}
  BY <1>1 DEF Commits
<1>5. pay' = [pay EXCEPT ![o] = [status |-> "paid", booking |-> orders[o].booking,
                                 amount |-> captured[o]]]
  BY <1>1, <1>2, <1>3 DEF Captures, RecordCaptured, PayRecords, RecordsKnow
<1> QED
  BY <1>1, <1>2, <1>4, <1>5

(* A failed attempt is recorded only where there is no row.                *)
LEMMA FailureRows ==
  ASSUME PayBase, PayRecords, NEW h \in Handlers, RecordFailed(h)
  PROVE  \/ UNCHANGED pay
         \/ \E o \in OrderIds :
              /\ pay[o].status = "none" /\ o \in DOMAIN orders
              /\ pay' = [pay EXCEPT ![o] = [status |-> "failed", booking |-> orders[o].booking,
                                            amount |-> orders[o].amount]]
BY DEF RecordFailed, PayBase, HandsKnow

(* A refund closes a paid row, or finds it closed.                         *)
LEMMA RefundRowsStep ==
  ASSUME PayRecords, NEW w \in Refunders, RefundRecord(w)
  PROVE  \E o \in OrderIds :
           /\ o = refunder[w].order /\ pay[o].status \in {"paid", "refunded"}
           /\ refunder' = [refunder EXCEPT ![w] = NotRefunding]
           /\ UNCHANGED <<vars, hand, ledger, issuedBy, queue, captured, refundedAtProvider>>
           /\ \/ pay[o].status = "refunded" /\ UNCHANGED <<pay, refundRows, voided>>
              \/ /\ pay[o].status = "paid"
                 /\ pay' = [pay EXCEPT ![o] = [pay[o] EXCEPT !.status = "refunded"]]
                 /\ refundRows' = [refundRows EXCEPT ![o] = Append(refundRows[o], refunder[w].amount)]
                 /\ voided' = [voided EXCEPT ![pay[o].booking] = tickets[pay[o].booking]]
<1> DEFINE o == refunder[w].order
<1>1. refunder[w] # NotRefunding
  BY DEF RefundRecord, NotRefunding
<1>2. o \in OrderIds /\ pay[o].status \in {"paid", "refunded"}
  BY <1>1 DEF PayRecords, RefundsKnow
<1> QED
  BY <1>2 DEF RefundRecord, PayRecords, RecordsKnow, RefundRowsMatch, payDbVars, providerVars

LEMMA NextRecordsKnow ==
  ASSUME PayBase, PayRecords, [PayNext]_allVars
  PROVE  RecordsKnow'
<1>1. OrdersGrow
  BY PayStepIsStep, NextOrdersGrow DEF PayBase
<1>2. \A o \in DOMAIN orders : orders[o].booking \in Bookings /\ orders[o].amount \in Nat
  BY OrderRows DEF PayBase
<1>3. CASE UNCHANGED pay
  BY <1>1, <1>3 DEF PayRecords, RecordsKnow, OrdersGrow
<1>4. ASSUME NEW o \in OrderIds, o \in DOMAIN orders, NEW row \in RecordRow,
             pay' = [pay EXCEPT ![o] = row], row.booking = orders[o].booking
      PROVE  RecordsKnow'
  BY <1>1, <1>4 DEF PayRecords, RecordsKnow, OrdersGrow
<1>5. ASSUME NEW h \in Handlers, Commits(h), Captures(h) PROVE RecordsKnow'
  <2>1. PICK o \in OrderIds :
          /\ o \in DOMAIN orders
          /\ pay' = [pay EXCEPT ![o] = [status |-> "paid", booking |-> orders[o].booking,
                                        amount |-> captured[o]]]
    BY <1>5, CaptureRows
  <2>2. [status |-> "paid", booking |-> orders[o].booking, amount |-> captured[o]] \in RecordRow
    BY <1>2, <2>1 DEF PayRecords, CapturesKnown, RecordRow
  <2> QED
    BY <1>4, <2>1, <2>2
<1>6. ASSUME NEW h \in Handlers, RecordFailed(h) PROVE RecordsKnow'
  <2>1. CASE UNCHANGED pay
    BY <1>3, <2>1
  <2>2. ASSUME NEW o \in OrderIds, o \in DOMAIN orders,
               pay' = [pay EXCEPT ![o] = [status |-> "failed", booking |-> orders[o].booking,
                                          amount |-> orders[o].amount]]
        PROVE  RecordsKnow'
    <3>1. [status |-> "failed", booking |-> orders[o].booking, amount |-> orders[o].amount]
            \in RecordRow
      BY <1>2, <2>2 DEF RecordRow
    <3> QED
      BY <1>4, <2>2, <3>1
  <2> QED
    BY <1>6, <2>1, <2>2, FailureRows
<1>7. ASSUME NEW w \in Refunders, RefundRecord(w) PROVE RecordsKnow'
  <2>1. PICK o \in OrderIds :
          /\ pay[o].status \in {"paid", "refunded"}
          /\ UNCHANGED pay \/ pay' = [pay EXCEPT ![o] = [pay[o] EXCEPT !.status = "refunded"]]
    BY <1>7, RefundRowsStep
  <2>2. /\ o \in DOMAIN orders /\ [pay[o] EXCEPT !.status = "refunded"] \in RecordRow
        /\ [pay[o] EXCEPT !.status = "refunded"].booking = orders[o].booking
    BY <2>1 DEF PayRecords, RecordsKnow, RecordRow
  <2> QED
    BY <1>3, <1>4, <2>1, <2>2
<1> QED
  BY <1>3, <1>5, <1>6, <1>7, PayTablesStep DEF PayBase, payDbVars

(* Once captured, a payment stays captured.                                *)
CapturedStays ==
  \A o \in OrderIds : pay[o].status \in {"paid", "refunded"} =>
    pay'[o].status \in {"paid", "refunded"} /\ pay'[o].booking = pay[o].booking
    /\ pay'[o].amount = pay[o].amount

LEMMA NextCapturedStays ==
  ASSUME PayBase, PayRecords, [PayNext]_allVars
  PROVE  CapturedStays
<1>1. ASSUME NEW h \in Handlers, Commits(h), Captures(h) PROVE CapturedStays
  BY <1>1, CaptureRows DEF CapturedStays, PayRecords, RecordsKnow
<1>2. ASSUME NEW h \in Handlers, RecordFailed(h) PROVE CapturedStays
  BY <1>2, FailureRows DEF CapturedStays, PayRecords, RecordsKnow
<1>3. ASSUME NEW w \in Refunders, RefundRecord(w) PROVE CapturedStays
  <2>1. PICK o \in OrderIds :
          UNCHANGED pay \/ pay' = [pay EXCEPT ![o] = [pay[o] EXCEPT !.status = "refunded"]]
    BY <1>3, RefundRowsStep
  <2>2. LET row == [pay[o] EXCEPT !.status = "refunded"] IN
        row.status = "refunded" /\ row.booking = pay[o].booking /\ row.amount = pay[o].amount
    BY DEF PayRecords, RecordsKnow, RecordRow
  <2> QED
    BY <2>1, <2>2 DEF CapturedStays, PayRecords, RecordsKnow
<1>4. CASE UNCHANGED pay
  BY <1>4 DEF CapturedStays
<1> QED
  BY <1>1, <1>2, <1>3, <1>4, PayTablesStep DEF PayBase, payDbVars

LEMMA NextRefundsKnow ==
  ASSUME PayBase, PayRecords, [PayNext]_allVars
  PROVE  RefundsKnow'
<1>1. CapturedStays
  BY NextCapturedStays
<1>2. CASE UNCHANGED refunder
  BY <1>1, <1>2 DEF PayRecords, RefundsKnow, CapturedStays
<1>3. ASSUME NEW w \in Refunders, NEW o \in OrderIds, RefundStart(w, o) PROVE RefundsKnow'
  <2> DEFINE amount == RefundableAmount(pay[o].booking)
  <2>1. /\ pay[o].status = "paid"
        /\ refunder' = [refunder EXCEPT ![w] = [order |-> o, amount |-> amount, called |-> FALSE]]
    BY <1>3 DEF RefundStart
  <2>2. amount \in Nat
    <3>1. pay[o].booking \in Bookings
      BY <2>1, OrderRows DEF PayBase, PayRecords, RecordsKnow
    <3>2. book[pay[o].booking].total \in Int /\ book[pay[o].booking].donation \in Int
      BY <3>1 DEF PayBase, TypeOK, RowsOK, Row
    <3> QED
      BY <1>3, <3>2 DEF RefundStart, RefundableAmount
  <2> HIDE DEF amount
  <2>3. [order |-> o, amount |-> amount, called |-> FALSE] \in RefunderRow
    BY <2>2 DEF RefunderRow, OrderIds
  <2> QED
    BY <1>1, <2>1, <2>3 DEF PayRecords, RefundsKnow, CapturedStays
<1>4. ASSUME NEW w \in Refunders, RefundCall(w) PROVE RefundsKnow'
  <2>1. /\ refunder[w] # NotRefunding /\ UNCHANGED pay
        /\ refunder' = [refunder EXCEPT ![w].called = TRUE]
    BY <1>4 DEF RefundCall, payDbVars
  <2>2. refunder' = [refunder EXCEPT ![w] = [refunder[w] EXCEPT !.called = TRUE]]
    BY <2>1 DEF PayRecords, RefundsKnow
  <2>3. [refunder[w] EXCEPT !.called = TRUE] \in RefunderRow
        /\ [refunder[w] EXCEPT !.called = TRUE].order = refunder[w].order
    BY DEF PayRecords, RefundsKnow, RefunderRow
  <2> QED
    BY <2>1, <2>2, <2>3 DEF PayRecords, RefundsKnow
<1>5. ASSUME NEW w \in Refunders, RefundRetry(w) \/ RefundRecord(w) PROVE RefundsKnow'
  <2>1. refunder' = [refunder EXCEPT ![w] = NotRefunding] /\ NotRefunding \in RefunderRow
    BY <1>5 DEF RefundRetry, RefundRecord, NotRefunding, RefunderRow
  <2> QED
    BY <1>1, <2>1 DEF PayRecords, RefundsKnow, CapturedStays
<1> QED
  BY <1>2, <1>3, <1>4, <1>5, RefunderMoves

LEMMA NextEventsOnce ==
  ASSUME PayBase, PayRecords, [PayNext]_allVars
  PROVE  EventsOnce'
<1>1. CASE UNCHANGED payDbVars
  <2>1. UNCHANGED <<ledger, pay>>
    BY <1>1 DEF payDbVars
  <2>2. CASE UNCHANGED hand
    BY <2>1, <2>2 DEF PayRecords, EventsOnce
  <2>3. ASSUME NEW h \in Handlers, NEW o \in OrderIds, NEW event \in {"captured", "failed"},
               Begins(h, event, o)
        PROVE  EventsOnce'
    <3>1. /\ hand'[h].event = event /\ hand'[h].order = o
          /\ \A g \in Handlers : g # h => hand'[g] = hand[g]
      BY <2>3, BeginCarries DEF Begins, PayBase
    <3>2. /\ <<event, o>> \notin ledger
          /\ \A g \in Handlers : ~(hand[g].event = event /\ hand[g].order = o)
      BY <2>3 DEF Begins, Begin
    <3> QED
      BY <2>1, <3>1, <3>2 DEF PayRecords, EventsOnce
  <2>4. ASSUME NEW h \in Handlers, HandDone(h) PROVE EventsOnce'
    BY <2>1, <2>4 DEF HandDone, Idle, PayRecords, EventsOnce, PayBase, HandsKnow
  <2> QED
    BY <2>2, <2>3, <2>4, HandStep DEF PayBase
<1>2. ASSUME NEW h \in Handlers, Commits(h),
             \A o \in OrderIds : pay'[o].status \in {"paid", "refunded"} =>
               \/ pay[o].status \in {"paid", "refunded"}
               \/ <<"captured", o>> = <<hand[h].event, hand[h].order>>
      PROVE  EventsOnce'
  <2>1. /\ hand' = [hand EXCEPT ![h] = Idle] /\ hand[h].event # "none"
        /\ ledger' = ledger \cup {<<hand[h].event, hand[h].order>>}
    BY <1>2 DEF Commits, HandDone
  <2>2. /\ \A g \in Handlers : g # h => hand'[g] = hand[g]
        /\ hand'[h].event = "none"
    BY <2>1 DEF PayBase, HandsKnow, Idle
  <2> QED
    BY <1>2, <2>1, <2>2 DEF PayRecords, EventsOnce
<1>3. ASSUME NEW h \in Handlers, Commits(h), Captures(h) PROVE EventsOnce'
  BY <1>2, <1>3, CaptureRows DEF Captures, PayRecords, RecordsKnow
<1>4. ASSUME NEW h \in Handlers, Commits(h), RecordFailed(h) \/ UNCHANGED pay PROVE EventsOnce'
  BY <1>2, <1>4, FailureRows DEF PayRecords, RecordsKnow
<1>5. ASSUME NEW w \in Refunders, RefundRecord(w) PROVE EventsOnce'
  BY <1>5, RefundRowsStep DEF PayRecords, EventsOnce, RecordsKnow
<1> QED
  BY <1>1, <1>3, <1>4, <1>5, PayTablesStep DEF PayBase

LEMMA NextRefundRows ==
  ASSUME PayBase, PayRecords, [PayNext]_allVars
  PROVE  RefundRowsMatch'
<1>1. ASSUME NEW h \in Handlers, Commits(h), Captures(h) PROVE RefundRowsMatch'
  <2>1. PICK o \in OrderIds :
          /\ pay[o].status \in {"none", "failed"}
          /\ pay' = [pay EXCEPT ![o] = [status |-> "paid", booking |-> orders[o].booking,
                                        amount |-> captured[o]]]
    BY <1>1, CaptureRows
  <2>2. pay'[o].status = "paid" /\ \A i \in OrderIds : i # o => pay'[i] = pay[i]
    BY <2>1 DEF PayRecords, RecordsKnow
  <2>3. UNCHANGED refundRows
    BY <1>1 DEF Commits
  <2> QED
    BY <2>1, <2>2, <2>3 DEF PayRecords, RefundRowsMatch
<1>2. ASSUME NEW h \in Handlers, Commits(h), RecordFailed(h) \/ UNCHANGED pay
      PROVE  RefundRowsMatch'
  <2>1. \A o \in OrderIds : pay'[o].status = "refunded" <=> pay[o].status = "refunded"
    BY <1>2, FailureRows DEF PayRecords, RecordsKnow
  <2>2. UNCHANGED refundRows
    BY <1>2 DEF Commits
  <2> QED
    BY <2>1, <2>2 DEF PayRecords, RefundRowsMatch
<1>3. ASSUME NEW w \in Refunders, RefundRecord(w) PROVE RefundRowsMatch'
  <2>1. PICK o \in OrderIds :
          /\ o = refunder[w].order
          /\ \/ UNCHANGED <<pay, refundRows>>
             \/ /\ pay[o].status = "paid"
                /\ pay' = [pay EXCEPT ![o] = [pay[o] EXCEPT !.status = "refunded"]]
                /\ refundRows' = [refundRows EXCEPT ![o] = Append(refundRows[o], refunder[w].amount)]
    BY <1>3, RefundRowsStep
  <2>2. CASE UNCHANGED <<pay, refundRows>>
    BY <2>2 DEF PayRecords, RefundRowsMatch
  <2>3. CASE /\ pay[o].status = "paid"
             /\ pay' = [pay EXCEPT ![o] = [pay[o] EXCEPT !.status = "refunded"]]
             /\ refundRows' = [refundRows EXCEPT ![o] = Append(refundRows[o], refunder[w].amount)]
    <3>1. refunder[w].amount \in Nat /\ refundRows[o] \in Seq(Nat) /\ Len(refundRows[o]) = 0
      BY <2>3 DEF PayRecords, RefundsKnow, RefunderRow, RefundRowsMatch
    <3>2. /\ Append(refundRows[o], refunder[w].amount) \in Seq(Nat)
          /\ Len(Append(refundRows[o], refunder[w].amount)) = 1
      BY <3>1
    <3>3. pay'[o].status = "refunded" /\ \A i \in OrderIds : i # o => pay'[i] = pay[i]
      BY <2>3 DEF PayRecords, RecordsKnow, RecordRow
    <3> QED
      BY <2>3, <3>2, <3>3 DEF PayRecords, RefundRowsMatch
  <2> QED
    BY <2>1, <2>2, <2>3
<1>4. CASE UNCHANGED payDbVars
  BY <1>4 DEF payDbVars, PayRecords, RefundRowsMatch
<1> QED
  BY <1>1, <1>2, <1>3, <1>4, PayTablesStep DEF PayBase

LEMMA PayRecordsHold == PaySpec => [](PayBase /\ PayRecords)
<1>1. PayInit => PayRecords
  BY DEF PayInit, NoPay, Idle, NotRefunding, PayRecords, RecordsKnow, RecordRow, RefundsKnow,
         RefunderRow, EventsOnce, RefundRowsMatch, CapturesKnown
<1>2. PayBase /\ PayRecords /\ [PayNext]_allVars => PayRecords'
  BY NextRecordsKnow, NextRefundsKnow, NextEventsOnce, NextRefundRows, NextCaptures
  DEF PayRecords
<1> QED
  BY <1>1, <1>2, PayBaseHolds, PTL DEF PaySpec

(* "A refund never double-runs": however often the task is delivered, by   *)
(* however many workers, wherever they die and whatever is re-priced       *)
(* meanwhile, a payment has one Refund row when it is refunded and none    *)
(* before.                                                                 *)
RefundRowIff ==
  \A o \in OrderIds : Len(refundRows[o]) = IF pay[o].status = "refunded" THEN 1 ELSE 0

THEOREM OneRefundRow == PaySpec => []RefundRowIff
<1>1. PayRecords => RefundRowIff
  BY DEF PayRecords, RefundRowsMatch, RefundRowIff
<1> QED
  BY <1>1, PayRecordsHold, PTL

-----------------------------------------------------------------------------
(* Type correctness of the money path.                                     *)

OtherTablesOK ==
  /\ failures \subseteq OrderIds
  /\ refundedAtProvider \in [OrderIds -> Nat]
  /\ ledger \subseteq {"captured", "failed"} \X OrderIds
  /\ queue \subseteq OrderIds
  /\ voided \in [Bookings -> [Tiers -> Nat]]
  /\ issuedBy \subseteq OrderIds

LEMMA NextOtherTables ==
  ASSUME PayBase, PayRecords, OtherTablesOK, [PayNext]_allVars
  PROVE  OtherTablesOK'
<1> USE DEF OtherTablesOK
<1>1. ASSUME NEW o \in DOMAIN orders, NEW amount, CustomerPays(o, amount) PROVE OtherTablesOK'
  BY <1>1 DEF CustomerPays, payDbVars
<1>2. ASSUME NEW o \in OrderIds, AttemptFails(o) \/ OrganizerRefund(o) PROVE OtherTablesOK'
  BY <1>2 DEF AttemptFails, OrganizerRefund, payDbVars, providerVars
<1>3. CASE BookingStep \/ UNCHANGED allVars
  BY <1>3 DEF BookingStep, payVars, payDbVars, providerVars, allVars
<1>4. ASSUME NEW h \in Handlers,
             (\E o \in OrderIds : Webhook(h, o)) \/ (\E b \in Bookings : Reconcile(h, b))
             \/ HandlerCrash(h)
      PROVE  OtherTablesOK'
  BY <1>4 DEF Webhook, Reconcile, Begin, HandlerCrash, payDbVars, providerVars
<1>5. ASSUME NEW h \in Handlers, Process(h) PROVE OtherTablesOK'
  <2>1. hand[h].event # "none" /\ Finish(h)
    BY <1>5 DEF Process, IgnoreEvent, AmountMismatch, Confirm, AlreadyConfirmed, HoldExpired,
                RecordFailed, AmountMatches
  <2>2. hand[h].order \in OrderIds /\ hand[h].event \in {"captured", "failed"}
    BY <2>1 DEF PayBase, HandsKnow, HandRow
  <2>3. UNCHANGED queue \/ queue' = queue \cup {hand[h].order}
    BY <1>5 DEF Process, IgnoreEvent, AmountMismatch, Confirm, AlreadyConfirmed, HoldExpired,
                RecordFailed, ScheduleRefund
  <2>4. UNCHANGED issuedBy \/ issuedBy' = issuedBy \cup {hand[h].order}
    BY <1>5 DEF Process, IgnoreEvent, AmountMismatch, Confirm, AlreadyConfirmed, HoldExpired,
                RecordFailed
  <2> QED
    BY <2>1, <2>2, <2>3, <2>4 DEF Finish, providerVars
<1>6. ASSUME NEW w \in Refunders, NEW o \in OrderIds, RefundStart(w, o) \/ RefundNothingToDo(w, o)
      PROVE  OtherTablesOK'
  BY <1>6 DEF RefundStart, RefundNothingToDo, payDbVars, providerVars
<1>7. ASSUME NEW w \in Refunders, RefundCall(w) \/ RefundRetry(w) PROVE OtherTablesOK'
  <2>1. refunder[w].amount \in Nat
    BY DEF PayRecords, RefundsKnow, RefunderRow
  <2> QED
    BY <1>7, <2>1 DEF RefundCall, RefundRetry, payDbVars, providerVars
<1>8. ASSUME NEW w \in Refunders, RefundRecord(w) PROVE OtherTablesOK'
  <2>1. PICK o \in OrderIds :
          /\ pay[o].status \in {"paid", "refunded"}
          /\ UNCHANGED <<ledger, issuedBy, queue, refundedAtProvider>>
          /\ UNCHANGED voided \/ voided' = [voided EXCEPT ![pay[o].booking] = tickets[pay[o].booking]]
    BY <1>8, RefundRowsStep
  <2>2. tickets[pay[o].booking] \in [Tiers -> Nat]
    BY <2>1, OrderRows DEF PayBase, TypeOK, RowsOK, PayRecords, RecordsKnow
  <2>3. UNCHANGED failures
    BY <1>8 DEF RefundRecord, providerVars
  <2> QED
    BY <2>1, <2>2, <2>3
<1> QED
  BY <1>1, <1>2, <1>3, <1>4, <1>5, <1>6, <1>7, <1>8
  DEF PayNext, HandlerStep, RefunderStep

(* Whatever arrives late, twice or out of order, and wherever a worker     *)
(* dies: rows of their types, natural amounts, known orders.               *)
THEOREM PaymentsTypeCorrect == PaySpec => []PayTypeOK
<1>1. PayInit => OtherTablesOK
  BY DEF PayInit, OtherTablesOK
<1>2. PayBase /\ PayRecords /\ OtherTablesOK /\ [PayNext]_allVars => OtherTablesOK'
  BY NextOtherTables
<1>3. PayBase /\ PayRecords /\ OtherTablesOK => PayTypeOK
  BY DEF PayBase, HandsKnow, HandRow, PayRecords, RecordsKnow, RecordRow, RefundsKnow,
         RefunderRow, RefundRowsMatch, CapturesKnown, OtherTablesOK, PayTypeOK
<1> QED
  BY <1>1, <1>2, <1>3, PayRecordsHold, PTL DEF PaySpec

-----------------------------------------------------------------------------
(* What payments rest on in Booking, for Overlap = FALSE.                  *)

(* The seats and tickets of Booking under real payments, refunds and       *)
(* reconciliation.                                                         *)
THEOREM PaymentsConserveSeats == ASSUME ~Overlap PROVE PaySpec => []SeatsConserved
BY PaymentsAreBookings, SeatsAreConserved

(* ... and however many captures, deliveries and refunds of a booking      *)
(* race: it has its tickets, once, exactly when it is paid.                *)
THEOREM PaymentsIssueOnce == ASSUME ~Overlap PROVE PaySpec => []TicketsIffPaid
BY PaymentsAreBookings, PaidHasTickets

(* A payment that issued tickets was captured, and its booking stays paid  *)
(* with the tickets it has; so the tickets a refund voids are all there    *)
(* will ever be.                                                           *)
IssuedArePaid ==
  \A o \in issuedBy :
    /\ o \in OrderIds /\ pay[o].status \in {"paid", "refunded"}
    /\ book[pay[o].booking].status = "paid"

LEMMA PaidKeepsTickets ==
  ASSUME TypeOK, CopyIsCurrent, [Next]_vars, NEW b \in Bookings, book[b].status = "paid"
  PROVE  book'[b].status = "paid" /\ tickets'[b] = tickets[b]
BY QuietStep, QuietStatus, InsertRows, CouponStep, ReleaseRows, ConfirmRows DEF KeepsSeats

LEMMA NextVoids ==
  ASSUME PayBase, PayRecords, OtherTablesOK, CopyIsCurrent, IssuedArePaid, RefundKillsTickets,
         [PayNext]_allVars
  PROVE  IssuedArePaid' /\ RefundKillsTickets'
<1>1. /\ [Next]_vars /\ CapturedStays
      /\ \A o \in OrderIds : pay[o].status # "none" => pay[o].booking \in Bookings
  BY PayStepIsStep, NextCapturedStays, OrderRows DEF PayBase, PayRecords, RecordsKnow
<1>2. \A o \in issuedBy :
        /\ o \in OrderIds /\ pay'[o].status \in {"paid", "refunded"}
        /\ pay'[o].booking = pay[o].booking /\ pay[o].booking \in Bookings
        /\ book'[pay[o].booking].status = "paid"
        /\ tickets'[pay[o].booking] = tickets[pay[o].booking]
  <2> SUFFICES ASSUME NEW o \in issuedBy
               PROVE  /\ o \in OrderIds /\ pay'[o].status \in {"paid", "refunded"}
                      /\ pay'[o].booking = pay[o].booking /\ pay[o].booking \in Bookings
                      /\ book'[pay[o].booking].status = "paid"
                      /\ tickets'[pay[o].booking] = tickets[pay[o].booking]
    OBVIOUS
  <2>1. /\ o \in OrderIds /\ pay[o].status \in {"paid", "refunded"}
        /\ book[pay[o].booking].status = "paid"
    BY DEF IssuedArePaid
  <2>2. pay[o].booking \in Bookings
    BY <1>1, <2>1
  <2>3. /\ pay'[o].status \in {"paid", "refunded"} /\ pay'[o].booking = pay[o].booking
    BY <1>1, <2>1 DEF CapturedStays
  <2> QED
    BY <1>1, <2>1, <2>2, <2>3, PaidKeepsTickets DEF PayBase
<1>3. ASSUME UNCHANGED <<issuedBy, voided>>,
             \A o \in issuedBy : pay'[o].status = "refunded" => pay[o].status = "refunded"
      PROVE  IssuedArePaid' /\ RefundKillsTickets'
  BY <1>2, <1>3 DEF IssuedArePaid, RefundKillsTickets
<1>4. ASSUME NEW h \in Handlers, Commits(h), Captures(h)
      PROVE  IssuedArePaid' /\ RefundKillsTickets'
  <2>1. PICK o \in OrderIds :
          /\ o = hand[h].order /\ pay[o].status \in {"none", "failed"}
          /\ o \in DOMAIN orders /\ orders[o].booking = hand[h].booking
          /\ pay' = [pay EXCEPT ![o] = [status |-> "paid", booking |-> orders[o].booking,
                                        amount |-> captured[o]]]
    BY <1>4, CaptureRows
  <2>2. /\ pay'[o].status = "paid" /\ pay'[o].booking = hand[h].booking
        /\ \A i \in OrderIds : i # o => pay'[i] = pay[i]
    BY <2>1 DEF PayRecords, RecordsKnow
  <2>3. UNCHANGED voided
    BY <1>4 DEF Commits
  <2>4. CASE UNCHANGED issuedBy
    BY <1>3, <2>2, <2>3, <2>4 DEF OtherTablesOK
  <2>5. CASE Confirm(h)
    <3>1. hand[h].booking \in Bookings /\ issuedBy' = issuedBy \cup {o}
      BY <2>1, <2>5, OrderRows DEF Confirm, PayBase
    <3>2. book'[hand[h].booking].status = "paid"
      BY <2>5, <3>1, ConfirmRows DEF Confirm, PayBase
    <3> QED
      BY <1>2, <2>2, <2>3, <3>1, <3>2 DEF IssuedArePaid, RefundKillsTickets
  <2> QED
    BY <1>4, <2>4, <2>5 DEF Captures
<1>5. ASSUME NEW h \in Handlers, Commits(h),
             RecordFailed(h) \/ UNCHANGED <<vars, pay, issuedBy>>
      PROVE  IssuedArePaid' /\ RefundKillsTickets'
  <2>1. UNCHANGED <<issuedBy, voided>>
    BY <1>5 DEF Commits, RecordFailed
  <2>2. \A o \in OrderIds : pay'[o].status = "refunded" => pay[o].status = "refunded"
    BY <1>5, FailureRows DEF PayRecords, RecordsKnow
  <2> QED
    BY <1>3, <2>1, <2>2 DEF OtherTablesOK
<1>6. ASSUME NEW w \in Refunders, RefundRecord(w) PROVE IssuedArePaid' /\ RefundKillsTickets'
  <2>1. PICK o \in OrderIds :
          /\ pay[o].status \in {"paid", "refunded"} /\ UNCHANGED <<tickets, issuedBy>>
          /\ \/ UNCHANGED <<pay, voided>>
             \/ /\ pay' = [pay EXCEPT ![o] = [pay[o] EXCEPT !.status = "refunded"]]
                /\ voided' = [voided EXCEPT ![pay[o].booking] = tickets[pay[o].booking]]
    BY <1>6, RefundRowsStep DEF vars, dbVars
  <2>2. CASE UNCHANGED <<pay, voided>>
    BY <1>3, <2>1, <2>2
  <2>3. CASE /\ pay' = [pay EXCEPT ![o] = [pay[o] EXCEPT !.status = "refunded"]]
             /\ voided' = [voided EXCEPT ![pay[o].booking] = tickets[pay[o].booking]]
    <3>1. pay[o].booking \in Bookings
      BY <1>1, <2>1
    <3>2. /\ voided'[pay[o].booking] = tickets[pay[o].booking]
          /\ \A b \in Bookings : b # pay[o].booking => voided'[b] = voided[b]
          /\ \A i \in OrderIds : i # o => pay'[i] = pay[i]
      BY <2>3, <3>1 DEF OtherTablesOK, PayRecords, RecordsKnow
    <3> QED
      BY <1>2, <2>1, <3>1, <3>2 DEF IssuedArePaid, RefundKillsTickets
  <2> QED
    BY <2>1, <2>2, <2>3
<1>7. CASE UNCHANGED payDbVars
  BY <1>3, <1>7 DEF payDbVars
<1> QED
  BY <1>4, <1>5, <1>6, <1>7, PayTablesStep DEF PayBase

(* "A refund leaves no ticket that opens a gate": when money is back, all  *)
(* tickets its payment issued are void and no later step issues more, for  *)
(* any number of refunds, workers and orders of a booking.                 *)
THEOREM RefundedTicketsAreVoid == ASSUME ~Overlap PROVE PaySpec => []RefundKillsTickets
<1>1. PayInit => OtherTablesOK /\ IssuedArePaid /\ RefundKillsTickets
  BY DEF PayInit, OtherTablesOK, IssuedArePaid, RefundKillsTickets
<1>2. PayBase /\ PayRecords /\ OtherTablesOK /\ [PayNext]_allVars => OtherTablesOK'
  BY NextOtherTables
<1>3. PayBase /\ PayRecords /\ OtherTablesOK /\ CopyIsCurrent /\ IssuedArePaid
        /\ RefundKillsTickets /\ [PayNext]_allVars => IssuedArePaid' /\ RefundKillsTickets'
  BY NextVoids
<1>4. PaySpec => []CopyIsCurrent
  BY PaymentsAreBookings, Quiet, PTL
<1> QED
  BY <1>1, <1>2, <1>3, <1>4, PayRecordsHold, PTL DEF PaySpec

-----------------------------------------------------------------------------
(* Amounts, when no booking is re-priced: no donation to choose and no use *)
(* of a code left.  With a donation both theorems below are false, since   *)
(* the total a handler or a queue worker read without the lock may be      *)
(* another one when it is used.  Stale copies (Overlap) do no harm here.   *)

NoRepricing == Donations = {0} /\ CouponCap = 0

PricesFixed ==
  /\ redeemed = {}
  /\ \A b \in Bookings : book[b].donation = 0 /\ book[b].discount = 0
  /\ \A p \in Workers : pc[p] = "order" =>
       /\ mem[p].row.donation = 0 /\ mem[p].row.discount = 0
       /\ mem[p].row.total = book[mem[p].booking].total

(* A booking that is there keeps its price.                                *)
PricesStay ==
  \A b \in Bookings : book[b].status # "none" => book'[b].total = book[b].total

LEMMA GoIdlePrices ==
  ASSUME TypeOK, CopiesKeepKeys, PricesFixed, PricesStay, NEW p \in Workers,
         GoIdle(p) \/ UNCHANGED workerVars
  PROVE  \A q \in Workers : pc'[q] = "order" =>
           /\ mem'[q].row.donation = 0 /\ mem'[q].row.discount = 0
           /\ mem'[q].row.total = book'[mem'[q].booking].total
BY DEF PricesFixed, PricesStay, CopiesKeepKeys, GoIdle, workerVars, TypeOK, WorkersOK, Carried

LEMMA EnsurePrices ==
  ASSUME TypeOK, CopiesKeepKeys, PricesFixed, PricesStay, NEW p \in Workers, NEW b \in Bookings,
         NEW row, NEW release, NEW gateway, Ensure(p, b, row, release, gateway),
         row.donation = 0, row.discount = 0, row.total = book'[b].total
  PROVE  \A q \in Workers : pc'[q] = "order" =>
           /\ mem'[q].row.donation = 0 /\ mem'[q].row.discount = 0
           /\ mem'[q].row.total = book'[mem'[q].booking].total
<1>1. CASE row.order # NoOrder \/ row.status # "reserved"
  BY <1>1, GoIdlePrices DEF Ensure
<1>2. CASE ~(row.order # NoOrder \/ row.status # "reserved")
  <2>1. /\ mem'[p].booking = b /\ mem'[p].row = row
        /\ \A q \in Workers \ {p} : pc'[q] = pc[q] /\ mem'[q] = mem[q]
    BY <1>2 DEF Ensure, TypeOK, WorkersOK
  <2> QED
    BY <2>1 DEF PricesFixed, PricesStay, CopiesKeepKeys, TypeOK, WorkersOK, Carried
<1> QED
  BY <1>1, <1>2

(* A row saved with the price it has.                                      *)
LEMMA SaveKeepsPrices ==
  ASSUME TypeOK, PricesFixed, NEW b \in Bookings, NEW row,
         book' = [book EXCEPT ![b] = row], redeemed' = redeemed,
         row.donation = 0, row.discount = 0, book[b].status # "none" => row.total = book[b].total
  PROVE  /\ redeemed' = {} /\ PricesStay
         /\ \A a \in Bookings : book'[a].donation = 0 /\ book'[a].discount = 0
BY DEF PricesFixed, PricesStay, TypeOK, RowsOK

LEMMA ReissuePrices ==
  ASSUME TypeOK, CopiesKeepKeys, PricesFixed, NEW p \in Workers, NEW b \in Bookings, NEW row,
         NEW gateway, Reissue(p, b, row, gateway), redeemed' = redeemed,
         row.donation = 0, row.discount = 0, row.total = book[b].total
  PROVE  PricesFixed' /\ PricesStay
<1>1. /\ redeemed' = {} /\ PricesStay
      /\ \A a \in Bookings : book'[a].donation = 0 /\ book'[a].discount = 0
  BY SaveKeepsPrices DEF Reissue
<1>2. book'[b] = row
  BY DEF Reissue, TypeOK, RowsOK
<1> QED
  BY <1>1, <1>2, EnsurePrices DEF Reissue, PricesFixed

LEMMA ReleasePrices ==
  ASSUME TypeOK, PricesFixed, NEW b \in Bookings, NEW status, ReleaseHold(b, status)
  PROVE  /\ redeemed' = {} /\ PricesStay
         /\ \A a \in Bookings : book'[a].donation = 0 /\ book'[a].discount = 0
<1>1. /\ book' = [book EXCEPT ![b] = [book[b] EXCEPT !.status = status]]
      /\ redeemed' = redeemed
  BY DEF ReleaseHold, PricesFixed, TypeOK, RowsOK
<1>2. LET row == [book[b] EXCEPT !.status = status] IN
      row.donation = 0 /\ row.discount = 0 /\ row.total = book[b].total
  BY DEF PricesFixed, TypeOK, RowsOK, Row
<1> QED
  BY <1>1, <1>2, SaveKeepsPrices

LEMMA NextPrices ==
  ASSUME NoRepricing, TypeOK, CopiesKeepKeys, PricesFixed, [Next]_vars
  PROVE  PricesFixed' /\ PricesStay
<1>1. ASSUME UNCHANGED <<book, redeemed>>, NEW p \in Workers,
             \/ GoIdle(p) \/ UNCHANGED workerVars
             \/ \E b \in Bookings, release \in BOOLEAN, gateway \in Gateways :
                  Ensure(p, b, book[b], release, gateway)
      PROVE  PricesFixed' /\ PricesStay
  <2>1. PricesStay
    BY <1>1 DEF PricesStay
  <2> QED
    BY <1>1, <2>1, GoIdlePrices, EnsurePrices DEF PricesFixed
<1>2. ASSUME NEW p \in Workers, NEW r \in Requests, CreateLookup(p, r)
      PROVE  PricesFixed' /\ PricesStay
  <2>1. UNCHANGED <<book, redeemed>> /\ r.gw \in Gateways
    BY <1>2, ConstantsAssumption DEF CreateLookup, dbVars
  <2>2. CASE pc' = [pc EXCEPT ![p] = IF r.key = NoKey THEN "insert" ELSE "detach"]
             /\ UNCHANGED mem
    BY <2>1, <2>2 DEF PricesFixed, PricesStay, TypeOK, WorkersOK
  <2> QED
    BY <1>1, <1>2, <2>1, <2>2 DEF CreateLookup, Holder
<1>3. ASSUME NEW p \in Workers, DetachKey(p) PROVE PricesFixed' /\ PricesStay
  <2>1. \A b \in Bookings : book'[b] = book[b] \/ book'[b] = [book[b] EXCEPT !.key = NoKey]
    BY <1>3 DEF DetachKey
  <2>2. \A b \in Bookings : /\ book'[b].total = book[b].total
                            /\ book'[b].donation = book[b].donation
                            /\ book'[b].discount = book[b].discount
    <3>1. \A b \in Bookings : book[b] \in Row
      BY DEF TypeOK, RowsOK
    <3> TAKE b \in Bookings
    <3>2. book[b] \in Row
      BY <3>1
    <3>3. CASE book'[b] = book[b]
      BY ONLY <3>3
    <3>4. CASE book'[b] = [book[b] EXCEPT !.key = NoKey]
      BY ONLY <3>2, <3>4 DEF Row
    <3> QED
      BY <2>1, <3>3, <3>4
  <2>3. \A q \in Workers : pc'[q] = "order" => pc[q] = "order" /\ mem'[q] = mem[q]
    BY <1>3 DEF DetachKey, TypeOK, WorkersOK
  <2>4. redeemed' = redeemed
    BY <1>3 DEF DetachKey
  <2> QED
    BY <2>2, <2>3, <2>4 DEF PricesFixed, PricesStay, TypeOK, WorkersOK, Carried
<1>4. ASSUME NEW p \in Workers, NEW b \in Bookings, Insert(p, b) PROVE PricesFixed' /\ PricesStay
  <2> DEFINE row == NewRow(req[p])
  <2>1. row.donation = req[p].donation /\ row.discount = 0
    BY DEF NewRow
  <2>2. req[p].donation = 0
    BY <1>4, ConstantsAssumption DEF Insert, TypeOK, WorkersOK, NoRepricing
  <2>3. /\ book[b].status = "none" /\ book' = [book EXCEPT ![b] = row]
        /\ redeemed' = redeemed /\ Ensure(p, b, row, TRUE, req[p].gw)
    BY <1>4 DEF Insert
  <2> HIDE DEF row
  <2>4. /\ redeemed' = {} /\ PricesStay
        /\ \A a \in Bookings : book'[a].donation = 0 /\ book'[a].discount = 0
    BY <2>1, <2>2, <2>3, SaveKeepsPrices
  <2>5. book'[b] = row
    BY <2>3 DEF TypeOK, RowsOK
  <2> QED
    BY <2>1, <2>2, <2>3, <2>4, <2>5, EnsurePrices DEF PricesFixed
<1>5. ASSUME NEW p \in Workers, InsertRefused(p) \/ WorkerCrash(p) PROVE PricesFixed' /\ PricesStay
  BY <1>1, <1>5 DEF InsertRefused, WorkerCrash, dbVars
<1>6. ASSUME NEW p \in Workers, InsertLost(p) PROVE PricesFixed' /\ PricesStay
  <2>1. UNCHANGED <<book, redeemed>> /\ req[p].gw \in Gateways
    BY <1>6, ConstantsAssumption DEF InsertLost, dbVars, TypeOK, WorkersOK
  <2> QED
    BY <1>1, <1>6, <2>1 DEF InsertLost, Holder
<1>7. ASSUME NEW p \in Workers, OrderCreated(p) PROVE PricesFixed' /\ PricesStay
  <2> DEFINE b   == mem[p].booking
             row == [mem[p].row EXCEPT !.order = Len(orders) + 1, !.gw = mem[p].gw]
  <2>1. /\ mem[p].row \in Row /\ b \in Bookings
        /\ mem[p].row.donation = 0 /\ mem[p].row.discount = 0
        /\ mem[p].row.total = book[b].total
    BY <1>7 DEF OrderCreated, TypeOK, WorkersOK, Carried, PricesFixed
  <2>2. row.donation = 0 /\ row.discount = 0 /\ row.total = book[b].total
    BY <2>1 DEF Row
  <2>3. /\ book' = book \/ book' = [book EXCEPT ![b] = row]
        /\ GoIdle(p) /\ redeemed' = redeemed
    BY <1>7 DEF OrderCreated
  <2> HIDE DEF b, row
  <2>4. CASE book' = book
    BY <1>1, <2>3, <2>4
  <2>5. CASE book' = [book EXCEPT ![b] = row]
    <3>1. /\ redeemed' = {} /\ PricesStay
          /\ \A a \in Bookings : book'[a].donation = 0 /\ book'[a].discount = 0
      BY <2>1, <2>2, <2>3, <2>5, SaveKeepsPrices
    <3> QED
      BY <2>3, <3>1, GoIdlePrices DEF PricesFixed
  <2> QED
    BY <2>3, <2>4, <2>5
<1>8. ASSUME NEW p \in Workers, OrderFailed(p) PROVE PricesFixed' /\ PricesStay
  <2>1. mem[p].booking \in Bookings /\ GoIdle(p)
    BY <1>8 DEF OrderFailed, TypeOK, WorkersOK, Carried
  <2>2. CASE UNCHANGED dbVars
    BY <1>1, <2>1, <2>2 DEF dbVars
  <2>3. CASE ReleaseHold(mem[p].booking, "cancelled")
    BY <2>1, <2>3, ReleasePrices, GoIdlePrices DEF PricesFixed
  <2> QED
    BY <1>8, <2>2, <2>3 DEF OrderFailed
<1>9. ASSUME NEW p \in Workers, NEW b \in Bookings, NEW d \in Donations, SetDonation(p, b, d)
      PROVE  PricesFixed' /\ PricesStay
  <2>1. d = 0 /\ book[b].donation = 0 /\ book[b].discount = 0
    BY DEF NoRepricing, PricesFixed
  <2>2. Reissue(p, b, book[b], DefaultGateway) /\ redeemed' = redeemed
    BY <1>9, <2>1 DEF SetDonation
  <2> QED
    BY <2>1, <2>2, ReissuePrices
<1>10. ASSUME NEW p \in Workers, NEW b \in Bookings, NEW g \in Gateways,
              SetPaymentGateway(p, b, g)
       PROVE  PricesFixed' /\ PricesStay
  <2>1. book[b] \in Row /\ book[b].donation = 0 /\ book[b].discount = 0
    BY DEF TypeOK, RowsOK, PricesFixed
  <2>2. PICK o \in Nat : Reissue(p, b, [book[b] EXCEPT !.gw = g, !.order = o], g)
    BY <1>10, <2>1 DEF SetPaymentGateway, Row
  <2>3. LET row == [book[b] EXCEPT !.gw = g, !.order = o] IN
        row.donation = 0 /\ row.discount = 0 /\ row.total = book[b].total
    BY <2>1 DEF Row
  <2> QED
    BY <1>10, <2>2, <2>3, ReissuePrices DEF SetPaymentGateway
<1>11. ASSUME NEW p \in Workers, NEW b \in Bookings, SetCoupon(p, b) \/ ClearCoupon(p, b)
       PROVE  FALSE
  <2>1. redeemed = {} /\ book[b].discount = 0
    BY DEF PricesFixed
  <2>2. ~ClearCoupon(p, b)
    BY <2>1 DEF ClearCoupon
  <2>3. Cardinality(redeemed \ {b}) = 0
    BY <2>1, FS_EmptySet
  <2> QED
    BY <1>11, <2>2, <2>3 DEF SetCoupon, NoRepricing
<1>12. ASSUME NEW b \in Bookings, CancelBooking(b) \/ ReleaseOneExpired(b)
       PROVE  PricesFixed' /\ PricesStay
  <2>1. /\ redeemed' = {} /\ PricesStay /\ UNCHANGED workerVars
        /\ \A a \in Bookings : book'[a].donation = 0 /\ book'[a].discount = 0
    BY <1>12, ReleasePrices DEF CancelBooking, ReleaseOneExpired
  <2> QED
    BY <2>1, GoIdlePrices DEF PricesFixed
<1>13. ASSUME NEW b \in Bookings, ConfirmBooking(b) PROVE PricesFixed' /\ PricesStay
  <2>1. /\ book' = [book EXCEPT ![b] = [book[b] EXCEPT !.status = "paid"]]
        /\ redeemed' = redeemed /\ UNCHANGED workerVars
    BY <1>13 DEF ConfirmBooking, ConfirmIssues, TypeOK, RowsOK
  <2>2. LET row == [book[b] EXCEPT !.status = "paid"] IN
        row.donation = 0 /\ row.discount = 0 /\ row.total = book[b].total
    BY DEF PricesFixed, TypeOK, RowsOK, Row
  <2>3. /\ redeemed' = {} /\ PricesStay
        /\ \A a \in Bookings : book'[a].donation = 0 /\ book'[a].discount = 0
    BY <2>1, <2>2, SaveKeepsPrices
  <2> QED
    BY <2>1, <2>3, GoIdlePrices DEF PricesFixed
<1>14. CASE Tick \/ UNCHANGED vars
  BY <1>14 DEF Tick, vars, dbVars, workerVars, PricesFixed, PricesStay
<1> QED
  BY <1>2, <1>3, <1>4, <1>5, <1>6, <1>7, <1>8, <1>9, <1>10, <1>11, <1>12, <1>13, <1>14
  DEF Next, WorkerStep

LEMMA PricesHold == ASSUME NoRepricing PROVE Spec => [](TypeOK /\ CopiesKeepKeys /\ PricesFixed)
<1>1. Init => PricesFixed
  BY DEF Init, NoRow, PricesFixed
<1>2. TypeOK /\ CopiesKeepKeys /\ PricesFixed /\ [Next]_vars => PricesFixed'
  BY NextPrices
<1> QED
  BY <1>1, <1>2, TypeCorrect, KeysAreKept, PTL DEF Spec

(* Bookings are never deleted, and become paid only by a confirmation.     *)
LEMMA StatusStep ==
  ASSUME TypeOK, CopiesKeepKeys, NEW b \in Bookings,
         \/ \E p \in Workers : WorkerStep(p)
         \/ \E a \in Bookings : CancelBooking(a) \/ ReleaseOneExpired(a)
         \/ Tick \/ UNCHANGED vars
  PROVE  /\ book[b].status # "none" => book'[b].status # "none"
         /\ book'[b].status = "paid" => book[b].status = "paid"
<1> DEFINE Goal == /\ book[b].status # "none" => book'[b].status # "none"
                   /\ book'[b].status = "paid" => book[b].status = "paid"
<1>1. CASE UNCHANGED book
  BY <1>1
<1>2. ASSUME NEW a \in Bookings, NEW row, book' = [book EXCEPT ![a] = row],
             row.status \notin {"none", "paid"} \/ row.status = book[a].status
      PROVE  Goal
  BY <1>2 DEF TypeOK, RowsOK
<1>3. ASSUME NEW p \in Workers, DetachKey(p) PROVE Goal
  <2>1. book'[b] = book[b] \/ book'[b] = [book[b] EXCEPT !.key = NoKey]
    BY <1>3 DEF DetachKey
  <2> QED
    BY <2>1 DEF TypeOK, RowsOK, Row
<1>4. ASSUME NEW p \in Workers, NEW a \in Bookings, Insert(p, a) PROVE Goal
  <2>1. NewRow(req[p]).status = "reserved"
    BY DEF NewRow
  <2> QED
    BY <1>2, <1>4, <2>1 DEF Insert
<1>5. ASSUME NEW p \in Workers, OrderCreated(p) PROVE Goal
  <2> DEFINE row == [mem[p].row EXCEPT !.order = Len(orders) + 1, !.gw = mem[p].gw]
  <2>1. /\ mem[p].row \in Row /\ mem[p].booking \in Bookings
        /\ mem[p].row.status = "reserved"
    BY <1>5 DEF OrderCreated, TypeOK, WorkersOK, Carried, CopiesKeepKeys
  <2>2. row.status = "reserved"
    BY <2>1 DEF Row
  <2>3. book' = book \/ book' = [book EXCEPT ![mem[p].booking] = row]
    BY <1>5 DEF OrderCreated
  <2> HIDE DEF row
  <2> QED
    BY <1>1, <1>2, <2>1, <2>2, <2>3
<1>6. ASSUME NEW a \in Bookings, NEW status \in {"cancelled", "expired"}, ReleaseHold(a, status)
      PROVE  Goal
  <2>1. book' = [book EXCEPT ![a] = [book[a] EXCEPT !.status = status]]
        /\ [book[a] EXCEPT !.status = status].status = status
    BY <1>6 DEF ReleaseHold, TypeOK, RowsOK, Row
  <2> QED
    BY <1>2, <2>1
<1>7. ASSUME NEW p \in Workers, OrderFailed(p) PROVE Goal
  <2>1. mem[p].booking \in Bookings
    BY <1>7 DEF OrderFailed, TypeOK, WorkersOK, Carried
  <2> QED
    BY <1>1, <1>6, <1>7, <2>1 DEF OrderFailed, dbVars
<1>8. ASSUME NEW p \in Workers, NEW a \in Bookings,
             \/ \E d \in Donations : SetDonation(p, a, d)
             \/ \E g \in Gateways : SetPaymentGateway(p, a, g)
             \/ SetCoupon(p, a) \/ ClearCoupon(p, a)
      PROVE  Goal
  <2>1. book[a] \in Row
    BY DEF TypeOK, RowsOK
  <2>2. PICK row, gateway : Reissue(p, a, row, gateway) /\ row.status = book[a].status
    <3>1. \A d : Reprice(book[a], d).status = book[a].status
      BY <2>1 DEF Reprice, Row
    <3>2. \A d, o, g, total :
            /\ [book[a] EXCEPT !.donation = d, !.order = o, !.total = total].status = book[a].status
            /\ [book[a] EXCEPT !.gw = g, !.order = o].status = book[a].status
      BY <2>1 DEF Row
    <3>3. CASE SetCoupon(p, a) \/ ClearCoupon(p, a)
      BY <3>1, <3>3 DEF SetCoupon, ClearCoupon
    <3>4. ASSUME NEW d \in Donations, SetDonation(p, a, d)
          PROVE  \E row, gateway : Reissue(p, a, row, gateway) /\ row.status = book[a].status
      <4> DEFINE row == [book[a] EXCEPT !.donation = d, !.order = NoOrder,
                                        !.total = @ - book[a].donation + d]
      <4>1. Reissue(p, a, book[a], DefaultGateway) \/ Reissue(p, a, row, DefaultGateway)
        BY <3>4 DEF SetDonation
      <4>2. row.status = book[a].status
        BY <2>1 DEF Row
      <4> HIDE DEF row
      <4> QED
        BY <4>1, <4>2
    <3>5. ASSUME NEW g \in Gateways, SetPaymentGateway(p, a, g)
          PROVE  \E row, gateway : Reissue(p, a, row, gateway) /\ row.status = book[a].status
      BY <3>2, <3>5 DEF SetPaymentGateway
    <3> QED
      BY <1>8, <3>3, <3>4, <3>5
  <2> QED
    BY <1>2, <2>2 DEF Reissue
<1> QED
  BY <1>1, <1>3, <1>4, <1>5, <1>6, <1>7, <1>8
  DEF WorkerStep, CreateLookup, InsertRefused, InsertLost, WorkerCrash, CancelBooking,
      ReleaseOneExpired, Tick, vars, dbVars

(* An order was created for a booking that is there.                       *)
OrdersNamed == \A o \in DOMAIN orders : book[orders[o].booking].status # "none"

LEMMA NextOrdersNamed ==
  ASSUME TypeOK, OrdersCharge, CopiesKeepKeys, OrdersNamed, [Next]_vars
  PROVE  OrdersNamed'
<1>1. \A b \in Bookings : book[b].status # "none" => book'[b].status # "none"
  BY StatusStep, ConfirmRows DEF Next, ConfirmBooking
<1>2. CASE UNCHANGED orders
  BY <1>1, <1>2, OrderRows DEF OrdersNamed
<1>3. ASSUME NEW p \in Workers, OrderCreated(p) PROVE OrdersNamed'
  <2>1. /\ mem[p].booking \in Bookings /\ mem[p].row \in Row
        /\ book[mem[p].booking].status # "none"
    BY <1>3 DEF OrderCreated, TypeOK, WorkersOK, Carried, CopiesKeepKeys
  <2>2. PICK new : orders' = Append(orders, new) /\ new.booking = mem[p].booking
    BY <1>3 DEF OrderCreated
  <2>3. \A o \in DOMAIN orders' :
          (o \in DOMAIN orders /\ orders'[o] = orders[o]) \/ orders'[o] = new
    BY <2>2 DEF TypeOK, RowsOK
  <2> QED
    BY <1>1, <2>1, <2>2, <2>3, OrderRows DEF OrdersNamed
<1> QED
  BY <1>2, <1>3, OrdersMove

(* A step changes no price that a handler, a record or a refund relies on. *)
OrderedPricesStay ==
  \A o \in DOMAIN orders :
    /\ orders'[o] = orders[o] /\ orders[o].booking \in Bookings
    /\ book'[orders[o].booking].total = book[orders[o].booking].total

LEMMA NextOrderedPrices ==
  ASSUME PayBase, OrdersNamed, OrdersGrow, PricesStay
  PROVE  OrderedPricesStay
BY OrderRows DEF PayBase, OrdersNamed, OrdersGrow, PricesStay, OrderedPricesStay

HandsCharge ==
  \A h \in Handlers : hand[h].booking # NoKey => hand[h].total = book[hand[h].booking].total

LEMMA NextHandsCharge ==
  ASSUME PayBase, OrderedPricesStay, HandsCharge, [PayNext]_allVars
  PROVE  HandsCharge'
<1>1. \A h \in Handlers : hand[h].booking # NoKey =>
        book'[hand[h].booking].total = book[hand[h].booking].total
  BY DEF OrderedPricesStay, PayBase, HandsKnow
<1>2. CASE UNCHANGED hand
  BY <1>1, <1>2 DEF HandsCharge
<1>3. ASSUME NEW h \in Handlers, NEW o \in OrderIds, NEW event \in {"captured", "failed"},
             Begins(h, event, o)
      PROVE  HandsCharge'
  <2>1. /\ \A g \in Handlers : g # h => hand'[g] = hand[g]
        /\ hand'[h].booking # NoKey => hand'[h].total = book[hand'[h].booking].total
    BY <1>3, BeginCarries DEF Begins, PayBase
  <2>2. book' = book
    BY <1>3 DEF Begins, Begin, vars, dbVars
  <2> QED
    BY <2>1, <2>2 DEF HandsCharge
<1>4. ASSUME NEW h \in Handlers, HandDone(h) PROVE HandsCharge'
  <2>1. hand'[h].booking = NoKey /\ \A g \in Handlers : g # h => hand'[g] = hand[g]
    BY <1>4 DEF HandDone, Idle, PayBase, HandsKnow
  <2> QED
    BY <1>1, <2>1 DEF HandsCharge
<1> QED
  BY <1>2, <1>3, <1>4, HandStep DEF PayBase

(* Who is paid was paid by an order, in full.                              *)
IssuedCharge ==
  \A o \in issuedBy : /\ o \in OrderIds /\ pay[o].status \in {"paid", "refunded"}
                      /\ pay[o].amount = book[pay[o].booking].total

PaidByOrder ==
  \A b \in Bookings : book[b].status = "paid" => \E o \in issuedBy : pay[o].booking = b

LEMMA NextIssued ==
  ASSUME PayBase, PayRecords, CopiesKeepKeys, OrderedPricesStay, HandsCharge, IssuedCharge,
         PaidByOrder, [PayNext]_allVars
  PROVE  IssuedCharge' /\ PaidByOrder'
<1>1. \A o \in issuedBy :
        /\ o \in OrderIds /\ pay'[o].status \in {"paid", "refunded"}
        /\ pay'[o].booking = pay[o].booking
        /\ pay'[o].amount = book'[pay'[o].booking].total
  <2> SUFFICES ASSUME NEW o \in issuedBy
               PROVE  /\ o \in OrderIds /\ pay'[o].status \in {"paid", "refunded"}
                      /\ pay'[o].booking = pay[o].booking
                      /\ pay'[o].amount = book'[pay'[o].booking].total
    OBVIOUS
  <2>1. /\ o \in OrderIds /\ pay[o].status \in {"paid", "refunded"}
        /\ pay[o].amount = book[pay[o].booking].total
    BY DEF IssuedCharge
  <2>2. /\ pay'[o].status \in {"paid", "refunded"}
        /\ pay'[o].booking = pay[o].booking /\ pay'[o].amount = pay[o].amount
    BY <2>1, NextCapturedStays DEF CapturedStays
  <2>3. book'[pay[o].booking].total = book[pay[o].booking].total
    BY <2>1 DEF PayRecords, RecordsKnow, OrderedPricesStay
  <2> QED
    BY <2>1, <2>2, <2>3
<1>2. ASSUME UNCHANGED issuedBy,
             \A b \in Bookings : book'[b].status = "paid" => book[b].status = "paid"
      PROVE  IssuedCharge' /\ PaidByOrder'
  <2>1. IssuedCharge'
    BY <1>1, <1>2 DEF IssuedCharge
  <2>2. PaidByOrder'
    BY <1>1, <1>2 DEF PaidByOrder
  <2> QED
    BY <2>1, <2>2
<1>3. ASSUME NEW h \in Handlers, Commits(h), Captures(h), Confirm(h)
      PROVE  IssuedCharge' /\ PaidByOrder'
  <2>1. PICK o \in OrderIds :
          /\ o = hand[h].order /\ o \in DOMAIN orders /\ orders[o].booking = hand[h].booking
          /\ pay' = [pay EXCEPT ![o] = [status |-> "paid", booking |-> orders[o].booking,
                                        amount |-> captured[o]]]
    BY <1>3, CaptureRows
  <2>2. /\ pay'[o].status = "paid" /\ pay'[o].booking = hand[h].booking
        /\ pay'[o].amount = captured[o]
    BY <2>1 DEF PayRecords, RecordsKnow
  <2>3. /\ captured[o] = hand[h].total /\ hand[h].booking \in Bookings
        /\ ConfirmIssues(hand[h].booking) /\ issuedBy' = issuedBy \cup {o}
    BY <1>3, <2>1, OrderRows DEF Confirm, AmountMatches, PayBase
  <2>4. hand[h].total = book[hand[h].booking].total
    BY <1>3 DEF HandsCharge, Captures
  <2>5. book'[hand[h].booking].total = book[hand[h].booking].total
    BY <2>1 DEF OrderedPricesStay
  <2>6. \A b \in Bookings : b # hand[h].booking => book'[b] = book[b]
    BY <2>3, ConfirmRows DEF PayBase
  <2>7. IssuedCharge'
    BY <1>1, <2>2, <2>3, <2>4, <2>5 DEF IssuedCharge
  <2>8. PaidByOrder'
    BY <1>1, <2>2, <2>3, <2>6 DEF PaidByOrder
  <2> QED
    BY <2>7, <2>8
<1>4. CASE UNCHANGED <<vars, issuedBy>>
  BY <1>2, <1>4 DEF vars, dbVars
<1>5. CASE BookingStep
  BY <1>2, <1>5, StatusStep DEF BookingStep, payVars, payDbVars, PayBase
<1>6. ASSUME NEW h \in Handlers, RecordFailed(h) PROVE UNCHANGED <<vars, issuedBy>>
  BY <1>6 DEF RecordFailed, Finish, vars
<1>7. ASSUME UNCHANGED payDbVars, ~BookingStep, ~UNCHANGED vars PROVE FALSE
  <2>1. PICK h \in Handlers : Process(h)
    BY <1>7 DEF PayNext, HandlerStep, Webhook, Reconcile, Begin, HandlerCrash, RefunderStep,
                RefundStart, RefundNothingToDo, RefundCall, RefundRetry, RefundRecord,
                CustomerPays, AttemptFails, OrganizerRefund, allVars
  <2>2. Finish(h) /\ hand[h].event # "none"
    BY <2>1 DEF Process, IgnoreEvent, AmountMismatch, Confirm, AlreadyConfirmed, HoldExpired,
                RecordFailed, AmountMatches
  <2> QED
    BY <1>7, <2>2 DEF Finish, payDbVars, PayRecords, EventsOnce
<1>8. ASSUME NEW w \in Refunders, RefundRecord(w) PROVE UNCHANGED <<vars, issuedBy>>
  BY <1>8, RefundRowsStep
<1> QED
  BY <1>3, <1>4, <1>5, <1>6, <1>7, <1>8, PayTablesStep DEF PayBase, Captures, payDbVars

(* The AMOUNT CHECK: "a tampered/mismatched amount is NOT confirmed".      *)
(* Whatever a customer is made to pay, and however webhooks, verify calls  *)
(* and the reconciliation race the sweeper and each other, a paid booking  *)
(* was paid by an order of its own with exactly its total.                 *)
THEOREM PaidInFull == ASSUME NoRepricing PROVE PaySpec => []ConfirmedForItsTotal
<1> DEFINE Inv == OrdersNamed /\ HandsCharge /\ IssuedCharge /\ PaidByOrder
<1>1. PayInit => Inv
  BY DEF PayInit, Init, NoRow, Idle, OrdersNamed, HandsCharge, IssuedCharge, PaidByOrder
<1>2. PaySpec => [](TypeOK /\ CopiesKeepKeys /\ PricesFixed)
  BY PaymentsAreBookings, PricesHold
<1>3. PayBase /\ PayRecords /\ CopiesKeepKeys /\ PricesFixed /\ Inv /\ [PayNext]_allVars => Inv'
  <2> SUFFICES ASSUME PayBase, PayRecords, CopiesKeepKeys, PricesFixed, Inv, [PayNext]_allVars
               PROVE  Inv'
    OBVIOUS
  <2>1. [Next]_vars /\ OrdersGrow /\ PricesStay
    BY PayStepIsStep, NextOrdersGrow, NextPrices DEF PayBase
  <2>2. OrderedPricesStay /\ OrdersNamed'
    BY <2>1, NextOrderedPrices, NextOrdersNamed DEF PayBase
  <2> QED
    BY <2>2, NextHandsCharge, NextIssued
<1>4. IssuedCharge /\ PaidByOrder => ConfirmedForItsTotal
  BY DEF IssuedCharge, PaidByOrder, ConfirmedForItsTotal
<1> QED
  BY <1>1, <1>2, <1>3, <1>4, PayRecordsHold, PTL DEF PaySpec

(* What the provider returned is what a worker asked for and what the      *)
(* Refund row says: the booking's total.                                   *)
RefundsCharge ==
  /\ \A w \in Refunders : refunder[w] # NotRefunding =>
       /\ refunder[w].amount > 0
       /\ refunder[w].amount = book[pay[refunder[w].order].booking].total
       /\ refunder[w].called => refundedAtProvider[refunder[w].order] # 0
  /\ \A o \in OrderIds : refundedAtProvider[o] # 0 =>
       /\ pay[o].status \in {"paid", "refunded"}
       /\ refundedAtProvider[o] = book[pay[o].booking].total

LEMMA NextRefundsCharge ==
  ASSUME PayBase, PayRecords, OtherTablesOK, PricesFixed, OrderedPricesStay, RefundsCharge,
         [PayNext]_allVars
  PROVE  RefundsCharge'
<1>1. \A o \in OrderIds : pay[o].status \in {"paid", "refunded"} =>
        /\ pay[o].booking \in Bookings /\ pay'[o].status \in {"paid", "refunded"}
        /\ pay'[o].booking = pay[o].booking
        /\ book'[pay'[o].booking].total = book[pay[o].booking].total
  BY NextCapturedStays DEF CapturedStays, PayRecords, RecordsKnow, OrderedPricesStay
<1>2. \A w \in Refunders : refunder[w] # NotRefunding =>
        /\ refunder[w].order \in OrderIds
        /\ pay[refunder[w].order].status \in {"paid", "refunded"}
  BY DEF PayRecords, RefundsKnow
<1>3. CASE UNCHANGED <<refunder, refundedAtProvider>>
  <2>1. \A w \in Refunders : refunder'[w] = refunder[w]
    BY <1>3
  <2>2. \A o \in OrderIds : refundedAtProvider'[o] = refundedAtProvider[o]
    BY <1>3
  <2> QED
    BY <1>1, <1>2, <2>1, <2>2 DEF RefundsCharge
<1>4. ASSUME NEW w \in Refunders, NEW o \in OrderIds, RefundStart(w, o) PROVE RefundsCharge'
  <2>1. /\ pay[o].status = "paid" /\ RefundableAmount(pay[o].booking) > 0
        /\ refunder' = [refunder EXCEPT ![w] = [order |-> o, called |-> FALSE,
                                                amount |-> RefundableAmount(pay[o].booking)]]
        /\ UNCHANGED refundedAtProvider
    BY <1>4 DEF RefundStart, providerVars
  <2>2. RefundableAmount(pay[o].booking) = book[pay[o].booking].total
    <3>1. pay[o].booking \in Bookings
      BY <1>1, <2>1
    <3>2. book[pay[o].booking].donation = 0 /\ book[pay[o].booking].total \in Int
      BY <3>1 DEF PricesFixed, PayBase, TypeOK, RowsOK, Row
    <3> QED
      BY <3>2 DEF RefundableAmount
  <2>3. /\ refunder'[w].order = o /\ ~refunder'[w].called
        /\ refunder'[w].amount = book[pay[o].booking].total /\ refunder'[w].amount > 0
        /\ \A v \in Refunders : v # w => refunder'[v] = refunder[v]
    BY <2>1, <2>2 DEF PayRecords, RefundsKnow
  <2> QED
    BY <1>1, <1>2, <2>1, <2>3 DEF RefundsCharge
<1>5. ASSUME NEW w \in Refunders, RefundCall(w) PROVE RefundsCharge'
  <2> DEFINE o == refunder[w].order
  <2>1. /\ refunder[w] # NotRefunding /\ o \in OrderIds
        /\ refundedAtProvider' = [refundedAtProvider EXCEPT
             ![o] = IF refundedAtProvider[o] = 0 THEN refunder[w].amount ELSE refundedAtProvider[o]]
        /\ refunder' = [refunder EXCEPT ![w].called = TRUE]
    BY <1>2, <1>5 DEF RefundCall
  <2>2. /\ refunder'[w].order = o /\ refunder'[w].amount = refunder[w].amount
        /\ \A v \in Refunders : v # w => refunder'[v] = refunder[v]
    BY <2>1 DEF PayRecords, RefundsKnow, RefunderRow
  <2>3. refundedAtProvider'[o] # 0 /\ refundedAtProvider'[o] = book[pay[o].booking].total
    BY <2>1 DEF RefundsCharge, OtherTablesOK
  <2>4. \A i \in OrderIds : i # o => refundedAtProvider'[i] = refundedAtProvider[i]
    BY <2>1 DEF OtherTablesOK
  <2>5. o = refunder[w].order
    OBVIOUS
  <2> HIDE DEF o
  <2>6. refunder[w].amount > 0 /\ refunder[w].amount = book[pay[o].booking].total
    BY <2>1, <2>5 DEF RefundsCharge
  <2>7. pay[o].status \in {"paid", "refunded"}
    BY <1>2, <2>1, <2>5
  <2>8. ASSUME NEW v \in Refunders, refunder'[v] # NotRefunding
        PROVE  /\ refunder'[v].amount > 0
               /\ refunder'[v].amount = book'[pay'[refunder'[v].order].booking].total
               /\ refunder'[v].called => refundedAtProvider'[refunder'[v].order] # 0
    <3>1. CASE v = w
      <4>1. /\ refunder'[v].order = o /\ refunder'[v].amount = refunder[w].amount
        BY ONLY <2>2, <3>1
      <4>2. book'[pay'[o].booking].total = book[pay[o].booking].total
        BY <1>1, <2>1, <2>7
      <4> QED
        BY ONLY <2>3, <2>6, <4>1, <4>2
    <3>2. CASE v # w
      <4>1. refunder'[v] = refunder[v]
        BY <2>2, <3>2
      <4>2. refunder[v].called => refundedAtProvider'[refunder[v].order] # 0
        BY <1>2, <2>3, <2>4, <2>8, <4>1 DEF RefundsCharge
      <4> QED
        BY <1>1, <1>2, <2>8, <4>1, <4>2 DEF RefundsCharge
    <3> QED
      BY <3>1, <3>2
  <2>9. ASSUME NEW i \in OrderIds, refundedAtProvider'[i] # 0
        PROVE  /\ pay'[i].status \in {"paid", "refunded"}
               /\ refundedAtProvider'[i] = book'[pay'[i].booking].total
    <3>1. CASE i = o
      BY <1>1, <2>3, <2>7, <3>1
    <3>2. CASE i # o
      BY <1>1, <2>4, <2>9, <3>2 DEF RefundsCharge
    <3> QED
      BY <3>1, <3>2
  <2> QED
    BY <2>8, <2>9 DEF RefundsCharge
<1>6. ASSUME NEW w \in Refunders, RefundRetry(w) \/ RefundRecord(w) PROVE RefundsCharge'
  <2>1. /\ refunder' = [refunder EXCEPT ![w] = NotRefunding] /\ UNCHANGED refundedAtProvider
    BY <1>6 DEF RefundRetry, RefundRecord, providerVars
  <2>2. refunder'[w] = NotRefunding /\ \A v \in Refunders : v # w => refunder'[v] = refunder[v]
    BY <2>1 DEF PayRecords, RefundsKnow
  <2> QED
    BY <1>1, <1>2, <2>1, <2>2 DEF RefundsCharge
<1> QED
  BY <1>3, <1>4, <1>5, <1>6, RefunderMoves

(* What was returned is never returned again (the idempotency key).        *)
LEMMA ReturnedStays ==
  ASSUME OtherTablesOK, [PayNext]_allVars, NEW o \in OrderIds, refundedAtProvider[o] # 0
  PROVE  refundedAtProvider'[o] = refundedAtProvider[o]
BY RefunderMoves DEF OtherTablesOK, RefundStart, RefundCall, RefundRetry, RefundRecord, providerVars

ReturnedAndRecorded ==
  \A o \in OrderIds : pay[o].status = "refunded" =>
    refundedAtProvider[o] # 0 /\ refundRows[o] = <<refundedAtProvider[o]>>

LEMMA NextReturned ==
  ASSUME PayBase, PayRecords, OtherTablesOK, RefundsCharge, ReturnedAndRecorded,
         [PayNext]_allVars
  PROVE  ReturnedAndRecorded'
<1>1. ASSUME UNCHANGED refundRows,
             \A o \in OrderIds : pay'[o].status = "refunded" => pay[o].status = "refunded"
      PROVE  ReturnedAndRecorded'
  BY <1>1, ReturnedStays DEF ReturnedAndRecorded
<1>2. ASSUME NEW h \in Handlers, Commits(h),
             UNCHANGED <<vars, pay, issuedBy>> \/ Captures(h) \/ RecordFailed(h)
      PROVE  ReturnedAndRecorded'
  <2>1. \A o \in OrderIds : pay'[o].status = "refunded" => pay[o].status = "refunded"
    BY <1>2, CaptureRows, FailureRows DEF PayRecords, RecordsKnow
  <2> QED
    BY <1>1, <1>2, <2>1 DEF Commits
<1>3. ASSUME NEW w \in Refunders, RefundRecord(w) PROVE ReturnedAndRecorded'
  <2>1. PICK o \in OrderIds :
          /\ o = refunder[w].order /\ UNCHANGED refundedAtProvider
          /\ \/ UNCHANGED <<pay, refundRows>>
             \/ /\ pay[o].status = "paid"
                /\ pay' = [pay EXCEPT ![o] = [pay[o] EXCEPT !.status = "refunded"]]
                /\ refundRows' = [refundRows EXCEPT ![o] = Append(refundRows[o], refunder[w].amount)]
    BY <1>3, RefundRowsStep
  <2>2. CASE UNCHANGED <<pay, refundRows>>
    BY <1>1, <2>2
  <2>3. CASE /\ pay[o].status = "paid"
             /\ pay' = [pay EXCEPT ![o] = [pay[o] EXCEPT !.status = "refunded"]]
             /\ refundRows' = [refundRows EXCEPT ![o] = Append(refundRows[o], refunder[w].amount)]
    <3>1. refunder[w].called /\ refunder[w] # NotRefunding
      BY <1>3 DEF RefundRecord, NotRefunding
    <3>2. /\ refundedAtProvider[o] # 0 /\ refundedAtProvider[o] = refunder[w].amount
      BY <2>1, <3>1 DEF RefundsCharge
    <3>3. Append(refundRows[o], refunder[w].amount) = <<refunder[w].amount>>
      <4>1. refundRows[o] \in Seq(Nat) /\ Len(refundRows[o]) = 0
        BY <2>3 DEF PayRecords, RefundRowsMatch
      <4>2. refundRows[o] = <<>>
        BY <4>1
      <4> QED
        BY <4>2
    <3>4. /\ refundRows'[o] = <<refundedAtProvider'[o]>> /\ refundedAtProvider'[o] # 0
          /\ \A i \in OrderIds : i # o => pay'[i] = pay[i] /\ refundRows'[i] = refundRows[i]
      BY <2>1, <2>3, <3>2, <3>3 DEF PayRecords, RecordsKnow, RefundRowsMatch
    <3> QED
      BY <2>1, <3>4 DEF ReturnedAndRecorded
  <2> QED
    BY <2>1, <2>2, <2>3
<1>4. CASE UNCHANGED payDbVars
  BY <1>1, <1>4 DEF payDbVars
<1> QED
  BY <1>2, <1>3, <1>4, PayTablesStep DEF PayBase

(* "A refund never double-runs", in rupees: however often the task is      *)
(* delivered, retried or raced by a second worker, what is on record is    *)
(* one Refund row with exactly what the provider returned.                 *)
THEOREM RefundsAreRecorded == ASSUME NoRepricing PROVE PaySpec => []RefundedOnce
<1> DEFINE Inv == OrdersNamed /\ OtherTablesOK /\ RefundsCharge /\ ReturnedAndRecorded
<1>1. PayInit => Inv
  BY DEF PayInit, Init, NoPay, NotRefunding, OrdersNamed, OtherTablesOK, RefundsCharge,
         ReturnedAndRecorded
<1>2. PaySpec => [](TypeOK /\ CopiesKeepKeys /\ PricesFixed)
  BY PaymentsAreBookings, PricesHold
<1>3. PayBase /\ PayRecords /\ CopiesKeepKeys /\ PricesFixed /\ Inv /\ [PayNext]_allVars => Inv'
  <2> SUFFICES ASSUME PayBase, PayRecords, CopiesKeepKeys, PricesFixed, Inv, [PayNext]_allVars
               PROVE  Inv'
    OBVIOUS
  <2>1. [Next]_vars /\ OrdersGrow /\ PricesStay
    BY PayStepIsStep, NextOrdersGrow, NextPrices DEF PayBase
  <2>2. OrderedPricesStay /\ OrdersNamed'
    BY <2>1, NextOrderedPrices, NextOrdersNamed DEF PayBase
  <2> QED
    BY <2>2, NextOtherTables, NextRefundsCharge, NextReturned
<1>4. ReturnedAndRecorded => RefundedOnce
  BY DEF ReturnedAndRecorded, RefundedOnce
<1> QED
  BY <1>1, <1>2, <1>3, <1>4, PayRecordsHold, PTL DEF PaySpec
=============================================================================
