------------------------------ MODULE Booking -------------------------------
(***************************************************************************)
(* The booking lifecycle (apps/booking): a hold on seats is reserved, then *)
(* paid, cancelled or expired.  Every command that holds the booking's row *)
(* lock is one action.  What is not under the lock is split: a create is   *)
(* lookup / detach key / insert, and the call that creates the payment     *)
(* order runs between two transactions and ends with a save of the whole   *)
(* row as it was read BEFORE the call.                                     *)
(*                                                                         *)
(* `pc`, `req` and `mem` belong to the web workers: where a request is,    *)
(* what it asked for, and the row instance it carries across the call.     *)
(***************************************************************************)
EXTENDS Tier, Sequences, FiniteSets, Functions

CONSTANTS
  Tiers, Bookings, Workers,
  Keys, NoKey,             \* (user, idempotency key) pairs
  Gateways, NoGateway, DefaultGateway,
  InitTier,                \* the tiers as the organizer set them up
  Price,                   \* Price[t]: the unit price in paise
  Requests,                \* what a create may ask for
  Donations,               \* donations a customer may choose
  FeeBps,                  \* PLATFORM_FEE_BPS
  CouponCap, CouponOff,    \* max_redemptions and the fixed discount of a code
  HoldTime, ReplayTime,    \* BOOKING_HOLD_MINUTES, ..._REPLAY_MINUTES
  MaxTime, MaxOrders,      \* bounds of the model
  Overlap                  \* may a row change while its order call is open?

VARIABLES
  now, tier, book,
  redeemed,                \* bookings with a CouponRedemption row
  tickets,                 \* tickets[b][t]: Ticket rows issued
  orders,                  \* orders created at the payment provider
  pc, req, mem,
  minted                   \* auxiliary: the key each booking was created with

dbVars == <<tier, book, redeemed, tickets, minted>>
workerVars == <<pc, req, mem>>
vars == <<now, dbVars, orders, workerVars>>

NoOrder == 0
NoRequest == [key |-> NoKey, items |-> [t \in Tiers |-> 0], donation |-> 0, gw |-> NoGateway]
NoMem == [booking |-> NoKey]

Statuses == {"none", "reserved", "paid", "cancelled", "expired"}

ASSUME ConstantsAssumption ==
  /\ IsFiniteSet(Tiers) /\ IsFiniteSet(Bookings)
  /\ InitTier \in [Tiers -> TierRow]
  /\ \A t \in Tiers : NoOversellCheck(InitTier[t])
  /\ Price \in [Tiers -> Nat]
  /\ NoKey \notin Keys \cup Bookings
  /\ NoGateway \notin Gateways /\ DefaultGateway \in Gateways
  /\ \A r \in Requests : /\ r.key \in Keys \cup {NoKey}
                         /\ r.items \in [Tiers -> Nat]
                         /\ \E t \in Tiers : r.items[t] > 0
                         /\ r.donation \in Donations
                         /\ r.gw \in Gateways
  /\ Donations \subseteq Nat /\ 0 \in Donations
  /\ {FeeBps, CouponCap, CouponOff, HoldTime, ReplayTime, MaxTime, MaxOrders} \subseteq Nat
  /\ Overlap \in BOOLEAN

(* There is no booking yet, so no seat is sold or held.                    *)
ASSUME FreshTiers == \A t \in Tiers : InitTier[t].sold = 0 /\ InitTier[t].reserved = 0

-----------------------------------------------------------------------------
(* The money on a row.                                                     *)

Subtotal(items) == SumFunction([t \in Tiers |-> items[t] * Price[t]])

(* The baskets a row can hold.                                             *)
NoItems == [t \in Tiers |-> 0]

Baskets == {r.items : r \in Requests} \cup {NoItems}

PlatformFee(subtotal) == (subtotal * FeeBps + 5000) \div 10000

(* discount_on never exceeds the subtotal.                                 *)
DiscountOn(subtotal) == IF CouponOff <= subtotal THEN CouponOff ELSE subtotal

NewRow(r) ==
  LET sub == Subtotal(r.items) IN
  [status |-> "reserved", expires |-> now + HoldTime, created |-> now, key |-> r.key,
   items |-> r.items, fee |-> PlatformFee(sub), donation |-> r.donation, discount |-> 0,
   total |-> sub + PlatformFee(sub) + r.donation, order |-> NoOrder, gw |-> NoGateway]

NoRow ==
  [status |-> "none", expires |-> 0, created |-> 0, key |-> NoKey,
   items |-> NoItems, fee |-> 0, donation |-> 0, discount |-> 0,
   total |-> 0, order |-> NoOrder, gw |-> NoGateway]

(* Mutants: the stale order stays; the fee forgets the discount.           *)
Reprice_KeepsOrder(row, discount) ==
  LET charged == Subtotal(row.items) - discount IN
  [row EXCEPT !.discount = discount, !.fee = PlatformFee(charged),
              !.total = charged + PlatformFee(charged) + row.donation]

Reprice_FeeOnFullPrice(row, discount) ==
  LET charged == Subtotal(row.items) - discount IN
  [row EXCEPT !.discount = discount,
              !.total = charged + row.fee + row.donation, !.order = NoOrder]

(* _reprice: one place computes the total, and drops the stale order.      *)
Reprice(row, discount) ==
  LET charged == Subtotal(row.items) - discount IN
  [row EXCEPT !.discount = discount, !.fee = PlatformFee(charged),
              !.total = charged + PlatformFee(charged) + row.donation,
              !.order = NoOrder]

-----------------------------------------------------------------------------
Init ==
  /\ now = 0
  /\ tier = InitTier
  /\ book = [b \in Bookings |-> NoRow]
  /\ redeemed = {}
  /\ tickets = [b \in Bookings |-> [t \in Tiers |-> 0]]
  /\ orders = <<>>
  /\ pc = [p \in Workers |-> "idle"]
  /\ req = [p \in Workers |-> NoRequest]
  /\ mem = [p \in Workers |-> NoMem]
  /\ minted = [b \in Bookings |-> NoKey]

(* _replayable_q: what an idempotency key may be answered with.            *)
Replayable(b) ==
  \/ book[b].status = "paid" /\ book[b].created + ReplayTime > now
  \/ book[b].status = "reserved" /\ book[b].expires > now

Holder(k) == {b \in Bookings : book[b].key = k}

(* The environment assumption that Overlap = FALSE states: while a worker  *)
(* waits for the provider with a copy of b's row, nobody else writes b.    *)
Undisturbed(b) ==
  Overlap \/ \A p \in Workers : pc[p] = "order" => mem[p].booking # b

GoIdle(p) ==
  /\ pc' = [pc EXCEPT ![p] = "idle"]
  /\ req' = [req EXCEPT ![p] = NoRequest]
  /\ mem' = [mem EXCEPT ![p] = NoMem]

(* The entry of _ensure_payment_order: `row` is the caller's instance, and *)
(* a row that has an order or is no hold any more is returned as it is.    *)
Ensure(p, b, row, release, gateway) ==
  IF row.order # NoOrder \/ row.status # "reserved"
  THEN GoIdle(p)
  ELSE /\ pc' = [pc EXCEPT ![p] = "order"]
       /\ req' = [req EXCEPT ![p] = NoRequest]
       /\ mem' = [mem EXCEPT ![p] =
                   [booking |-> b, row |-> row, release |-> release,
                    gw |-> IF row.gw # NoGateway THEN row.gw ELSE gateway]]

-----------------------------------------------------------------------------
(* create_booking.                                                         *)

(* The lookup: a replayable booking answers the request.  The cache lock   *)
(* around a keyed create expires on its own and is not what correctness    *)
(* rests on, so creates with one key may interleave.                       *)
CreateLookup(p, r) ==
  /\ pc[p] = "idle"
  /\ \/ /\ r.key # NoKey
        /\ \E b \in Holder(r.key) : /\ Replayable(b)
                                    /\ Undisturbed(b)
                                    /\ Ensure(p, b, book[b], TRUE, r.gw)
     \/ /\ r.key = NoKey \/ ~ \E b \in Holder(r.key) : Replayable(b)
        /\ pc' = [pc EXCEPT ![p] = IF r.key = NoKey THEN "insert" ELSE "detach"]
        /\ req' = [req EXCEPT ![p] = r]
        /\ UNCHANGED mem
  /\ UNCHANGED <<now, dbVars, orders>>

(* Mutant: detaches the key of a live hold as well.                        *)
DetachKey_Any(p) ==
  /\ pc[p] = "detach"
  /\ book' = [b \in Bookings |-> IF b \in Holder(req[p].key)
                                  THEN [book[b] EXCEPT !.key = NoKey] ELSE book[b]]
  /\ pc' = [pc EXCEPT ![p] = "insert"]
  /\ UNCHANGED <<now, tier, redeemed, tickets, minted, orders, req, mem>>

(* release_idempotency_key: one conditional UPDATE over the complement of  *)
(* the lookup's predicate.                                                 *)
DetachKey(p) ==
  LET dead == {b \in Holder(req[p].key) : ~Replayable(b)} IN
  /\ pc[p] = "detach"
  /\ \A b \in dead : Undisturbed(b)
  /\ book' = [b \in Bookings |-> IF b \in dead THEN [book[b] EXCEPT !.key = NoKey] ELSE book[b]]
  /\ pc' = [pc EXCEPT ![p] = "insert"]
  /\ UNCHANGED <<now, tier, redeemed, tickets, minted, orders, req, mem>>

CanReserveAll(items) ==
  \A t \in Tiers : items[t] > 0 => CanReserve(tier[t], items[t], now)

KeyTaken(k) == k # NoKey /\ Holder(k) # {}

(* _reserve_and_insert committed.                                          *)
Insert(p, b) ==
  LET r == req[p] IN
  /\ pc[p] = "insert"
  /\ book[b].status = "none"
  /\ CanReserveAll(r.items)
  /\ ~KeyTaken(r.key)
  /\ tier' = [t \in Tiers |-> Reserve(tier[t], r.items[t])]
  /\ book' = [book EXCEPT ![b] = NewRow(r)]
  /\ minted' = [minted EXCEPT ![b] = r.key]
  /\ Ensure(p, b, NewRow(r), TRUE, r.gw)
  /\ UNCHANGED <<now, redeemed, tickets, orders>>

(* A reserve was refused: the transaction rolls back and the request ends. *)
InsertRefused(p) ==
  /\ pc[p] = "insert"
  /\ ~CanReserveAll(req[p].items)
  /\ GoIdle(p)
  /\ UNCHANGED <<now, dbVars, orders>>

(* The unique (user, key) constraint fired: the reserves roll back and the *)
(* winner, when it may be replayed, is the answer.                         *)
InsertLost(p) ==
  LET r == req[p] IN
  /\ pc[p] = "insert"
  /\ CanReserveAll(r.items)
  /\ KeyTaken(r.key)
  /\ \/ \E b \in Holder(r.key) : /\ Replayable(b)
                                 /\ Undisturbed(b)
                                 /\ Ensure(p, b, book[b], TRUE, r.gw)
     \/ /\ ~ \E b \in Holder(r.key) : Replayable(b)
        /\ GoIdle(p)
  /\ UNCHANGED <<now, dbVars, orders>>

-----------------------------------------------------------------------------
(* The order call returned: the columns of the order are set on the        *)
(* instance in memory and the whole instance is saved, without a lock.     *)
(* The unique constraint on the key may refuse the save.                   *)
OrderCreated(p) ==
  LET b   == mem[p].booking
      row == [mem[p].row EXCEPT !.order = Len(orders) + 1, !.gw = mem[p].gw]
  IN
  /\ pc[p] = "order"
  /\ Len(orders) < MaxOrders
  /\ orders' = Append(orders, [booking |-> b, amount |-> row.total])
  /\ book' = IF row.key # NoKey /\ Holder(row.key) \ {b} # {}
             THEN book ELSE [book EXCEPT ![b] = row]
  /\ GoIdle(p)
  /\ UNCHANGED <<now, tier, redeemed, tickets, minted>>

(* Mutant: the redemption row outlives the hold.                           *)
ReleaseHold_KeepsCoupon(b, status) ==
  /\ tier' = [t \in Tiers |-> Release(tier[t], book[b].items[t])]
  /\ book' = [book EXCEPT ![b].status = status]
  /\ UNCHANGED <<tickets, minted, redeemed>>

(* release_items + coupon release + new status + save, under the row lock. *)
ReleaseHold(b, status) ==
  /\ tier' = [t \in Tiers |-> Release(tier[t], book[b].items[t])]
  /\ redeemed' = redeemed \ {b}
  /\ book' = [book EXCEPT ![b].status = status]
  /\ UNCHANGED <<tickets, minted>>

(* The provider refused or could not be reached: a create releases its     *)
(* hold (_release_unstartable, re-checked under the lock), a re-issue      *)
(* keeps it.                                                               *)
OrderFailed(p) ==
  LET b == mem[p].booking IN
  /\ pc[p] = "order"
  /\ IF mem[p].release /\ book[b].status = "reserved"
     THEN ReleaseHold(b, "cancelled")
     ELSE UNCHANGED dbVars
  /\ GoIdle(p)
  /\ UNCHANGED <<now, orders>>

(* A worker dies between two of its transactions.                          *)
WorkerCrash(p) ==
  /\ pc[p] # "idle"
  /\ GoIdle(p)
  /\ UNCHANGED <<now, dbVars, orders>>

-----------------------------------------------------------------------------
(* The commands on a live hold.                                            *)

(* Mutant: a paid booking can be cancelled.                                *)
CancelBooking_AnyStatus(b) ==
  /\ book[b].status # "none"
  /\ Undisturbed(b)
  /\ ReleaseHold(b, "cancelled")
  /\ UNCHANGED <<now, orders, workerVars>>

CancelBooking(b) ==
  /\ book[b].status = "reserved"
  /\ Undisturbed(b)
  /\ ReleaseHold(b, "cancelled")
  /\ UNCHANGED <<now, orders, workerVars>>

(* Each re-issue command locks the row, requires `reserved`, saves `row`   *)
(* and then asks for an order with the instance it just saved.             *)
Reissue(p, b, row, gateway) ==
  /\ pc[p] = "idle"
  /\ book[b].status = "reserved"
  /\ Undisturbed(b)
  /\ book' = [book EXCEPT ![b] = row]
  /\ Ensure(p, b, row, FALSE, gateway)
  /\ UNCHANGED <<now, tier, tickets, minted, orders>>

SetDonation(p, b, d) ==
  LET row == book[b] IN
  /\ Reissue(p, b, IF row.donation = d THEN row
                   ELSE [row EXCEPT !.donation = d, !.order = NoOrder,
                                    !.total = @ - row.donation + d],
             DefaultGateway)
  /\ UNCHANGED redeemed

SetPaymentGateway(p, b, g) ==
  LET row     == book[b]
      current == IF row.gw # NoGateway THEN row.gw ELSE DefaultGateway
  IN
  /\ Reissue(p, b, [row EXCEPT !.gw = g, !.order = IF current # g THEN NoOrder ELSE @], g)
  /\ UNCHANGED redeemed

(* release-then-redeem in one transaction; the cap counts redemption rows. *)
SetCoupon(p, b) ==
  /\ Cardinality(redeemed \ {b}) < CouponCap
  /\ redeemed' = redeemed \cup {b}
  /\ Reissue(p, b, Reprice(book[b], DiscountOn(Subtotal(book[b].items))), DefaultGateway)

(* A booking that carries no code is returned without asking for an order. *)
ClearCoupon(p, b) ==
  /\ b \in redeemed \/ book[b].discount # 0
  /\ redeemed' = redeemed \ {b}
  /\ Reissue(p, b, Reprice(book[b], 0), DefaultGateway)

-----------------------------------------------------------------------------
(* The sweeper, and the confirmation that payments calls.                  *)

(* Mutants: no re-check of the status under the lock; holds with an order  *)
(* are left to payments.                                                   *)
ReleaseOneExpired_NoRecheck(b) ==
  /\ book[b].status # "none"
  /\ book[b].expires < now
  /\ Undisturbed(b)
  /\ ReleaseHold(b, "expired")
  /\ UNCHANGED <<now, orders, workerVars>>

ReleaseOneExpired_SkipsOrders(b) ==
  /\ book[b].status = "reserved" /\ book[b].order = NoOrder
  /\ book[b].expires < now
  /\ Undisturbed(b)
  /\ ReleaseHold(b, "expired")
  /\ UNCHANGED <<now, orders, workerVars>>

ReleaseOneExpired(b) ==
  /\ book[b].status = "reserved"
  /\ book[b].expires < now
  /\ Undisturbed(b)
  /\ ReleaseHold(b, "expired")
  /\ UNCHANGED <<now, orders, workerVars>>

HoldLapsed(b) ==
  book[b].status \in {"cancelled", "expired"} \/ book[b].expires < now

(* Mutants: a replay issues again; tickets without moving the counters.    *)
ConfirmIssues_Replays(b) ==
  /\ book[b].status \in {"reserved", "paid"}
  /\ ~HoldLapsed(b)
  /\ tier' = [t \in Tiers |-> ConfirmSold(tier[t], book[b].items[t])]
  /\ book' = [book EXCEPT ![b].status = "paid"]
  /\ tickets' = [tickets EXCEPT ![b] = [t \in Tiers |-> @[t] + book[b].items[t]]]
  /\ UNCHANGED <<redeemed, minted>>

ConfirmIssues_LeavesReserved(b) ==
  /\ book[b].status = "reserved"
  /\ ~HoldLapsed(b)
  /\ book' = [book EXCEPT ![b].status = "paid"]
  /\ tickets' = [tickets EXCEPT ![b] = [t \in Tiers |-> @[t] + book[b].items[t]]]
  /\ UNCHANGED <<tier, redeemed, minted>>

(* confirm_booking on a good hold.  A paid booking is answered with its    *)
(* own tickets and a lapsed hold with `hold_expired`: neither changes      *)
(* anything.                                                               *)
ConfirmIssues(b) ==
  /\ book[b].status = "reserved"
  /\ ~HoldLapsed(b)
  /\ tier' = [t \in Tiers |-> ConfirmSold(tier[t], book[b].items[t])]
  /\ book' = [book EXCEPT ![b].status = "paid"]
  /\ tickets' = [tickets EXCEPT ![b] = [t \in Tiers |-> @[t] + book[b].items[t]]]
  /\ UNCHANGED <<redeemed, minted>>

(* Only a booking an order was ever created for can be confirmed.          *)
ConfirmBooking(b) ==
  /\ \E i \in DOMAIN orders : orders[i].booking = b
  /\ Undisturbed(b)
  /\ ConfirmIssues(b)
  /\ UNCHANGED <<now, orders, workerVars>>

Tick ==
  /\ now < MaxTime
  /\ now' = now + 1
  /\ UNCHANGED <<dbVars, orders, workerVars>>

-----------------------------------------------------------------------------
WorkerStep(p) ==
  \/ \E r \in Requests : CreateLookup(p, r)
  \/ DetachKey(p)
  \/ \E b \in Bookings : Insert(p, b)
  \/ InsertRefused(p)
  \/ InsertLost(p)
  \/ OrderCreated(p)
  \/ OrderFailed(p)
  \/ WorkerCrash(p)
  \/ \E b \in Bookings, d \in Donations : SetDonation(p, b, d)
  \/ \E b \in Bookings, g \in Gateways : SetPaymentGateway(p, b, g)
  \/ \E b \in Bookings : SetCoupon(p, b)
  \/ \E b \in Bookings : ClearCoupon(p, b)

Next ==
  \/ \E p \in Workers : WorkerStep(p)
  \/ \E b \in Bookings : CancelBooking(b) \/ ReleaseOneExpired(b) \/ ConfirmBooking(b)
  \/ Tick

Spec == Init /\ [][Next]_vars

-----------------------------------------------------------------------------
Row ==
  [status : Statuses, expires : Nat, created : Nat, key : Keys \cup {NoKey},
   items : Baskets, fee : Int, donation : Nat, discount : Int,
   total : Int, order : Nat, gw : Gateways \cup {NoGateway}]

(* What a worker that waits for the provider carries.                      *)
Carried == [booking : Bookings, row : Row, release : BOOLEAN, gw : Gateways]

RowsOK ==
  /\ now \in Nat
  /\ tier \in [Tiers -> TierRow]
  /\ book \in [Bookings -> Row]
  /\ redeemed \subseteq Bookings
  /\ tickets \in [Bookings -> [Tiers -> Nat]]
  /\ orders \in Seq([booking : Bookings, amount : Int])
  /\ minted \in [Bookings -> Keys \cup {NoKey}]

WorkersOK ==
  /\ pc \in [Workers -> {"idle", "detach", "insert", "order"}]
  /\ req \in [Workers -> Requests \cup {NoRequest}]
  /\ mem \in [Workers -> {NoMem} \cup Carried]
  /\ \A p \in Workers : pc[p] = "order" => mem[p] \in Carried
  /\ \A p \in Workers : pc[p] \in {"detach", "insert"} => req[p] \in Requests

(* Type correctness of the rows and of what the workers carry.             *)
TypeOK == RowsOK /\ WorkersOK

(* Zero oversell, on the tier's own counters: whatever the workers, the    *)
(* sweeper and payments interleave, `sold + reserved` stays within         *)
(* capacity (the CHECK never has to fire).                                 *)
CountersWithinCapacity == \A t \in Tiers : NoOversellCheck(tier[t])

(* The amount of the order a booking names is the total the webhook will   *)
(* check the captured amount against - even though the order is created    *)
(* from a copy of the row and saved without a lock.                        *)
OrderMatchesTotal ==
  \A b \in Bookings : book[b].order # NoOrder =>
    /\ book[b].order \in DOMAIN orders
    /\ orders[book[b].order] = [booking |-> b, amount |-> book[b].total]

AddsUp(row) ==
  LET charged == Subtotal(row.items) - row.discount IN
  /\ charged >= 0
  /\ row.fee = PlatformFee(charged)
  /\ row.total = charged + row.fee + row.donation

(* The invoice adds up: lines, minus the discount, plus the fee on what is *)
(* charged, plus the donation - after any order of donation and coupon     *)
(* changes and any stale save.                                             *)
TotalAddsUp == \A b \in Bookings : book[b].status # "none" => AddsUp(book[b])

(* Two creates with one idempotency key never hold seats at the same time. *)
OneLiveHoldPerKey ==
  \A a, b \in Bookings :
    /\ a # b /\ minted[a] = minted[b] /\ minted[a] # NoKey
    /\ book[a].status = "reserved" /\ book[b].status = "reserved"
    => ~(book[a].expires > now /\ book[b].expires > now)

Held(t) ==
  SumFunction([b \in Bookings |-> IF book[b].status = "reserved" THEN book[b].items[t] ELSE 0])

(* "Every reserved ticket ends up either paid or released - never stuck,   *)
(* never leaked, never double-issued" (apps/booking/models.py): the tier's *)
(* `reserved` is exactly the seats of the live holds, and its `sold` is    *)
(* exactly the tickets in the hands of buyers.                             *)
SeatsConserved ==
  \A t \in Tiers :
    /\ tier[t].reserved = Held(t)
    /\ tier[t].sold = SumFunction([b \in Bookings |-> tickets[b][t]])

(* "Overselling should be impossible" (OPERATIONS.md): no more tickets are *)
(* issued for a tier than it has seats.                                    *)
TicketsWithinCapacity ==
  \A t \in Tiers : SumFunction([b \in Bookings |-> tickets[b][t]]) <= tier[t].quantity

(* A booking has its tickets, all of them and once, exactly when paid.     *)
TicketsIffPaid ==
  \A b \in Bookings :
    tickets[b] = IF book[b].status = "paid" THEN book[b].items ELSE [t \in Tiers |-> 0]

(* A code is on the redemption ledger exactly while a booking that can     *)
(* still be (or was) paid carries its discount.                            *)
CouponLedgerMatchesRows ==
  \A b \in Bookings :
    b \in redeemed <=> book[b].discount # 0 /\ book[b].status \in {"reserved", "paid"}

(* Paid, cancelled and expired are final.                                  *)
FinalStatusStays ==
  [][\A b \in Bookings : book[b].status \in {"paid", "cancelled", "expired"}
       => book'[b].status = book[b].status]_vars

(* A hold that runs out is given back (or was paid): seats are never stuck.*)
LapsedHoldEnds ==
  \A b \in Bookings :
    (book[b].status = "reserved" /\ book[b].expires < now) ~> (book[b].status # "reserved")
=============================================================================
