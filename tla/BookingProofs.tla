--------------------------- MODULE BookingProofs ----------------------------
(***************************************************************************)
(* Proofs about Booking for every set of tiers, bookings, workers, keys    *)
(* and requests, and every value of the fee, the coupon and the bounds.    *)
(***************************************************************************)
EXTENDS Booking, SumLemmas, TLAPS

USE DEF NoOrder

-----------------------------------------------------------------------------
(* The operators on rows.                                                  *)

(* A basket maps every tier to a quantity; unit prices are whole paise, so *)
(* its subtotal is a natural number.                                       *)
LEMMA BasketType == \A items \in Baskets : items \in [Tiers -> Nat]
BY ConstantsAssumption DEF Baskets, NoItems

LEMMA SubtotalType == \A items \in Baskets : Subtotal(items) \in Nat
<1> SUFFICES ASSUME NEW items \in Baskets PROVE Subtotal(items) \in Nat
  OBVIOUS
<1> DEFINE lines == [t \in Tiers |-> items[t] * Price[t]]
<1>1. IsFiniteSet(Tiers) /\ \A t \in Tiers : Price[t] \in Nat
  BY ConstantsAssumption
<1>2. \A t \in Tiers : items[t] \in Nat
  BY BasketType
<1>3. DOMAIN lines = Tiers /\ \A t \in Tiers : lines[t] \in Nat
  BY <1>1, <1>2
<1> HIDE DEF lines
<1>4. SumFunctionOnSet(lines, Tiers) \in Nat
  BY <1>1, <1>3, SumNat
<1> QED
  BY <1>3, <1>4 DEF Subtotal, SumFunction, lines

(* A request names a basket, so a new row is a row of the table.           *)
LEMMA NewRowType ==
  ASSUME NEW r \in Requests, now \in Nat
  PROVE  NewRow(r) \in Row
<1>1. /\ r.items \in Baskets
      /\ r.key \in Keys \cup {NoKey} /\ r.donation \in Nat
  BY ConstantsAssumption DEF Baskets
<1>2. Subtotal(r.items) \in Nat
  BY <1>1, SubtotalType
<1>3. PlatformFee(Subtotal(r.items)) \in Int
  BY <1>2, ConstantsAssumption DEF PlatformFee
<1> QED
  BY <1>1, <1>2, <1>3, ConstantsAssumption DEF NewRow, Row, Statuses

(* _reprice keeps a row a row.                                             *)
LEMMA RepriceType ==
  ASSUME NEW row \in Row, NEW d \in Int
  PROVE  Reprice(row, d) \in Row
<1>1. Subtotal(row.items) \in Nat
  BY SubtotalType DEF Row
<1>2. PlatformFee(Subtotal(row.items) - d) \in Int
  BY <1>1, ConstantsAssumption DEF PlatformFee
<1>3. Subtotal(row.items) - d + PlatformFee(Subtotal(row.items) - d) + row.donation \in Int
  BY <1>1, <1>2 DEF Row
<1>4. \A f, s \in Int :
        [row EXCEPT !.discount = d, !.fee = f, !.total = s, !.order = 0] \in Row
  BY DEF Row
<1> QED
  BY <1>2, <1>3, <1>4 DEF Reprice

(* The discount of a code is between nothing and the whole subtotal.       *)
LEMMA DiscountRange ==
  ASSUME NEW items \in Baskets
  PROVE  /\ DiscountOn(Subtotal(items)) \in Nat
         /\ DiscountOn(Subtotal(items)) <= Subtotal(items)
BY SubtotalType, ConstantsAssumption DEF DiscountOn

(* The primitives on a tier return a row of the table, and keep its two    *)
(* counters within capacity.                                               *)
LEMMA TierType ==
  ASSUME NEW row \in TierRow, NEW q \in Nat
  PROVE  /\ Reserve(row, q) \in TierRow
         /\ Release(row, q) \in TierRow
         /\ ConfirmSold(row, q) \in TierRow
<1>1. /\ row.reserved + q \in Nat
      /\ row.reserved - Clamp(row, q) \in Nat
      /\ row.sold + Clamp(row, q) \in Nat
  BY DEF TierRow, Clamp
<1> QED
  BY <1>1 DEF TierRow, Reserve, Release, ConfirmSold

LEMMA TierCounters ==
  ASSUME NEW row \in TierRow, NEW q \in Nat, NoOversellCheck(row)
  PROVE  /\ NoOversellCheck(Release(row, q))
         /\ NoOversellCheck(ConfirmSold(row, q))
         /\ q <= Available(row) => NoOversellCheck(Reserve(row, q))
BY DEF TierRow, Reserve, Release, ConfirmSold, Clamp, NoOversellCheck, Available

-----------------------------------------------------------------------------
(* Type correctness.                                                       *)

LEMMA InitType == Init => TypeOK
<1> SUFFICES ASSUME Init PROVE TypeOK
  OBVIOUS
<1>1. NoRow \in Row
  BY DEF NoRow, Row, Statuses, Baskets
<1>2. RowsOK
  BY <1>1, ConstantsAssumption DEF Init, RowsOK
<1>3. WorkersOK
  BY DEF Init, WorkersOK
<1> QED
  BY <1>2, <1>3 DEF TypeOK

LEMMA GoIdleType ==
  ASSUME NEW p \in Workers, WorkersOK, GoIdle(p)
  PROVE  WorkersOK'
BY DEF GoIdle, WorkersOK

LEMMA EnsureType ==
  ASSUME NEW p \in Workers, NEW b \in Bookings, NEW row \in Row,
         NEW release \in BOOLEAN, NEW gateway \in Gateways,
         WorkersOK, Ensure(p, b, row, release, gateway)
  PROVE  WorkersOK'
<1>1. CASE row.order # NoOrder \/ row.status # "reserved"
  BY <1>1, GoIdleType DEF Ensure
<1>2. CASE ~(row.order # NoOrder \/ row.status # "reserved")
  <2> DEFINE m == [booking |-> b, row |-> row, release |-> release,
                   gw |-> IF row.gw # NoGateway THEN row.gw ELSE gateway]
  <2>1. m \in Carried
    BY DEF Carried, Row
  <2>2. /\ pc' = [pc EXCEPT ![p] = "order"]
        /\ req' = [req EXCEPT ![p] = NoRequest]
        /\ mem' = [mem EXCEPT ![p] = m]
    BY <1>2 DEF Ensure
  <2> HIDE DEF m
  <2> QED
    BY <2>1, <2>2 DEF WorkersOK
<1> QED
  BY <1>1, <1>2

LEMMA ReleaseHoldType ==
  ASSUME NEW b \in Bookings, NEW status \in Statuses, RowsOK,
         ReleaseHold(b, status), UNCHANGED <<now, orders>>
  PROVE  RowsOK'
<1>1. tier' \in [Tiers -> TierRow]
  <2>1. \A t \in Tiers : tier[t] \in TierRow /\ book[b].items[t] \in Nat
    BY BasketType DEF RowsOK, Row
  <2> QED
    BY <2>1, TierType DEF ReleaseHold
<1>2. book' \in [Bookings -> Row]
  <2>0. book[b] \in Row
    BY DEF RowsOK
  <2>1. [book[b] EXCEPT !.status = status] \in Row
    BY ONLY <2>0, status \in Statuses DEF Row
  <2>2. book' = [book EXCEPT ![b] = [book[b] EXCEPT !.status = status]]
    BY DEF ReleaseHold, RowsOK
  <2>3. book \in [Bookings -> Row]
    BY DEF RowsOK
  <2> QED
    BY ONLY <2>1, <2>2, <2>3
<1> QED
  BY <1>1, <1>2 DEF RowsOK, ReleaseHold

LEMMA ReissueType ==
  ASSUME NEW p \in Workers, NEW b \in Bookings, NEW row \in Row,
         NEW gateway \in Gateways, TypeOK,
         Reissue(p, b, row, gateway), redeemed' \subseteq Bookings
  PROVE  TypeOK'
<1>1. RowsOK'
  BY DEF Reissue, TypeOK, RowsOK
<1>2. WorkersOK'
  BY EnsureType DEF Reissue, TypeOK
<1> QED
  BY <1>1, <1>2 DEF TypeOK

LEMMA NextType == TypeOK /\ [Next]_vars => TypeOK'
<1> SUFFICES ASSUME TypeOK, [Next]_vars PROVE TypeOK'
  OBVIOUS
<1> USE DEF TypeOK
<1>1. ASSUME NEW p \in Workers, NEW r \in Requests, CreateLookup(p, r) PROVE TypeOK'
  <2>1. RowsOK'
    BY <1>1 DEF CreateLookup, RowsOK, dbVars
  <2>2. CASE \E b \in Bookings : Ensure(p, b, book[b], TRUE, r.gw)
    BY <2>1, <2>2, EnsureType, ConstantsAssumption DEF RowsOK
  <2>3. CASE /\ pc' = [pc EXCEPT ![p] = IF r.key = NoKey THEN "insert" ELSE "detach"]
             /\ req' = [req EXCEPT ![p] = r]
             /\ UNCHANGED mem
    <3>2. pc' \in [Workers -> {"idle", "detach", "insert", "order"}]
      BY <2>3 DEF WorkersOK
    <3>3. /\ req' \in [Workers -> Requests \cup {NoRequest}] /\ req'[p] = r
          /\ \A q \in Workers : q # p => req'[q] = req[q] /\ pc'[q] = pc[q]
      BY <2>3 DEF WorkersOK
    <3>4. pc'[p] # "order"
      BY <2>3 DEF WorkersOK
    <3>5. mem' \in [Workers -> {NoMem} \cup Carried]
      BY <2>3 DEF WorkersOK
    <3>6. \A q \in Workers : pc'[q] = "order" => mem'[q] \in Carried
      BY <2>3, <3>3, <3>4 DEF WorkersOK
    <3>7. \A q \in Workers : pc'[q] \in {"detach", "insert"} => req'[q] \in Requests
      BY <3>3 DEF WorkersOK
    <3>8. WorkersOK'
      BY ONLY <3>2, <3>3, <3>5, <3>6, <3>7 DEF WorkersOK
    <3> QED
      BY <2>1, <3>8
  <2> QED
    BY <1>1, <2>2, <2>3 DEF CreateLookup, Holder
<1>2. ASSUME NEW p \in Workers, DetachKey(p) PROVE TypeOK'
  <2>1. RowsOK'
    <3>1. book \in [Bookings -> Row]
      BY DEF RowsOK
    <3>2. \A b \in Bookings : [book[b] EXCEPT !.key = NoKey] \in Row
      BY ONLY <3>1 DEF Row
    <3>3. book' \in [Bookings -> Row]
      BY <1>2, <3>1, <3>2 DEF DetachKey
    <3> QED
      BY <1>2, <3>3 DEF DetachKey, RowsOK
  <2>2. WorkersOK'
    BY <1>2 DEF DetachKey, WorkersOK
  <2> QED
    BY <2>1, <2>2
<1>3. ASSUME NEW p \in Workers, NEW b \in Bookings, Insert(p, b) PROVE TypeOK'
  <2>1. req[p] \in Requests /\ req[p].items \in [Tiers -> Nat]
        /\ req[p].gw \in Gateways /\ req[p].key \in Keys \cup {NoKey}
    BY <1>3, ConstantsAssumption DEF Insert, WorkersOK
  <2>2. NewRow(req[p]) \in Row
    BY <2>1, NewRowType DEF RowsOK
  <2>3. tier' \in [Tiers -> TierRow]
    BY <1>3, <2>1, TierType DEF Insert, RowsOK
  <2>4. RowsOK'
    BY <1>3, <2>1, <2>2, <2>3 DEF Insert, RowsOK
  <2>5. WorkersOK'
    BY <1>3, <2>1, <2>2, EnsureType DEF Insert
  <2> QED
    BY <2>4, <2>5
<1>4. ASSUME NEW p \in Workers, InsertRefused(p) PROVE TypeOK'
  BY <1>4, GoIdleType DEF InsertRefused, RowsOK, dbVars
<1>5. ASSUME NEW p \in Workers, InsertLost(p) PROVE TypeOK'
  <2>1. RowsOK' /\ req[p].gw \in Gateways
    BY <1>5, ConstantsAssumption DEF InsertLost, RowsOK, WorkersOK, dbVars
  <2>2. CASE \E b \in Bookings : Ensure(p, b, book[b], TRUE, req[p].gw)
    BY <2>1, <2>2, EnsureType DEF RowsOK
  <2>3. CASE GoIdle(p)
    BY <2>1, <2>3, GoIdleType
  <2> QED
    BY <1>5, <2>2, <2>3 DEF InsertLost, Holder
<1>6. ASSUME NEW p \in Workers, OrderCreated(p) PROVE TypeOK'
  <2> DEFINE row == [mem[p].row EXCEPT !.order = Len(orders) + 1, !.gw = mem[p].gw]
  <2>1. mem[p] \in Carried
    BY <1>6 DEF OrderCreated, WorkersOK
  <2>2. Len(orders) + 1 \in Nat
    BY DEF RowsOK
  <2>3. row \in Row
    BY <2>1, <2>2 DEF Carried, Row
  <2>4. row.total \in Int /\ mem[p].booking \in Bookings
    BY <2>1, <2>3 DEF Carried, Row
  <2>5. /\ orders' = Append(orders, [booking |-> mem[p].booking, amount |-> row.total])
        /\ book' = book \/ book' = [book EXCEPT ![mem[p].booking] = row]
    BY <1>6 DEF OrderCreated
  <2> HIDE DEF row
  <2>6. orders' \in Seq([booking : Bookings, amount : Int])
    BY <2>4, <2>5 DEF RowsOK
  <2>7. book' \in [Bookings -> Row]
    BY <2>3, <2>4, <2>5 DEF RowsOK
  <2>8. RowsOK'
    BY <1>6, <2>6, <2>7 DEF OrderCreated, RowsOK
  <2> QED
    BY <1>6, <2>8, GoIdleType DEF OrderCreated
<1>7. ASSUME NEW p \in Workers, OrderFailed(p) PROVE TypeOK'
  <2>1. mem[p].booking \in Bookings
    BY <1>7 DEF OrderFailed, WorkersOK, Carried
  <2>2. WorkersOK'
    BY <1>7, GoIdleType DEF OrderFailed
  <2>3. CASE ReleaseHold(mem[p].booking, "cancelled")
    BY <1>7, <2>1, <2>2, <2>3, ReleaseHoldType DEF OrderFailed, Statuses
  <2>4. CASE UNCHANGED dbVars
    BY <1>7, <2>2, <2>4 DEF OrderFailed, RowsOK, dbVars
  <2> QED
    BY <1>7, <2>3, <2>4 DEF OrderFailed
<1>8. ASSUME NEW p \in Workers, WorkerCrash(p) PROVE TypeOK'
  BY <1>8, GoIdleType DEF WorkerCrash, RowsOK, dbVars
<1>9. ASSUME NEW p \in Workers, NEW b \in Bookings, NEW d \in Donations,
             SetDonation(p, b, d)
      PROVE  TypeOK'
  <2>1. book[b] \in Row /\ d \in Nat
    BY ConstantsAssumption DEF RowsOK
  <2>2. book[b].total - book[b].donation + d \in Int
    BY <2>1 DEF Row
  <2>3. [book[b] EXCEPT !.donation = d, !.order = NoOrder,
                        !.total = @ - book[b].donation + d] \in Row
    BY <2>1, <2>2 DEF Row
  <2> QED
    BY <1>9, <2>1, <2>3, ReissueType, ConstantsAssumption DEF SetDonation, RowsOK
<1>10. ASSUME NEW p \in Workers, NEW b \in Bookings, NEW g \in Gateways,
              SetPaymentGateway(p, b, g)
       PROVE  TypeOK'
  <2>1. book[b] \in Row
    BY DEF RowsOK
  <2>2. \A o \in Nat : [book[b] EXCEPT !.gw = g, !.order = o] \in Row
    BY <2>1 DEF Row
  <2>3. PICK o \in Nat : Reissue(p, b, [book[b] EXCEPT !.gw = g, !.order = o], g)
    BY <1>10, <2>1 DEF SetPaymentGateway, Row
  <2> QED
    BY <1>10, <2>2, <2>3, ReissueType DEF SetPaymentGateway, RowsOK
<1>11. ASSUME NEW p \in Workers, NEW b \in Bookings, SetCoupon(p, b) PROVE TypeOK'
  <2>1. book[b] \in Row /\ book[b].items \in Baskets
    BY DEF RowsOK, Row
  <2>2. Reprice(book[b], DiscountOn(Subtotal(book[b].items))) \in Row
    BY <2>1, DiscountRange, RepriceType
  <2> QED
    BY <1>11, <2>2, ReissueType, ConstantsAssumption DEF SetCoupon, RowsOK
<1>12. ASSUME NEW p \in Workers, NEW b \in Bookings, ClearCoupon(p, b) PROVE TypeOK'
  <2>1. Reprice(book[b], 0) \in Row
    BY RepriceType DEF RowsOK
  <2> QED
    BY <1>12, <2>1, ReissueType, ConstantsAssumption DEF ClearCoupon, RowsOK
<1>13. ASSUME NEW b \in Bookings, CancelBooking(b) PROVE TypeOK'
  <2>1. ReleaseHold(b, "cancelled") /\ UNCHANGED <<now, orders, workerVars>>
    BY <1>13 DEF CancelBooking
  <2>2. RowsOK'
    BY <2>1, ReleaseHoldType DEF Statuses
  <2> QED
    BY <2>1, <2>2 DEF WorkersOK, workerVars
<1>14. ASSUME NEW b \in Bookings, ReleaseOneExpired(b) PROVE TypeOK'
  <2>1. ReleaseHold(b, "expired") /\ UNCHANGED <<now, orders, workerVars>>
    BY <1>14 DEF ReleaseOneExpired
  <2>2. RowsOK'
    BY <2>1, ReleaseHoldType DEF Statuses
  <2> QED
    BY <2>1, <2>2 DEF WorkersOK, workerVars
<1>15. ASSUME NEW b \in Bookings, ConfirmBooking(b) PROVE TypeOK'
  <2>1. \A t \in Tiers : tier[t] \in TierRow /\ book[b].items[t] \in Nat
    BY BasketType DEF RowsOK, Row
  <2>2. tier' \in [Tiers -> TierRow]
    BY <1>15, <2>1, TierType DEF ConfirmBooking, ConfirmIssues
  <2>3. book' \in [Bookings -> Row]
    <3>0. book[b] \in Row
      BY DEF RowsOK
    <3>1. [book[b] EXCEPT !.status = "paid"] \in Row
      BY ONLY <3>0 DEF Row, Statuses
    <3>2. book' = [book EXCEPT ![b] = [book[b] EXCEPT !.status = "paid"]]
      BY <1>15 DEF ConfirmBooking, ConfirmIssues, RowsOK
    <3> QED
      BY <3>1, <3>2 DEF RowsOK
  <2>4. [t \in Tiers |-> tickets[b][t] + book[b].items[t]] \in [Tiers -> Nat]
    BY <2>1 DEF RowsOK
  <2>5. tickets' \in [Bookings -> [Tiers -> Nat]]
    BY <1>15, <2>4 DEF ConfirmBooking, ConfirmIssues, RowsOK
  <2> QED
    BY <1>15, <2>2, <2>3, <2>5
    DEF ConfirmBooking, ConfirmIssues, RowsOK, WorkersOK, workerVars
<1>16. CASE Tick
  BY <1>16 DEF Tick, RowsOK, WorkersOK, dbVars, workerVars
<1>17. CASE UNCHANGED vars
  BY <1>17 DEF vars, RowsOK, WorkersOK, dbVars, workerVars
<1> QED
  BY <1>1, <1>2, <1>3, <1>4, <1>5, <1>6, <1>7, <1>8, <1>9, <1>10, <1>11, <1>12,
     <1>13, <1>14, <1>15, <1>16, <1>17 DEF Next, WorkerStep

(* Whatever interleaving of workers, sweeper and payments: the tables hold *)
(* rows of their types and a waiting worker carries a row.                 *)
THEOREM TypeCorrect == Spec => []TypeOK
BY InitType, NextType, PTL DEF Spec

-----------------------------------------------------------------------------
(* Zero oversell.  Capacity itself is never written here, so only the      *)
(* three primitives move the counters; a reserve is guarded by the         *)
(* availability read under the same lock.                                  *)

(* Only these four actions write a tier row.                               *)
TierWritten ==
  \/ \E p \in Workers, b \in Bookings : Insert(p, b)
  \/ \E p \in Workers : OrderFailed(p)
  \/ \E b \in Bookings : CancelBooking(b) \/ ReleaseOneExpired(b) \/ ConfirmBooking(b)

LEMMA TierMoves == [Next]_vars => UNCHANGED tier \/ TierWritten
<1> SUFFICES ASSUME [Next]_vars PROVE UNCHANGED tier \/ TierWritten
  OBVIOUS
<1>1. ASSUME NEW p \in Workers, NEW b \in Bookings, NEW row, NEW gateway,
             Reissue(p, b, row, gateway)
      PROVE  UNCHANGED tier
  BY <1>1 DEF Reissue
<1>2. ASSUME NEW p \in Workers, WorkerStep(p) PROVE UNCHANGED tier \/ TierWritten
  <2>1. CASE \/ \E r \in Requests : CreateLookup(p, r)
             \/ DetachKey(p) \/ InsertRefused(p) \/ InsertLost(p)
             \/ OrderCreated(p) \/ WorkerCrash(p)
    BY <2>1
    DEF CreateLookup, DetachKey, InsertRefused, InsertLost, OrderCreated, WorkerCrash, dbVars
  <2>2. CASE \/ \E b \in Bookings, d \in Donations : SetDonation(p, b, d)
             \/ \E b \in Bookings, g \in Gateways : SetPaymentGateway(p, b, g)
             \/ \E b \in Bookings : SetCoupon(p, b) \/ ClearCoupon(p, b)
    BY <1>1, <2>2 DEF SetDonation, SetPaymentGateway, SetCoupon, ClearCoupon
  <2> QED
    BY <1>2, <2>1, <2>2 DEF WorkerStep, TierWritten
<1>3. CASE Tick \/ UNCHANGED vars
  BY <1>3 DEF Tick, vars, dbVars
<1> QED
  BY <1>2, <1>3 DEF Next, TierWritten

(* Only a worker's call to the provider adds an order.                     *)
LEMMA OrdersMove == [Next]_vars => UNCHANGED orders \/ \E p \in Workers : OrderCreated(p)
<1> SUFFICES ASSUME [Next]_vars PROVE UNCHANGED orders \/ \E p \in Workers : OrderCreated(p)
  OBVIOUS
<1>1. ASSUME NEW p \in Workers, NEW b \in Bookings, NEW row, NEW gateway,
             Reissue(p, b, row, gateway)
      PROVE  UNCHANGED orders
  BY <1>1 DEF Reissue
<1>2. ASSUME NEW p \in Workers, WorkerStep(p) PROVE UNCHANGED orders \/ OrderCreated(p)
  <2>1. CASE \/ \E r \in Requests : CreateLookup(p, r)
             \/ DetachKey(p) \/ InsertRefused(p) \/ InsertLost(p)
             \/ OrderFailed(p) \/ WorkerCrash(p)
             \/ \E b \in Bookings : Insert(p, b)
    BY <2>1
    DEF CreateLookup, DetachKey, Insert, InsertRefused, InsertLost, OrderFailed, WorkerCrash
  <2>2. CASE \/ \E b \in Bookings, d \in Donations : SetDonation(p, b, d)
             \/ \E b \in Bookings, g \in Gateways : SetPaymentGateway(p, b, g)
             \/ \E b \in Bookings : SetCoupon(p, b) \/ ClearCoupon(p, b)
    BY <1>1, <2>2 DEF SetDonation, SetPaymentGateway, SetCoupon, ClearCoupon
  <2> QED
    BY <1>2, <2>1, <2>2 DEF WorkerStep
<1>3. CASE \/ \E b \in Bookings : CancelBooking(b) \/ ReleaseOneExpired(b) \/ ConfirmBooking(b)
           \/ Tick \/ UNCHANGED vars
  BY <1>3 DEF CancelBooking, ReleaseOneExpired, ConfirmBooking, Tick, vars
<1> QED
  BY <1>2, <1>3 DEF Next

LEMMA NextCounters ==
  TypeOK /\ CountersWithinCapacity /\ [Next]_vars => CountersWithinCapacity'
<1> SUFFICES ASSUME TypeOK, CountersWithinCapacity, [Next]_vars
             PROVE  CountersWithinCapacity'
  OBVIOUS
<1> USE DEF CountersWithinCapacity
<1>1. ASSUME NEW b \in Bookings, NEW t \in Tiers
      PROVE  tier[t] \in TierRow /\ book[b].items[t] \in Nat
  BY BasketType DEF TypeOK, RowsOK, Row
<1>2. ASSUME NEW b \in Bookings, NEW status \in Statuses, ReleaseHold(b, status)
      PROVE  CountersWithinCapacity'
  BY <1>1, <1>2, TierCounters DEF ReleaseHold
<1>3. ASSUME NEW p \in Workers, NEW b \in Bookings, Insert(p, b)
      PROVE  CountersWithinCapacity'
  <2>1. req[p].items \in [Tiers -> Nat]
    BY <1>3, ConstantsAssumption DEF Insert, TypeOK, WorkersOK
  <2> SUFFICES ASSUME NEW t \in Tiers
               PROVE  NoOversellCheck(Reserve(tier[t], req[p].items[t]))
    BY <1>3 DEF Insert
  <2>2. tier[t] \in TierRow /\ req[p].items[t] \in Nat
    BY <1>1, <2>1 DEF TypeOK, RowsOK
  <2>3. CASE req[p].items[t] = 0
    BY <2>2, <2>3 DEF NoOversellCheck, Reserve, TierRow
  <2>4. CASE req[p].items[t] > 0
    BY <1>3, <2>2, <2>4, TierCounters DEF Insert, CanReserveAll, CanReserve
  <2> QED
    BY <2>2, <2>3, <2>4
<1>4. ASSUME NEW p \in Workers, OrderFailed(p) PROVE CountersWithinCapacity'
  <2>1. mem[p].booking \in Bookings
    BY <1>4 DEF OrderFailed, TypeOK, WorkersOK, Carried
  <2> QED
    BY <1>2, <1>4, <2>1 DEF OrderFailed, Statuses, dbVars
<1>5. ASSUME NEW b \in Bookings, CancelBooking(b) \/ ReleaseOneExpired(b)
      PROVE  CountersWithinCapacity'
  BY <1>2, <1>5 DEF CancelBooking, ReleaseOneExpired, Statuses
<1>6. ASSUME NEW b \in Bookings, ConfirmBooking(b) PROVE CountersWithinCapacity'
  BY <1>1, <1>6, TierCounters DEF ConfirmBooking, ConfirmIssues
<1>7. CASE UNCHANGED tier
  BY <1>7
<1> QED
  BY <1>3, <1>4, <1>5, <1>6, <1>7, TierMoves DEF TierWritten

(* No interleaving, crash or stale save takes a tier past its capacity on  *)
(* its own counters: the CHECK `no_oversell` never has to fire.            *)
THEOREM NoOversell == Spec => []CountersWithinCapacity
<1>1. Init => CountersWithinCapacity
  BY ConstantsAssumption DEF Init, CountersWithinCapacity
<1> QED
  BY <1>1, TypeCorrect, NextCounters, PTL DEF Spec

-----------------------------------------------------------------------------
(* The order a booking names.                                              *)

OrderFits(b, row) ==
  row.order # NoOrder => /\ row.order \in DOMAIN orders
                         /\ orders[row.order] = [booking |-> b, amount |-> row.total]

(* A command that writes one row, and leaves the provider alone.           *)
LEMMA OneRowFits ==
  ASSUME TypeOK, OrderMatchesTotal, NEW b \in Bookings, NEW row,
         book' = [book EXCEPT ![b] = row], orders' = orders, OrderFits(b, row)
  PROVE  OrderMatchesTotal'
BY DEF TypeOK, RowsOK, OrderMatchesTotal, OrderFits

LEMMA ReleaseFits ==
  ASSUME TypeOK, OrderMatchesTotal, NEW b \in Bookings, NEW status \in Statuses,
         ReleaseHold(b, status), orders' = orders
  PROVE  OrderMatchesTotal'
<1>1. book' = [book EXCEPT ![b] = [book[b] EXCEPT !.status = status]]
  BY DEF ReleaseHold, TypeOK, RowsOK
<1>2. book[b] \in Row
  BY DEF TypeOK, RowsOK
<1>3. OrderFits(b, [book[b] EXCEPT !.status = status])
  BY <1>2 DEF OrderMatchesTotal, OrderFits, Row
<1> QED
  BY <1>1, <1>3, OneRowFits

LEMMA NextOrderFits ==
  TypeOK /\ OrderMatchesTotal /\ [Next]_vars => OrderMatchesTotal'
<1> SUFFICES ASSUME TypeOK, OrderMatchesTotal, [Next]_vars PROVE OrderMatchesTotal'
  OBVIOUS
<1>1. ASSUME NEW p \in Workers, DetachKey(p) PROVE OrderMatchesTotal'
  BY <1>1 DEF DetachKey, OrderMatchesTotal, TypeOK, RowsOK, Row
<1>2. ASSUME NEW p \in Workers, NEW b \in Bookings, Insert(p, b) PROVE OrderMatchesTotal'
  <2>1. OrderFits(b, NewRow(req[p]))
    BY DEF OrderFits, NewRow
  <2> QED
    BY <1>2, <2>1, OneRowFits DEF Insert
<1>3. ASSUME NEW p \in Workers, OrderCreated(p) PROVE OrderMatchesTotal'
  <2> DEFINE b   == mem[p].booking
             n   == Len(orders) + 1
             row == [mem[p].row EXCEPT !.order = n, !.gw = mem[p].gw]
  <2>1. mem[p] \in Carried /\ mem[p].row \in Row /\ b \in Bookings
    BY <1>3 DEF OrderCreated, TypeOK, WorkersOK, Carried
  <2>2. row.order = n /\ row.total = mem[p].row.total /\ row.total \in Int
    BY <2>1 DEF Row
  <2>3. /\ orders' = Append(orders, [booking |-> b, amount |-> row.total])
        /\ book' = book \/ book' = [book EXCEPT ![b] = row]
    BY <1>3 DEF OrderCreated
  <2>4. orders \in Seq([booking : Bookings, amount : Int])
    BY DEF TypeOK, RowsOK
  <2> HIDE DEF row, b
  <2>5. /\ n \in DOMAIN orders' /\ orders'[n] = [booking |-> b, amount |-> row.total]
        /\ \A i \in DOMAIN orders : i \in DOMAIN orders' /\ orders'[i] = orders[i]
    BY <2>1, <2>2, <2>3, <2>4
  <2> SUFFICES ASSUME NEW a \in Bookings, book'[a].order # NoOrder
               PROVE  /\ book'[a].order \in DOMAIN orders'
                      /\ orders'[book'[a].order] = [booking |-> a, amount |-> book'[a].total]
    BY DEF OrderMatchesTotal
  <2>6. book'[a] = book[a] \/ (a = b /\ book'[a] = row)
    BY <2>1, <2>3 DEF TypeOK, RowsOK
  <2>7. CASE book'[a] = book[a]
    BY <2>5, <2>7 DEF OrderMatchesTotal
  <2>8. CASE a = b /\ book'[a] = row
    BY <2>2, <2>5, <2>8
  <2> QED
    BY <2>6, <2>7, <2>8
<1>4. ASSUME NEW p \in Workers, OrderFailed(p) PROVE OrderMatchesTotal'
  <2>1. mem[p].booking \in Bookings
    BY <1>4 DEF OrderFailed, TypeOK, WorkersOK, Carried
  <2> QED
    BY <1>4, <2>1, ReleaseFits DEF OrderFailed, Statuses, dbVars, OrderMatchesTotal
<1>5. ASSUME NEW p \in Workers, NEW b \in Bookings, NEW d \in Donations,
             SetDonation(p, b, d)
      PROVE  OrderMatchesTotal'
  <2> DEFINE row == [book[b] EXCEPT !.donation = d, !.order = NoOrder,
                                    !.total = @ - book[b].donation + d]
  <2>1. OrderFits(b, book[b])
    BY DEF OrderMatchesTotal, OrderFits
  <2>2. row.order = NoOrder
    BY DEF TypeOK, RowsOK, Row
  <2>3. /\ orders' = orders
        /\ book' = [book EXCEPT ![b] = book[b]] \/ book' = [book EXCEPT ![b] = row]
    BY <1>5 DEF SetDonation, Reissue
  <2> HIDE DEF row
  <2> QED
    BY <2>1, <2>2, <2>3, OneRowFits DEF OrderFits
<1>6. ASSUME NEW p \in Workers, NEW b \in Bookings, NEW g \in Gateways,
             SetPaymentGateway(p, b, g)
      PROVE  OrderMatchesTotal'
  <2>1. PICK o \in {book[b].order, NoOrder} :
          book' = [book EXCEPT ![b] = [book[b] EXCEPT !.gw = g, !.order = o]]
    BY <1>6 DEF SetPaymentGateway, Reissue, TypeOK, RowsOK, Row
  <2>2. OrderFits(b, [book[b] EXCEPT !.gw = g, !.order = o])
    BY <2>1 DEF OrderMatchesTotal, OrderFits, TypeOK, RowsOK, Row
  <2> QED
    BY <1>6, <2>1, <2>2, OneRowFits DEF SetPaymentGateway, Reissue
<1>7. ASSUME NEW p \in Workers, NEW b \in Bookings, SetCoupon(p, b) \/ ClearCoupon(p, b)
      PROVE  OrderMatchesTotal'
  <2>1. \A d : Reprice(book[b], d).order = NoOrder
    BY DEF Reprice, TypeOK, RowsOK, Row
  <2> QED
    BY <1>7, <2>1, OneRowFits DEF SetCoupon, ClearCoupon, Reissue, OrderFits
<1>8. ASSUME NEW b \in Bookings, CancelBooking(b) \/ ReleaseOneExpired(b)
      PROVE  OrderMatchesTotal'
  BY <1>8, ReleaseFits DEF CancelBooking, ReleaseOneExpired, Statuses
<1>9. ASSUME NEW b \in Bookings, ConfirmBooking(b) PROVE OrderMatchesTotal'
  BY <1>9 DEF ConfirmBooking, ConfirmIssues, OrderMatchesTotal, TypeOK, RowsOK, Row
<1>10. CASE UNCHANGED <<book, orders>>
  BY <1>10 DEF OrderMatchesTotal
<1> QED
  BY <1>1, <1>2, <1>3, <1>4, <1>5, <1>6, <1>7, <1>8, <1>9, <1>10
  DEF Next, WorkerStep, CreateLookup, InsertRefused, InsertLost, WorkerCrash, Tick,
      vars, dbVars

(* The payment order a booking names was created for this booking and for  *)
(* its present total, although the order is created from a copy of the row *)
(* and saved without a lock: the amount check of the webhook never rejects *)
(* a payment of the order the checkout shows.                              *)
THEOREM OrderForTotal == Spec => []OrderMatchesTotal
<1>1. Init => OrderMatchesTotal
  BY DEF Init, NoRow, OrderMatchesTotal
<1> QED
  BY <1>1, TypeCorrect, NextOrderFits, PTL DEF Spec

-----------------------------------------------------------------------------
(* The invoice.  A waiting worker will save the row it carries, so the     *)
(* invariant is inductive only with those rows included.                   *)

InvoicesAddUp ==
  /\ TotalAddsUp
  /\ \A p \in Workers : pc[p] = "order" => AddsUp(mem[p].row)

LEMMA NewRowAddsUp ==
  ASSUME NEW r \in Requests
  PROVE  AddsUp(NewRow(r))
<1>1. Subtotal(r.items) \in Nat
  BY SubtotalType DEF Baskets
<1>2. /\ NewRow(r).items = r.items /\ NewRow(r).discount = 0
      /\ NewRow(r).fee = PlatformFee(Subtotal(r.items))
      /\ NewRow(r).donation = r.donation
      /\ NewRow(r).total = Subtotal(r.items) + PlatformFee(Subtotal(r.items)) + r.donation
  BY DEF NewRow
<1>3. Subtotal(r.items) - 0 = Subtotal(r.items)
  BY <1>1
<1> QED
  BY <1>1, <1>2, <1>3 DEF AddsUp

LEMMA RepriceAddsUp ==
  ASSUME NEW row \in Row, NEW d \in Nat, d <= Subtotal(row.items)
  PROVE  AddsUp(Reprice(row, d))
<1>1. Subtotal(row.items) \in Nat
  BY SubtotalType DEF Row
<1>2. \A f, s \in Int :
        LET new == [row EXCEPT !.discount = d, !.fee = f, !.total = s, !.order = 0] IN
        /\ new.items = row.items /\ new.discount = d /\ new.fee = f
        /\ new.donation = row.donation /\ new.total = s
  BY DEF Row
<1>3. PlatformFee(Subtotal(row.items) - d) \in Int
  BY <1>1, ConstantsAssumption DEF PlatformFee
<1>4. Subtotal(row.items) - d + PlatformFee(Subtotal(row.items) - d) + row.donation \in Int
  BY <1>1, <1>3 DEF Row
<1>5. /\ Reprice(row, d).items = row.items /\ Reprice(row, d).discount = d
      /\ Reprice(row, d).fee = PlatformFee(Subtotal(row.items) - d)
      /\ Reprice(row, d).donation = row.donation
      /\ Reprice(row, d).total =
           Subtotal(row.items) - d + PlatformFee(Subtotal(row.items) - d) + row.donation
  BY <1>2, <1>3, <1>4 DEF Reprice
<1> QED
  BY <1>1, <1>5 DEF AddsUp

(* A worker that goes on with a row that adds up carries one.              *)
LEMMA EnsureAddsUp ==
  ASSUME TypeOK, InvoicesAddUp, NEW p \in Workers, NEW b \in Bookings, NEW row,
         NEW release, NEW gateway, row.status = "reserved" => AddsUp(row),
         Ensure(p, b, row, release, gateway)
  PROVE  \A q \in Workers : pc'[q] = "order" => AddsUp(mem'[q].row)
BY DEF Ensure, GoIdle, InvoicesAddUp, TypeOK, WorkersOK

LEMMA GoIdleAddsUp ==
  ASSUME TypeOK, InvoicesAddUp, NEW p \in Workers, GoIdle(p)
  PROVE  \A q \in Workers : pc'[q] = "order" => AddsUp(mem'[q].row)
BY DEF GoIdle, InvoicesAddUp, TypeOK, WorkersOK

LEMMA ReleaseAddsUp ==
  ASSUME TypeOK, InvoicesAddUp, NEW b \in Bookings, NEW status \in Statuses,
         book[b].status = "reserved", ReleaseHold(b, status)
  PROVE  TotalAddsUp'
<1>1. book' = [book EXCEPT ![b] = [book[b] EXCEPT !.status = status]] /\ book[b] \in Row
  BY DEF ReleaseHold, TypeOK, RowsOK
<1>2. AddsUp([book[b] EXCEPT !.status = status])
  BY <1>1 DEF InvoicesAddUp, TotalAddsUp, AddsUp, Row
<1> QED
  BY <1>1, <1>2 DEF InvoicesAddUp, TotalAddsUp, TypeOK, RowsOK

LEMMA ReissueAddsUp ==
  ASSUME TypeOK, InvoicesAddUp, NEW p \in Workers, NEW b \in Bookings, NEW row \in Row,
         NEW gateway, AddsUp(row), Reissue(p, b, row, gateway)
  PROVE  InvoicesAddUp'
<1>1. TotalAddsUp'
  BY DEF Reissue, InvoicesAddUp, TotalAddsUp, TypeOK, RowsOK
<1>2. \A q \in Workers : pc'[q] = "order" => AddsUp(mem'[q].row)
  BY EnsureAddsUp DEF Reissue
<1> QED
  BY <1>1, <1>2 DEF InvoicesAddUp

LEMMA NextInvoices == TypeOK /\ InvoicesAddUp /\ [Next]_vars => InvoicesAddUp'
<1> SUFFICES ASSUME TypeOK, InvoicesAddUp, [Next]_vars PROVE InvoicesAddUp'
  OBVIOUS
<1>1. ASSUME NEW p \in Workers, NEW r \in Requests, CreateLookup(p, r)
      PROVE  InvoicesAddUp'
  <2>1. TotalAddsUp'
    BY <1>1 DEF CreateLookup, dbVars, InvoicesAddUp, TotalAddsUp
  <2>2. CASE \E b \in Bookings : Ensure(p, b, book[b], TRUE, r.gw)
    BY <2>1, <2>2, EnsureAddsUp DEF InvoicesAddUp, TotalAddsUp
  <2>3. CASE pc' = [pc EXCEPT ![p] = IF r.key = NoKey THEN "insert" ELSE "detach"]
             /\ UNCHANGED mem
    BY <2>1, <2>3 DEF InvoicesAddUp, TypeOK, WorkersOK
  <2> QED
    BY <1>1, <2>2, <2>3 DEF CreateLookup, Holder
<1>2. ASSUME NEW p \in Workers, DetachKey(p) PROVE InvoicesAddUp'
  <2>1. TotalAddsUp'
    <3> SUFFICES ASSUME NEW b \in Bookings, book'[b].status # "none"
                 PROVE  AddsUp(book'[b])
      BY DEF TotalAddsUp
    <3>1. book[b] \in Row
      BY DEF TypeOK, RowsOK
    <3>2. book'[b] = book[b] \/ book'[b] = [book[b] EXCEPT !.key = NoKey]
      BY <1>2 DEF DetachKey
    <3>3. AddsUp(book[b]) => AddsUp([book[b] EXCEPT !.key = NoKey])
      BY <3>1 DEF AddsUp, Row
    <3> QED
      BY <3>1, <3>2, <3>3 DEF InvoicesAddUp, TotalAddsUp, Row
  <2> QED
    BY <1>2, <2>1 DEF DetachKey, InvoicesAddUp, TypeOK, WorkersOK
<1>3. ASSUME NEW p \in Workers, NEW b \in Bookings, Insert(p, b) PROVE InvoicesAddUp'
  <2>1. AddsUp(NewRow(req[p]))
    BY <1>3, NewRowAddsUp DEF Insert, TypeOK, WorkersOK
  <2>2. TotalAddsUp'
    BY <1>3, <2>1 DEF Insert, InvoicesAddUp, TotalAddsUp, TypeOK, RowsOK
  <2> QED
    BY <1>3, <2>1, <2>2, EnsureAddsUp DEF Insert, InvoicesAddUp
<1>4. ASSUME NEW p \in Workers, InsertRefused(p) \/ WorkerCrash(p) PROVE InvoicesAddUp'
  <2>1. TotalAddsUp'
    BY <1>4 DEF InsertRefused, WorkerCrash, dbVars, InvoicesAddUp, TotalAddsUp
  <2> QED
    BY <1>4, <2>1, GoIdleAddsUp DEF InsertRefused, WorkerCrash, InvoicesAddUp
<1>5. ASSUME NEW p \in Workers, InsertLost(p) PROVE InvoicesAddUp'
  <2>1. TotalAddsUp'
    BY <1>5 DEF InsertLost, dbVars, InvoicesAddUp, TotalAddsUp
  <2>2. CASE \E b \in Bookings : Ensure(p, b, book[b], TRUE, req[p].gw)
    BY <2>1, <2>2, EnsureAddsUp DEF InvoicesAddUp, TotalAddsUp
  <2>3. CASE GoIdle(p)
    BY <2>1, <2>3, GoIdleAddsUp DEF InvoicesAddUp
  <2> QED
    BY <1>5, <2>2, <2>3 DEF InsertLost, Holder
<1>6. ASSUME NEW p \in Workers, OrderCreated(p) PROVE InvoicesAddUp'
  <2> DEFINE b   == mem[p].booking
             row == [mem[p].row EXCEPT !.order = Len(orders) + 1, !.gw = mem[p].gw]
  <2>1. mem[p].row \in Row /\ b \in Bookings /\ AddsUp(mem[p].row)
    BY <1>6 DEF OrderCreated, TypeOK, WorkersOK, Carried, InvoicesAddUp
  <2>2. AddsUp(row)
    BY <2>1 DEF AddsUp, Row
  <2>3. book' = book \/ book' = [book EXCEPT ![b] = row]
    BY <1>6 DEF OrderCreated
  <2> HIDE DEF row, b
  <2>4. TotalAddsUp'
    BY <2>1, <2>2, <2>3 DEF InvoicesAddUp, TotalAddsUp, TypeOK, RowsOK
  <2> QED
    BY <1>6, <2>4, GoIdleAddsUp DEF OrderCreated, InvoicesAddUp
<1>7. ASSUME NEW p \in Workers, OrderFailed(p) PROVE InvoicesAddUp'
  <2>1. mem[p].booking \in Bookings
    BY <1>7 DEF OrderFailed, TypeOK, WorkersOK, Carried
  <2>2. TotalAddsUp'
    BY <1>7, <2>1, ReleaseAddsUp
    DEF OrderFailed, Statuses, dbVars, InvoicesAddUp, TotalAddsUp
  <2> QED
    BY <1>7, <2>2, GoIdleAddsUp DEF OrderFailed, InvoicesAddUp
<1>8. ASSUME NEW p \in Workers, NEW b \in Bookings, NEW d \in Donations,
             SetDonation(p, b, d)
      PROVE  InvoicesAddUp'
  <2> DEFINE row == [book[b] EXCEPT !.donation = d, !.order = NoOrder,
                                    !.total = @ - book[b].donation + d]
  <2>1. book[b] \in Row /\ AddsUp(book[b]) /\ d \in Nat
    BY <1>8, ConstantsAssumption
    DEF SetDonation, Reissue, TypeOK, RowsOK, InvoicesAddUp, TotalAddsUp
  <2>2. book[b].total - book[b].donation + d \in Int
    BY <2>1 DEF Row
  <2>3. row \in Row /\ row.items = book[b].items /\ row.discount = book[b].discount
        /\ row.fee = book[b].fee /\ row.donation = d
        /\ row.total = book[b].total - book[b].donation + d
    BY <2>1, <2>2 DEF Row
  <2>4. Subtotal(book[b].items) \in Nat /\ book[b].fee \in Int /\ book[b].donation \in Nat
        /\ book[b].discount \in Int
    BY <2>1, SubtotalType DEF Row
  <2> HIDE DEF row
  <2>5. AddsUp(row)
    BY <2>1, <2>3, <2>4 DEF AddsUp
  <2>6. Reissue(p, b, book[b], DefaultGateway) \/ Reissue(p, b, row, DefaultGateway)
    BY <1>8 DEF SetDonation, row
  <2> QED
    BY <2>1, <2>3, <2>5, <2>6, ReissueAddsUp
<1>9. ASSUME NEW p \in Workers, NEW b \in Bookings, NEW g \in Gateways,
             SetPaymentGateway(p, b, g)
      PROVE  InvoicesAddUp'
  <2>1. book[b] \in Row /\ AddsUp(book[b])
    BY <1>9 DEF SetPaymentGateway, Reissue, TypeOK, RowsOK, InvoicesAddUp, TotalAddsUp
  <2>2. PICK o \in Nat : Reissue(p, b, [book[b] EXCEPT !.gw = g, !.order = o], g)
    BY <1>9, <2>1 DEF SetPaymentGateway, Row
  <2>3. /\ [book[b] EXCEPT !.gw = g, !.order = o] \in Row
        /\ AddsUp([book[b] EXCEPT !.gw = g, !.order = o])
    BY <2>1 DEF AddsUp, Row
  <2> QED
    BY <2>2, <2>3, ReissueAddsUp
<1>10. ASSUME NEW p \in Workers, NEW b \in Bookings, SetCoupon(p, b) PROVE InvoicesAddUp'
  <2>1. book[b] \in Row /\ book[b].items \in Baskets
    BY DEF TypeOK, RowsOK, Row
  <2>2. /\ Reprice(book[b], DiscountOn(Subtotal(book[b].items))) \in Row
        /\ AddsUp(Reprice(book[b], DiscountOn(Subtotal(book[b].items))))
    BY <2>1, DiscountRange, RepriceType, RepriceAddsUp
  <2> QED
    BY <1>10, <2>2, ReissueAddsUp DEF SetCoupon
<1>11. ASSUME NEW p \in Workers, NEW b \in Bookings, ClearCoupon(p, b) PROVE InvoicesAddUp'
  <2>1. book[b] \in Row /\ Subtotal(book[b].items) \in Nat
    BY SubtotalType DEF TypeOK, RowsOK, Row
  <2>2. Reprice(book[b], 0) \in Row /\ AddsUp(Reprice(book[b], 0))
    BY <2>1, RepriceType, RepriceAddsUp
  <2> QED
    BY <1>11, <2>2, ReissueAddsUp DEF ClearCoupon
<1>12. ASSUME NEW b \in Bookings, CancelBooking(b) \/ ReleaseOneExpired(b)
       PROVE  InvoicesAddUp'
  <2>1. TotalAddsUp'
    BY <1>12, ReleaseAddsUp DEF CancelBooking, ReleaseOneExpired, Statuses
  <2> QED
    BY <1>12, <2>1 DEF CancelBooking, ReleaseOneExpired, workerVars, InvoicesAddUp
<1>13. ASSUME NEW b \in Bookings, ConfirmBooking(b) PROVE InvoicesAddUp'
  <2>1. /\ book' = [book EXCEPT ![b] = [book[b] EXCEPT !.status = "paid"]]
        /\ book[b] \in Row /\ AddsUp(book[b])
    BY <1>13 DEF ConfirmBooking, ConfirmIssues, TypeOK, RowsOK, InvoicesAddUp, TotalAddsUp
  <2>2. AddsUp([book[b] EXCEPT !.status = "paid"])
    BY <2>1 DEF AddsUp, Row
  <2>3. TotalAddsUp'
    BY <2>1, <2>2 DEF InvoicesAddUp, TotalAddsUp, TypeOK, RowsOK
  <2> QED
    BY <1>13, <2>3 DEF ConfirmBooking, workerVars, InvoicesAddUp
<1>14. CASE Tick \/ UNCHANGED vars
  BY <1>14 DEF Tick, vars, dbVars, workerVars, InvoicesAddUp, TotalAddsUp
<1> QED
  BY <1>1, <1>2, <1>3, <1>4, <1>5, <1>6, <1>7, <1>8, <1>9, <1>10, <1>11, <1>12, <1>13,
     <1>14 DEF Next, WorkerStep

(* After any order of donation, gateway and coupon changes, lost updates   *)
(* and crashes, a booking's total is its lines minus its discount plus the *)
(* platform fee on that plus its donation, and is never negative before    *)
(* the fee.                                                                *)
THEOREM InvoiceAddsUp == Spec => []TotalAddsUp
<1>1. Init => InvoicesAddUp
  BY DEF Init, NoRow, InvoicesAddUp, TotalAddsUp
<1>2. InvoicesAddUp => TotalAddsUp
  BY DEF InvoicesAddUp
<1> QED
  BY <1>1, <1>2, TypeCorrect, NextInvoices, PTL DEF Spec

-----------------------------------------------------------------------------
(* One live hold per key.  DetachKey spares a live hold, so a live hold    *)
(* keeps the key it was created with, and the unique constraint does the   *)
(* rest - if the same is said of the rows the waiting workers will save.   *)

KeepsKey(key, row) ==
  row.status = "reserved" /\ row.expires > now /\ key # NoKey => row.key = key

RowsKeepKeys ==
  /\ \A a, b \in Bookings : a # b /\ book[a].key = book[b].key => book[a].key = NoKey
  /\ \A b \in Bookings : KeepsKey(minted[b], book[b])
  /\ \A b \in Bookings : book[b].status = "none" => book[b].key = NoKey

CopiesKeepKeys ==
  \A p \in Workers : pc[p] = "order" =>
    /\ book[mem[p].booking].status # "none"
    /\ mem[p].row.status = "reserved"
    /\ KeepsKey(minted[mem[p].booking], mem[p].row)

(* A row written in place, with its key and expiry and no livelier status. *)
LEMMA RewriteKeepsKeys ==
  ASSUME TypeOK, RowsKeepKeys, NEW b \in Bookings, NEW row \in Row,
         book' = [book EXCEPT ![b] = row], minted' = minted, now' = now,
         row.key = book[b].key, row.expires = book[b].expires,
         row.status = "reserved" => book[b].status = "reserved",
         row.status = "none" => book[b].status = "none"
  PROVE  RowsKeepKeys'
BY DEF RowsKeepKeys, KeepsKey, TypeOK, RowsOK

(* What the copies need from a step: no row is deleted, and a row that is  *)
(* there keeps the key it was created with.                                *)
RowsStay ==
  /\ now' = now
  /\ \A b \in Bookings : book[b].status # "none" =>
       book'[b].status # "none" /\ minted'[b] = minted[b]

LEMMA GoIdleKeepsKeys ==
  ASSUME TypeOK, CopiesKeepKeys, RowsStay, NEW p \in Workers, GoIdle(p) \/ UNCHANGED workerVars
  PROVE  CopiesKeepKeys'
BY DEF CopiesKeepKeys, KeepsKey, RowsStay, GoIdle, workerVars, TypeOK, WorkersOK, Carried

LEMMA EnsureKeepsKeys ==
  ASSUME TypeOK, CopiesKeepKeys, RowsStay, NEW p \in Workers, NEW b \in Bookings, NEW row,
         NEW release, NEW gateway, Ensure(p, b, row, release, gateway),
         book'[b].status # "none", row.status = "reserved" => KeepsKey(minted'[b], row)
  PROVE  CopiesKeepKeys'
<1>1. CASE row.order # NoOrder \/ row.status # "reserved"
  BY <1>1, GoIdleKeepsKeys DEF Ensure
<1>2. CASE ~(row.order # NoOrder \/ row.status # "reserved")
  <2> SUFFICES ASSUME NEW q \in Workers, pc'[q] = "order"
               PROVE  /\ book'[mem'[q].booking].status # "none"
                      /\ mem'[q].row.status = "reserved"
                      /\ KeepsKey(minted[mem[q].booking], mem[q].row)'
    BY DEF CopiesKeepKeys
  <2>1. CASE q = p
    <3>1. mem'[q].booking = b /\ mem'[q].row = row
      BY <1>2, <2>1 DEF Ensure, TypeOK, WorkersOK
    <3> QED
      BY <1>2, <3>1 DEF KeepsKey, RowsStay
  <2>2. CASE q # p
    <3>1. mem'[q] = mem[q] /\ pc[q] = "order" /\ mem[q].booking \in Bookings
      BY <1>2, <2>2 DEF Ensure, TypeOK, WorkersOK, Carried
    <3> QED
      BY <3>1 DEF CopiesKeepKeys, KeepsKey, RowsStay
  <2> QED
    BY <2>1, <2>2
<1> QED
  BY <1>1, <1>2

LEMMA ReleaseKeepsKeys ==
  ASSUME TypeOK, RowsKeepKeys, NEW b \in Bookings, NEW status \in Statuses \ {"none", "reserved"},
         ReleaseHold(b, status), now' = now
  PROVE  RowsKeepKeys' /\ RowsStay
<1>1. book' = [book EXCEPT ![b] = [book[b] EXCEPT !.status = status]] /\ book[b] \in Row
  BY DEF ReleaseHold, TypeOK, RowsOK
<1>2. [book[b] EXCEPT !.status = status] \in Row
  BY <1>1 DEF Row
<1>3. RowsKeepKeys'
  BY <1>1, <1>2, RewriteKeepsKeys DEF ReleaseHold, Row
<1> QED
  BY <1>1, <1>3 DEF RowsStay, ReleaseHold, TypeOK, RowsOK, Row

LEMMA ReissueKeepsKeys ==
  ASSUME TypeOK, RowsKeepKeys, CopiesKeepKeys, NEW p \in Workers, NEW b \in Bookings,
         NEW row \in Row, NEW gateway, Reissue(p, b, row, gateway),
         row.key = book[b].key, row.expires = book[b].expires, row.status = book[b].status
  PROVE  RowsKeepKeys' /\ CopiesKeepKeys'
<1>1. RowsKeepKeys'
  BY RewriteKeepsKeys DEF Reissue
<1>2. RowsStay /\ book'[b] = row
  BY DEF Reissue, RowsStay, TypeOK, RowsOK
<1>3. KeepsKey(minted'[b], row)
  BY <1>1, <1>2 DEF RowsKeepKeys, KeepsKey, RowsStay
<1>4. book'[b].status # "none"
  BY <1>2 DEF Reissue
<1>5. CopiesKeepKeys'
  BY <1>2, <1>3, <1>4, EnsureKeepsKeys DEF Reissue
<1> QED
  BY <1>1, <1>5

LEMMA NextKeys ==
  TypeOK /\ RowsKeepKeys /\ CopiesKeepKeys /\ [Next]_vars => RowsKeepKeys' /\ CopiesKeepKeys'
<1> SUFFICES ASSUME TypeOK, RowsKeepKeys, CopiesKeepKeys, [Next]_vars
             PROVE  RowsKeepKeys' /\ CopiesKeepKeys'
  OBVIOUS
<1>1. ASSUME UNCHANGED <<now, book, minted>> PROVE RowsKeepKeys' /\ RowsStay
  BY <1>1 DEF RowsKeepKeys, KeepsKey, RowsStay
<1>2. ASSUME NEW p \in Workers, NEW r \in Requests, CreateLookup(p, r)
      PROVE  RowsKeepKeys' /\ CopiesKeepKeys'
  <2>1. RowsKeepKeys' /\ RowsStay /\ UNCHANGED <<now, book, minted>>
    BY <1>1, <1>2 DEF CreateLookup, dbVars
  <2>2. ASSUME NEW b \in Bookings, Replayable(b), Ensure(p, b, book[b], TRUE, r.gw)
        PROVE  CopiesKeepKeys'
    BY <2>1, <2>2, EnsureKeepsKeys DEF Replayable, RowsKeepKeys, KeepsKey
  <2>3. CASE pc' = [pc EXCEPT ![p] = IF r.key = NoKey THEN "insert" ELSE "detach"]
             /\ UNCHANGED mem
    BY <2>1, <2>3 DEF CopiesKeepKeys, KeepsKey, TypeOK, WorkersOK
  <2> QED
    BY <1>2, <2>1, <2>2, <2>3 DEF CreateLookup, Holder
<1>3. ASSUME NEW p \in Workers, DetachKey(p) PROVE RowsKeepKeys' /\ CopiesKeepKeys'
  <2> DEFINE dead == {b \in Holder(req[p].key) : ~Replayable(b)}
  <2>1. \A b \in Bookings : book'[b] = IF b \in dead THEN [book[b] EXCEPT !.key = NoKey]
                                                     ELSE book[b]
    BY <1>3 DEF DetachKey
  <2>2. \A b \in Bookings : /\ book'[b].status = book[b].status
                            /\ book'[b].expires = book[b].expires
                            /\ book'[b].key = IF b \in dead THEN NoKey ELSE book[b].key
    BY <2>1 DEF TypeOK, RowsOK, Row
  <2>3. \A b \in dead : ~(book[b].status = "reserved" /\ book[b].expires > now)
    BY DEF Replayable
  <2> HIDE DEF dead
  <2>4. RowsKeepKeys'
    BY <1>3, <2>2, <2>3 DEF DetachKey, RowsKeepKeys, KeepsKey
  <2>5. CopiesKeepKeys'
    BY <1>3, <2>2 DEF DetachKey, CopiesKeepKeys, KeepsKey, TypeOK, WorkersOK, Carried
  <2> QED
    BY <2>4, <2>5
<1>4. ASSUME NEW p \in Workers, NEW b \in Bookings, Insert(p, b)
      PROVE  RowsKeepKeys' /\ CopiesKeepKeys'
  <2> DEFINE row == NewRow(req[p])
  <2>1. row.status = "reserved" /\ row.key = req[p].key
    BY DEF NewRow
  <2>2. /\ book' = [book EXCEPT ![b] = row] /\ minted' = [minted EXCEPT ![b] = req[p].key]
        /\ book[b].status = "none" /\ now' = now
        /\ ~KeyTaken(req[p].key) /\ Ensure(p, b, row, TRUE, req[p].gw)
    BY <1>4 DEF Insert
  <2> HIDE DEF row
  <2>3. RowsKeepKeys'
    BY <2>1, <2>2 DEF RowsKeepKeys, KeepsKey, KeyTaken, Holder, TypeOK, RowsOK
  <2>4. RowsStay
    BY <2>1, <2>2 DEF RowsStay, TypeOK, RowsOK
  <2>5. KeepsKey(minted'[b], row) /\ book'[b].status # "none"
    BY <2>1, <2>2 DEF KeepsKey, TypeOK, RowsOK
  <2> QED
    BY <2>2, <2>3, <2>4, <2>5, EnsureKeepsKeys
<1>5. ASSUME NEW p \in Workers, InsertRefused(p) \/ WorkerCrash(p)
      PROVE  RowsKeepKeys' /\ CopiesKeepKeys'
  BY <1>1, <1>5, GoIdleKeepsKeys DEF InsertRefused, WorkerCrash, dbVars
<1>6. ASSUME NEW p \in Workers, InsertLost(p) PROVE RowsKeepKeys' /\ CopiesKeepKeys'
  <2>1. RowsKeepKeys' /\ RowsStay /\ UNCHANGED <<now, book, minted>>
    BY <1>1, <1>6 DEF InsertLost, dbVars
  <2>2. ASSUME NEW b \in Bookings, Replayable(b), Ensure(p, b, book[b], TRUE, req[p].gw)
        PROVE  CopiesKeepKeys'
    BY <2>1, <2>2, EnsureKeepsKeys DEF Replayable, RowsKeepKeys, KeepsKey
  <2>3. CASE GoIdle(p)
    BY <2>1, <2>3, GoIdleKeepsKeys
  <2> QED
    BY <1>6, <2>1, <2>2, <2>3 DEF InsertLost, Holder
<1>7. ASSUME NEW p \in Workers, OrderCreated(p) PROVE RowsKeepKeys' /\ CopiesKeepKeys'
  <2> DEFINE b   == mem[p].booking
             row == [mem[p].row EXCEPT !.order = Len(orders) + 1, !.gw = mem[p].gw]
  <2>1. /\ mem[p].row \in Row /\ b \in Bookings /\ book[b].status # "none"
        /\ mem[p].row.status = "reserved" /\ KeepsKey(minted[b], mem[p].row)
    BY <1>7 DEF OrderCreated, TypeOK, WorkersOK, Carried, CopiesKeepKeys
  <2>2. row.status = "reserved" /\ row.key = mem[p].row.key /\ row.expires = mem[p].row.expires
    BY <2>1 DEF Row
  <2>3. /\ book' = IF row.key # NoKey /\ Holder(row.key) \ {b} # {}
                   THEN book ELSE [book EXCEPT ![b] = row]
        /\ UNCHANGED <<now, minted>> /\ GoIdle(p)
    BY <1>7 DEF OrderCreated
  <2> HIDE DEF row, b
  <2>4. KeepsKey(minted[b], row)
    BY <2>1, <2>2 DEF KeepsKey
  <2>5. RowsStay
    BY <2>1, <2>2, <2>3 DEF RowsStay, TypeOK, RowsOK
  <2>6. CASE book' = book
    BY <1>1, <2>3, <2>5, <2>6, GoIdleKeepsKeys
  <2>7. CASE /\ book' = [book EXCEPT ![b] = row]
             /\ row.key = NoKey \/ Holder(row.key) \ {b} = {}
    <3>1. RowsKeepKeys'
      BY <2>1, <2>2, <2>3, <2>4, <2>7 DEF RowsKeepKeys, KeepsKey, Holder, TypeOK, RowsOK
    <3> QED
      BY <2>3, <2>5, <3>1, GoIdleKeepsKeys
  <2> QED
    BY <2>3, <2>6, <2>7
<1>8. ASSUME NEW p \in Workers, OrderFailed(p) PROVE RowsKeepKeys' /\ CopiesKeepKeys'
  <2>1. mem[p].booking \in Bookings
    BY <1>8 DEF OrderFailed, TypeOK, WorkersOK, Carried
  <2>2. RowsKeepKeys' /\ RowsStay
    BY <1>1, <1>8, <2>1, ReleaseKeepsKeys DEF OrderFailed, Statuses, dbVars
  <2> QED
    BY <1>8, <2>2, GoIdleKeepsKeys DEF OrderFailed
<1>9. ASSUME NEW p \in Workers, NEW b \in Bookings, NEW d \in Donations,
             SetDonation(p, b, d)
      PROVE  RowsKeepKeys' /\ CopiesKeepKeys'
  <2>1. book[b] \in Row /\ d \in Nat
    BY ConstantsAssumption DEF TypeOK, RowsOK
  <2>2. book[b].total - book[b].donation + d \in Int
    BY <2>1 DEF Row
  <2> DEFINE row == [book[b] EXCEPT !.donation = d, !.order = NoOrder,
                                    !.total = @ - book[b].donation + d]
  <2>3. /\ row \in Row /\ row.key = book[b].key
        /\ row.expires = book[b].expires /\ row.status = book[b].status
    BY <2>1, <2>2 DEF Row
  <2>4. Reissue(p, b, book[b], DefaultGateway) \/ Reissue(p, b, row, DefaultGateway)
    BY <1>9 DEF SetDonation
  <2> HIDE DEF row
  <2> QED
    BY <2>1, <2>3, <2>4, ReissueKeepsKeys
<1>10. ASSUME NEW p \in Workers, NEW b \in Bookings, NEW g \in Gateways,
              SetPaymentGateway(p, b, g)
       PROVE  RowsKeepKeys' /\ CopiesKeepKeys'
  <2>1. book[b] \in Row
    BY DEF TypeOK, RowsOK
  <2>2. PICK o \in Nat : Reissue(p, b, [book[b] EXCEPT !.gw = g, !.order = o], g)
    BY <1>10, <2>1 DEF SetPaymentGateway, Row
  <2>3. LET row == [book[b] EXCEPT !.gw = g, !.order = o] IN
        /\ row \in Row /\ row.key = book[b].key
        /\ row.expires = book[b].expires /\ row.status = book[b].status
    BY <2>1 DEF Row
  <2> QED
    BY <2>2, <2>3, ReissueKeepsKeys
<1>11. ASSUME NEW p \in Workers, NEW b \in Bookings, SetCoupon(p, b) \/ ClearCoupon(p, b)
       PROVE  RowsKeepKeys' /\ CopiesKeepKeys'
  <2>1. book[b] \in Row /\ book[b].items \in Baskets
    BY DEF TypeOK, RowsOK, Row
  <2>2. PICK d \in Int : Reissue(p, b, Reprice(book[b], d), DefaultGateway)
    BY <1>11, <2>1, DiscountRange DEF SetCoupon, ClearCoupon
  <2>3. /\ Reprice(book[b], d) \in Row
        /\ Reprice(book[b], d).key = book[b].key
        /\ Reprice(book[b], d).expires = book[b].expires
        /\ Reprice(book[b], d).status = book[b].status
    BY <2>1, RepriceType DEF Reprice, Row
  <2> QED
    BY <2>2, <2>3, ReissueKeepsKeys
<1>12. ASSUME NEW b \in Bookings, CancelBooking(b) \/ ReleaseOneExpired(b)
       PROVE  RowsKeepKeys' /\ CopiesKeepKeys'
  <2>1. RowsKeepKeys' /\ RowsStay /\ UNCHANGED workerVars
    BY <1>12, ReleaseKeepsKeys DEF CancelBooking, ReleaseOneExpired, Statuses
  <2> QED
    BY <2>1 DEF workerVars, CopiesKeepKeys, KeepsKey, RowsStay, TypeOK, WorkersOK, Carried
<1>13. ASSUME NEW b \in Bookings, ConfirmBooking(b) PROVE RowsKeepKeys' /\ CopiesKeepKeys'
  <2>1. /\ book' = [book EXCEPT ![b] = [book[b] EXCEPT !.status = "paid"]] /\ book[b] \in Row
        /\ UNCHANGED <<now, minted, workerVars>>
    BY <1>13 DEF ConfirmBooking, ConfirmIssues, TypeOK, RowsOK
  <2>2. [book[b] EXCEPT !.status = "paid"] \in Row
    BY <2>1 DEF Row, Statuses
  <2>3. RowsKeepKeys'
    BY <2>1, <2>2, RewriteKeepsKeys DEF Row
  <2>4. RowsStay
    BY <2>1 DEF RowsStay, TypeOK, RowsOK, Row
  <2> QED
    BY <2>1, <2>3, <2>4 DEF workerVars, CopiesKeepKeys, KeepsKey, RowsStay, TypeOK, WorkersOK,
                            Carried
<1>14. CASE Tick
  <2>1. now \in Nat /\ now' = now + 1 /\ UNCHANGED <<book, minted, pc, mem>>
    BY <1>14 DEF Tick, dbVars, workerVars, TypeOK, RowsOK
  <2>2. \A key, row : row.expires \in Nat /\ KeepsKey(key, row) => KeepsKey(key, row)'
    BY <2>1 DEF KeepsKey
  <2>3. \A b \in Bookings : book[b].expires \in Nat
    BY DEF TypeOK, RowsOK, Row
  <2>4. \A p \in Workers : pc[p] = "order" => mem[p].row.expires \in Nat
    BY DEF TypeOK, WorkersOK, Carried, Row
  <2> QED
    BY <2>1, <2>2, <2>3, <2>4 DEF RowsKeepKeys, CopiesKeepKeys, KeepsKey
<1>15. CASE UNCHANGED vars
  BY <1>15 DEF vars, dbVars, workerVars, RowsKeepKeys, CopiesKeepKeys, KeepsKey
<1> QED
  BY <1>2, <1>3, <1>4, <1>5, <1>6, <1>7, <1>8, <1>9, <1>10, <1>11, <1>12, <1>13, <1>14, <1>15
  DEF Next, WorkerStep

LEMMA KeysAreKept == Spec => [](RowsKeepKeys /\ CopiesKeepKeys)
<1>1. Init => RowsKeepKeys /\ CopiesKeepKeys
  BY DEF Init, NoRow, RowsKeepKeys, CopiesKeepKeys, KeepsKey
<1> QED
  BY <1>1, TypeCorrect, NextKeys, PTL DEF Spec

(* Whatever creates with one idempotency key interleave, and whatever      *)
(* stale copies are saved over the rows, two bookings created with the     *)
(* same key are never live holds together.                                 *)
THEOREM OneHoldPerKey == Spec => []OneLiveHoldPerKey
<1>1. TypeOK /\ RowsKeepKeys => OneLiveHoldPerKey
  BY DEF RowsKeepKeys, KeepsKey, OneLiveHoldPerKey
<1> QED
  BY <1>1, TypeCorrect, KeysAreKept, PTL

-----------------------------------------------------------------------------
(* Seats, tickets and codes, proved for Overlap = FALSE: no row changes    *)
(* while the call that creates its payment order is open.  With overlap    *)
(* they are false (the stale copy is saved over the row), which is what    *)
(* the violation run of MCBooking shows.                                   *)

(* Nobody touches a row while its order call is open: Overlap = FALSE.     *)
(* The invariant is that a waiting worker's copy IS the row, and that no   *)
(* two workers wait with the same booking.                                 *)

CopyIsCurrent ==
  /\ \A p \in Workers : pc[p] = "order" =>
       mem[p].row = book[mem[p].booking] /\ mem[p].row.status = "reserved"
  /\ \A p, q \in Workers :
       pc[p] = "order" /\ pc[q] = "order" /\ mem[p].booking = mem[q].booking => p = q

(* Whoever still waits after the step waited before it, and his row is as  *)
(* it was.                                                                 *)
LEMMA WaitersStayCurrent ==
  ASSUME TypeOK, CopyIsCurrent,
         \A q \in Workers : pc'[q] = "order" =>
           /\ pc[q] = "order" /\ mem'[q] = mem[q]
           /\ book'[mem[q].booking] = book[mem[q].booking]
  PROVE  CopyIsCurrent'
BY DEF CopyIsCurrent

LEMMA EnsureCurrent ==
  ASSUME TypeOK, CopyIsCurrent, NEW p \in Workers, NEW b \in Bookings, NEW row,
         NEW release, NEW gateway, Ensure(p, b, row, release, gateway), row = book'[b],
         \A q \in Workers : pc[q] = "order" => mem[q].booking # b,
         \A a \in Bookings : a # b => book'[a] = book[a]
  PROVE  CopyIsCurrent'
<1> USE DEF TypeOK, WorkersOK, Carried
<1>1. CASE row.order # NoOrder \/ row.status # "reserved"
  BY <1>1, WaitersStayCurrent DEF Ensure, GoIdle, TypeOK, WorkersOK
<1>2. CASE ~(row.order # NoOrder \/ row.status # "reserved")
  <2>1. /\ pc'[p] = "order" /\ mem'[p].booking = b /\ mem'[p].row = row
        /\ \A q \in Workers \ {p} : pc'[q] = pc[q] /\ mem'[q] = mem[q]
    BY <1>2 DEF Ensure, TypeOK, WorkersOK
  <2> QED
    BY <1>2, <2>1 DEF CopyIsCurrent
<1> QED
  BY <1>1, <1>2

LEMMA ReissueCurrent ==
  ASSUME ~Overlap, TypeOK, CopyIsCurrent, NEW p \in Workers, NEW b \in Bookings, NEW row,
         NEW gateway, Reissue(p, b, row, gateway)
  PROVE  CopyIsCurrent'
<1>1. /\ book' = [book EXCEPT ![b] = row] /\ Ensure(p, b, row, FALSE, gateway)
      /\ \A q \in Workers : pc[q] = "order" => mem[q].booking # b
  BY DEF Reissue, Undisturbed
<1>2. row = book'[b] /\ \A a \in Bookings : a # b => book'[a] = book[a]
  BY <1>1 DEF TypeOK, RowsOK
<1> QED
  BY <1>1, <1>2, EnsureCurrent

LEMMA NextCurrent ==
  ASSUME ~Overlap, TypeOK, CopyIsCurrent, [Next]_vars
  PROVE  CopyIsCurrent'
<1>1. ASSUME NEW p \in Workers, NEW b \in Bookings, NEW gateway, NEW release,
             Undisturbed(b), Ensure(p, b, book[b], release, gateway), book' = book
      PROVE  CopyIsCurrent'
  BY <1>1, EnsureCurrent DEF Undisturbed
<1>2. ASSUME NEW p \in Workers, NEW r \in Requests, CreateLookup(p, r) PROVE CopyIsCurrent'
  <2>1. CASE pc' = [pc EXCEPT ![p] = IF r.key = NoKey THEN "insert" ELSE "detach"]
             /\ UNCHANGED <<mem, book>>
    BY <2>1, WaitersStayCurrent DEF TypeOK, WorkersOK
  <2> QED
    BY <1>1, <1>2, <2>1 DEF CreateLookup, Holder, dbVars
<1>3. ASSUME NEW p \in Workers, DetachKey(p) PROVE CopyIsCurrent'
  <2>1. \A q \in Workers : pc'[q] = "order" => pc[q] = "order" /\ mem'[q] = mem[q]
    BY <1>3 DEF DetachKey, TypeOK, WorkersOK
  <2>2. \A q \in Workers : pc[q] = "order" => book'[mem[q].booking] = book[mem[q].booking]
    BY <1>3 DEF DetachKey, Undisturbed, TypeOK, WorkersOK, Carried
  <2> QED
    BY <2>1, <2>2, WaitersStayCurrent
<1>4. ASSUME NEW p \in Workers, NEW b \in Bookings, Insert(p, b) PROVE CopyIsCurrent'
  <2>1. \A q \in Workers : pc[q] = "order" => mem[q].booking # b
    BY <1>4 DEF Insert, CopyIsCurrent
  <2> DEFINE row == NewRow(req[p])
  <2>2. book' = [book EXCEPT ![b] = row] /\ Ensure(p, b, row, TRUE, req[p].gw)
    BY <1>4 DEF Insert
  <2> HIDE DEF row
  <2>3. row = book'[b] /\ \A a \in Bookings : a # b => book'[a] = book[a]
    BY <2>2 DEF TypeOK, RowsOK
  <2> QED
    BY <2>1, <2>2, <2>3, EnsureCurrent
<1>5. ASSUME NEW p \in Workers, InsertRefused(p) \/ WorkerCrash(p) PROVE CopyIsCurrent'
  BY <1>5, WaitersStayCurrent
  DEF InsertRefused, WorkerCrash, GoIdle, dbVars, TypeOK, WorkersOK
<1>6. ASSUME NEW p \in Workers, InsertLost(p) PROVE CopyIsCurrent'
  <2>1. CASE GoIdle(p) /\ book' = book
    BY <2>1, WaitersStayCurrent DEF GoIdle, TypeOK, WorkersOK
  <2> QED
    BY <1>1, <1>6, <2>1 DEF InsertLost, Holder, dbVars
<1>7. ASSUME NEW p \in Workers, OrderCreated(p) \/ OrderFailed(p) PROVE CopyIsCurrent'
  <2>1. GoIdle(p) /\ pc[p] = "order"
    BY <1>7 DEF OrderCreated, OrderFailed
  <2>2. \A q \in Workers : pc'[q] = "order" => q # p /\ pc[q] = "order" /\ mem'[q] = mem[q]
    BY <2>1 DEF GoIdle, TypeOK, WorkersOK
  <2>3. \A b \in Bookings : b # mem[p].booking => book'[b] = book[b]
    <3>1. mem[p].booking \in Bookings
      BY <2>1 DEF TypeOK, WorkersOK, Carried
    <3>2. \E row : book' = [book EXCEPT ![mem[p].booking] = row] \/ book' = book
      BY <1>7 DEF OrderCreated, OrderFailed, ReleaseHold, dbVars
    <3> QED
      BY <3>1, <3>2 DEF TypeOK, RowsOK
  <2>4. \A q \in Workers : q # p /\ pc[q] = "order" =>
          mem[q].booking \in Bookings /\ mem[q].booking # mem[p].booking
    BY <2>1 DEF CopyIsCurrent, TypeOK, WorkersOK, Carried
  <2> QED
    BY <2>2, <2>3, <2>4, WaitersStayCurrent
<1>8. ASSUME NEW p \in Workers, NEW b \in Bookings,
             \/ \E d \in Donations : SetDonation(p, b, d)
             \/ \E g \in Gateways : SetPaymentGateway(p, b, g)
             \/ SetCoupon(p, b) \/ ClearCoupon(p, b)
      PROVE  CopyIsCurrent'
  <2>1. PICK row, gateway : Reissue(p, b, row, gateway)
    BY <1>8 DEF SetDonation, SetPaymentGateway, SetCoupon, ClearCoupon
  <2> QED
    BY <2>1, ReissueCurrent
<1>9. ASSUME NEW b \in Bookings, CancelBooking(b) \/ ReleaseOneExpired(b) \/ ConfirmBooking(b)
      PROVE  CopyIsCurrent'
  <2>1. Undisturbed(b) /\ UNCHANGED workerVars
    BY <1>9 DEF CancelBooking, ReleaseOneExpired, ConfirmBooking
  <2>2. \A a \in Bookings : a # b => book'[a] = book[a]
    BY <1>9 DEF CancelBooking, ReleaseOneExpired, ConfirmBooking, ReleaseHold, ConfirmIssues,
                TypeOK, RowsOK
  <2> QED
    BY <2>1, <2>2, WaitersStayCurrent DEF Undisturbed, workerVars, TypeOK, WorkersOK, Carried
<1>10. CASE Tick \/ UNCHANGED vars
  BY <1>10, WaitersStayCurrent DEF Tick, vars, dbVars, workerVars
<1> QED
  BY <1>2, <1>3, <1>4, <1>5, <1>6, <1>7, <1>8, <1>9, <1>10 DEF Next, WorkerStep

LEMMA Quiet == ASSUME ~Overlap PROVE Spec => [](TypeOK /\ CopyIsCurrent)
<1>1. Init => CopyIsCurrent
  BY DEF Init, CopyIsCurrent
<1>2. TypeOK /\ CopyIsCurrent /\ [Next]_vars => CopyIsCurrent'
  BY NextCurrent
<1> QED
  BY <1>1, <1>2, TypeCorrect, PTL DEF Spec

(* What a step does to the seats and the code of a booking, when the copy  *)
(* that OrderCreated saves is the row.                                     *)
KeepsSeats ==
  /\ UNCHANGED <<tier, tickets, redeemed>>
  /\ \A b \in Bookings : /\ book'[b].status = book[b].status
                         /\ book'[b].items = book[b].items
                         /\ book'[b].discount = book[b].discount

ReleasesHold(b) ==
  \E status \in {"cancelled", "expired"} : book[b].status = "reserved" /\ ReleaseHold(b, status)

LEMMA QuietStep ==
  ASSUME TypeOK, CopyIsCurrent, [Next]_vars
  PROVE  \/ KeepsSeats
         \/ \E p \in Workers, b \in Bookings :
              Insert(p, b) \/ SetCoupon(p, b) \/ ClearCoupon(p, b)
         \/ \E b \in Bookings : ReleasesHold(b) \/ ConfirmIssues(b)
<1>1. ASSUME UNCHANGED dbVars PROVE KeepsSeats
  BY <1>1 DEF dbVars, KeepsSeats
<1>2. ASSUME NEW p \in Workers, DetachKey(p) PROVE KeepsSeats
  <2>1. \A b \in Bookings : book'[b] = book[b] \/ book'[b] = [book[b] EXCEPT !.key = NoKey]
    BY <1>2 DEF DetachKey
  <2> QED
    BY <1>2, <2>1 DEF DetachKey, KeepsSeats, TypeOK, RowsOK, Row
<1>3. ASSUME NEW p \in Workers, OrderCreated(p) PROVE KeepsSeats
  <2> DEFINE b   == mem[p].booking
             row == [mem[p].row EXCEPT !.order = Len(orders) + 1, !.gw = mem[p].gw]
  <2>1. b \in Bookings /\ mem[p].row = book[b] /\ book[b] \in Row
    BY <1>3 DEF OrderCreated, CopyIsCurrent, TypeOK, WorkersOK, RowsOK, Carried
  <2>2. row.status = book[b].status /\ row.items = book[b].items
        /\ row.discount = book[b].discount
    BY <2>1 DEF Row
  <2>3. /\ book' = book \/ book' = [book EXCEPT ![b] = row]
        /\ UNCHANGED <<tier, tickets, redeemed>>
    BY <1>3 DEF OrderCreated
  <2> HIDE DEF b, row
  <2> QED
    BY <2>1, <2>2, <2>3 DEF KeepsSeats, TypeOK, RowsOK
<1>4. ASSUME NEW p \in Workers, OrderFailed(p)
      PROVE  KeepsSeats \/ \E b \in Bookings : ReleasesHold(b)
  <2>1. mem[p].booking \in Bookings
    BY <1>4 DEF OrderFailed, TypeOK, WorkersOK, Carried
  <2> QED
    BY <1>1, <1>4, <2>1 DEF OrderFailed, ReleasesHold
<1>5. ASSUME NEW p \in Workers, NEW b \in Bookings, NEW row \in Row, NEW gateway,
             Reissue(p, b, row, gateway), redeemed' = redeemed,
             row.status = book[b].status, row.items = book[b].items,
             row.discount = book[b].discount
      PROVE  KeepsSeats
  BY <1>5 DEF Reissue, KeepsSeats, TypeOK, RowsOK
<1>6. ASSUME NEW p \in Workers, NEW b \in Bookings, NEW d \in Donations,
             SetDonation(p, b, d)
      PROVE  KeepsSeats
  <2>1. book[b] \in Row /\ d \in Nat
    BY ConstantsAssumption DEF TypeOK, RowsOK
  <2>2. book[b].total - book[b].donation + d \in Int
    BY <2>1 DEF Row
  <2> DEFINE row == [book[b] EXCEPT !.donation = d, !.order = NoOrder,
                                    !.total = @ - book[b].donation + d]
  <2>3. /\ row \in Row /\ row.status = book[b].status
        /\ row.items = book[b].items /\ row.discount = book[b].discount
    BY <2>1, <2>2 DEF Row
  <2>4. Reissue(p, b, book[b], DefaultGateway) \/ Reissue(p, b, row, DefaultGateway)
    BY <1>6 DEF SetDonation
  <2> HIDE DEF row
  <2> QED
    BY <1>5, <1>6, <2>1, <2>3, <2>4 DEF SetDonation
<1>7. ASSUME NEW p \in Workers, NEW b \in Bookings, NEW g \in Gateways,
             SetPaymentGateway(p, b, g)
      PROVE  KeepsSeats
  <2>1. book[b] \in Row
    BY DEF TypeOK, RowsOK
  <2>2. PICK o \in Nat : Reissue(p, b, [book[b] EXCEPT !.gw = g, !.order = o], g)
    BY <1>7, <2>1 DEF SetPaymentGateway, Row
  <2>3. LET row == [book[b] EXCEPT !.gw = g, !.order = o] IN
        /\ row \in Row /\ row.status = book[b].status
        /\ row.items = book[b].items /\ row.discount = book[b].discount
    BY <2>1 DEF Row
  <2> QED
    BY <1>5, <1>7, <2>2, <2>3 DEF SetPaymentGateway
<1> QED
  BY <1>1, <1>2, <1>3, <1>4, <1>6, <1>7
  DEF Next, WorkerStep, CreateLookup, InsertRefused, InsertLost, WorkerCrash, CancelBooking,
      ReleaseOneExpired, ConfirmBooking, ReleasesHold, Tick, vars, dbVars

(* A change of the code rewrites the price of one live hold.               *)
LEMMA CouponStep ==
  ASSUME TypeOK, NEW p \in Workers, NEW b \in Bookings, SetCoupon(p, b) \/ ClearCoupon(p, b)
  PROVE  /\ UNCHANGED <<tier, tickets>> /\ book[b].status = "reserved"
         /\ \A a \in Bookings : /\ book'[a].status = book[a].status
                                /\ book'[a].items = book[a].items
                                /\ a # b => book'[a].discount = book[a].discount
         /\ SetCoupon(p, b) => book'[b].discount = DiscountOn(Subtotal(book[b].items))
         /\ ClearCoupon(p, b) => book'[b].discount = 0
<1>1. book[b] \in Row
  BY DEF TypeOK, RowsOK
<1>2. \A d : /\ Reprice(book[b], d).status = book[b].status
             /\ Reprice(book[b], d).items = book[b].items
             /\ Reprice(book[b], d).discount = d
  BY <1>1 DEF Reprice, Row
<1>3. \A d : Reissue(p, b, Reprice(book[b], d), DefaultGateway) =>
        /\ UNCHANGED <<tier, tickets>> /\ book[b].status = "reserved"
        /\ book' = [book EXCEPT ![b] = Reprice(book[b], d)]
  BY DEF Reissue
<1> QED
  BY <1>2, <1>3 DEF SetCoupon, ClearCoupon, TypeOK, RowsOK

-----------------------------------------------------------------------------
(* The rows before and after a step, seen through status and seats.        *)

LEMMA InsertRows ==
  ASSUME TypeOK, NEW p \in Workers, NEW b \in Bookings, Insert(p, b)
  PROVE  /\ req[p] \in Requests /\ req[p].items \in [Tiers -> Nat]
         /\ book[b].status = "none" /\ book'[b] = NewRow(req[p])
         /\ book'[b].status = "reserved" /\ book'[b].items = req[p].items
         /\ book'[b].discount = 0
         /\ \A a \in Bookings : a # b => book'[a] = book[a]
         /\ tier' = [t \in Tiers |-> Reserve(tier[t], req[p].items[t])]
         /\ tickets' = tickets /\ redeemed' = redeemed
<1>1. req[p] \in Requests /\ req[p].items \in [Tiers -> Nat]
  BY ConstantsAssumption DEF Insert, TypeOK, WorkersOK
<1>2. /\ book[b].status = "none" /\ book' = [book EXCEPT ![b] = NewRow(req[p])]
      /\ tier' = [t \in Tiers |-> Reserve(tier[t], req[p].items[t])]
      /\ tickets' = tickets /\ redeemed' = redeemed
  BY DEF Insert
<1>3. book'[b] = NewRow(req[p]) /\ \A a \in Bookings : a # b => book'[a] = book[a]
  BY <1>2 DEF TypeOK, RowsOK
<1>4. LET row == NewRow(req[p]) IN
      row.status = "reserved" /\ row.items = req[p].items /\ row.discount = 0
  BY DEF NewRow
<1> QED
  BY <1>1, <1>2, <1>3, <1>4

LEMMA ReleaseRows ==
  ASSUME TypeOK, NEW b \in Bookings, ReleasesHold(b)
  PROVE  /\ book[b].status = "reserved" /\ book'[b].status \in {"cancelled", "expired"}
         /\ book'[b].items = book[b].items /\ book'[b].discount = book[b].discount
         /\ \A a \in Bookings : a # b => book'[a] = book[a]
         /\ tier' = [t \in Tiers |-> Release(tier[t], book[b].items[t])]
         /\ tickets' = tickets /\ redeemed' = redeemed \ {b}
<1>1. PICK status \in {"cancelled", "expired"} :
        book[b].status = "reserved" /\ ReleaseHold(b, status)
  BY DEF ReleasesHold
<1>2. /\ book' = [book EXCEPT ![b] = [book[b] EXCEPT !.status = status]] /\ book[b] \in Row
      /\ tier' = [t \in Tiers |-> Release(tier[t], book[b].items[t])]
      /\ tickets' = tickets /\ redeemed' = redeemed \ {b}
  BY <1>1 DEF ReleaseHold, TypeOK, RowsOK
<1>3. book'[b] = [book[b] EXCEPT !.status = status]
      /\ \A a \in Bookings : a # b => book'[a] = book[a]
  BY <1>2 DEF TypeOK, RowsOK
<1> QED
  BY <1>1, <1>2, <1>3 DEF Row

LEMMA ConfirmRows ==
  ASSUME TypeOK, NEW b \in Bookings, ConfirmIssues(b)
  PROVE  /\ book[b].status = "reserved" /\ book'[b].status = "paid"
         /\ book'[b].items = book[b].items /\ book'[b].discount = book[b].discount
         /\ \A a \in Bookings : a # b => book'[a] = book[a]
         /\ tier' = [t \in Tiers |-> ConfirmSold(tier[t], book[b].items[t])]
         /\ tickets'[b] = [t \in Tiers |-> tickets[b][t] + book[b].items[t]]
         /\ \A a \in Bookings : a # b => tickets'[a] = tickets[a]
         /\ redeemed' = redeemed
<1>1. /\ book' = [book EXCEPT ![b] = [book[b] EXCEPT !.status = "paid"]] /\ book[b] \in Row
      /\ tier' = [t \in Tiers |-> ConfirmSold(tier[t], book[b].items[t])]
      /\ book[b].status = "reserved" /\ redeemed' = redeemed
      /\ tickets' = [tickets EXCEPT ![b] = [t \in Tiers |-> tickets[b][t] + book[b].items[t]]]
  BY DEF ConfirmIssues, TypeOK, RowsOK
<1>2. book'[b] = [book[b] EXCEPT !.status = "paid"]
      /\ \A a \in Bookings : a # b => book'[a] = book[a]
  BY <1>1 DEF TypeOK, RowsOK
<1>3. /\ tickets'[b] = [t \in Tiers |-> tickets[b][t] + book[b].items[t]]
      /\ \A a \in Bookings : a # b => tickets'[a] = tickets[a]
  BY <1>1 DEF TypeOK, RowsOK
<1> QED
  BY <1>1, <1>2, <1>3 DEF Row

-----------------------------------------------------------------------------
(* What is final stays, and who has paid has the tickets.                  *)

LEMMA QuietStatus ==
  ASSUME TypeOK, CopyIsCurrent, [Next]_vars
  PROVE  \A b \in Bookings : book[b].status \in {"paid", "cancelled", "expired"}
           => book'[b].status = book[b].status
<1>1. CASE KeepsSeats
  BY <1>1 DEF KeepsSeats
<1>2. ASSUME NEW p \in Workers, NEW b \in Bookings, SetCoupon(p, b) \/ ClearCoupon(p, b)
      PROVE  \A a \in Bookings : book'[a].status = book[a].status
  BY <1>2, CouponStep
<1>3. ASSUME NEW p \in Workers, NEW b \in Bookings,
             Insert(p, b) \/ ReleasesHold(b) \/ ConfirmIssues(b)
      PROVE  /\ book[b].status \in {"none", "reserved"}
             /\ \A a \in Bookings : a # b => book'[a] = book[a]
  BY <1>3, InsertRows, ReleaseRows, ConfirmRows
<1>4. ASSUME NEW b \in Bookings, ReleasesHold(b) \/ ConfirmIssues(b)
      PROVE  /\ book[b].status \in {"none", "reserved"}
             /\ \A a \in Bookings : a # b => book'[a] = book[a]
  BY <1>4, ReleaseRows, ConfirmRows
<1> QED
  BY <1>1, <1>2, <1>3, <1>4, QuietStep

(* Paid, cancelled and expired are final when no row changes while its     *)
(* order call is open.                                                     *)
THEOREM FinalIsFinal == ASSUME ~Overlap PROVE Spec => FinalStatusStays
<1>1. TypeOK /\ CopyIsCurrent /\ [Next]_vars =>
        [\A b \in Bookings : book[b].status \in {"paid", "cancelled", "expired"}
           => book'[b].status = book[b].status]_vars
  BY QuietStatus
<1> QED
  BY <1>1, Quiet, PTL DEF Spec, FinalStatusStays

LEMMA NextTickets ==
  ASSUME TypeOK, CopyIsCurrent, TicketsIffPaid, [Next]_vars
  PROVE  TicketsIffPaid'
<1> SUFFICES ASSUME NEW b \in Bookings
             PROVE  tickets'[b] = IF book'[b].status = "paid" THEN book'[b].items
                                                              ELSE [t \in Tiers |-> 0]
  BY DEF TicketsIffPaid
<1>1. tickets[b] = IF book[b].status = "paid" THEN book[b].items ELSE [t \in Tiers |-> 0]
  BY DEF TicketsIffPaid
<1>2. CASE KeepsSeats
  BY <1>1, <1>2 DEF KeepsSeats
<1>3. ASSUME NEW p \in Workers, NEW a \in Bookings, SetCoupon(p, a) \/ ClearCoupon(p, a)
      PROVE  /\ tickets' = tickets /\ book'[b].status = book[b].status
             /\ book'[b].items = book[b].items
  BY <1>3, CouponStep
<1>4. ASSUME NEW p \in Workers, NEW a \in Bookings, Insert(p, a)
      PROVE  tickets' = tickets /\ (a # b => book'[b] = book[b])
             /\ (a = b => book[b].status # "paid" /\ book'[b].status # "paid")
  BY <1>4, InsertRows
<1>5. ASSUME NEW a \in Bookings, ReleasesHold(a)
      PROVE  tickets' = tickets /\ (a # b => book'[b] = book[b])
             /\ (a = b => book[b].status # "paid" /\ book'[b].status # "paid")
  BY <1>5, ReleaseRows
<1>6. ASSUME NEW a \in Bookings, ConfirmIssues(a)
      PROVE  tickets'[b] = IF book'[b].status = "paid" THEN book'[b].items
                                                       ELSE [t \in Tiers |-> 0]
  <2>1. CASE a # b
    BY <1>1, <1>6, <2>1, ConfirmRows
  <2>2. CASE a = b
    <3>1. /\ book[b].status = "reserved" /\ book'[b].status = "paid"
          /\ book'[b].items = book[b].items
          /\ tickets'[b] = [t \in Tiers |-> tickets[b][t] + book[b].items[t]]
      BY <1>6, <2>2, ConfirmRows
    <3>2. book[b].items \in [Tiers -> Nat]
      BY BasketType DEF TypeOK, RowsOK, Row
    <3>3. tickets[b] = [t \in Tiers |-> 0]
      BY <1>1, <3>1
    <3>4. [t \in Tiers |-> tickets[b][t] + book[b].items[t]] = book[b].items
      BY <3>2, <3>3
    <3> QED
      BY <3>1, <3>4
  <2> QED
    BY <2>1, <2>2
<1> QED
  BY <1>1, <1>2, <1>3, <1>4, <1>5, <1>6, QuietStep

LEMMA InitTickets == Init => TicketsIffPaid
BY DEF Init, NoRow, TicketsIffPaid

-----------------------------------------------------------------------------
(* Conservation of seats.                                                  *)

HeldBy == [t \in Tiers |-> [b \in Bookings |->
             IF book[b].status = "reserved" THEN book[b].items[t] ELSE 0]]

IssuedTo == [t \in Tiers |-> [b \in Bookings |-> tickets[b][t]]]

SumsOverTables ==
  \A t \in Tiers :
    /\ HeldBy[t] \in [Bookings -> Nat] /\ IssuedTo[t] \in [Bookings -> Nat]
    /\ Held(t) = SumFunctionOnSet(HeldBy[t], Bookings)
    /\ SumFunction([b \in Bookings |-> tickets[b][t]]) = SumFunctionOnSet(IssuedTo[t], Bookings)

LEMMA SeatTables == TypeOK => SumsOverTables
<1> SUFFICES ASSUME TypeOK, NEW t \in Tiers
             PROVE  /\ HeldBy[t] \in [Bookings -> Nat] /\ IssuedTo[t] \in [Bookings -> Nat]
                    /\ Held(t) = SumFunctionOnSet(HeldBy[t], Bookings)
                    /\ SumFunction([b \in Bookings |-> tickets[b][t]])
                         = SumFunctionOnSet(IssuedTo[t], Bookings)
  BY DEF SumsOverTables
<1>1. \A b \in Bookings : book[b].items[t] \in Nat /\ tickets[b][t] \in Nat
  BY BasketType DEF TypeOK, RowsOK, Row
<1> QED
  BY <1>1 DEF HeldBy, IssuedTo, Held, SumFunction

LEMMA SeatTablesNext == TypeOK' => SumsOverTables'
BY SeatTables, PTL

(* The step moves `held` seats in and `issued` tickets out of booking b's  *)
(* entries of the tables, and the counters of the tier move with them.     *)
LEMMA OneBookingMoves ==
  ASSUME TypeOK, TypeOK', SeatsConserved, NEW b \in Bookings, NEW t \in Tiers,
         \A a \in Bookings : a # b => /\ HeldBy'[t][a] = HeldBy[t][a]
                                      /\ IssuedTo'[t][a] = IssuedTo[t][a],
         tier'[t].reserved = tier[t].reserved - HeldBy[t][b] + HeldBy'[t][b],
         tier'[t].sold = tier[t].sold - IssuedTo[t][b] + IssuedTo'[t][b]
  PROVE  /\ tier'[t].reserved = Held(t)'
         /\ tier'[t].sold = SumFunction([a \in Bookings |-> tickets'[a][t]])
<1> DEFINE H1 == HeldBy[t]
           H2 == HeldBy'[t]
           I1 == IssuedTo[t]
           I2 == IssuedTo'[t]
<1>1. /\ H1 \in [Bookings -> Nat] /\ I1 \in [Bookings -> Nat]
      /\ Held(t) = SumFunctionOnSet(H1, Bookings)
      /\ SumFunction([a \in Bookings |-> tickets[a][t]]) = SumFunctionOnSet(I1, Bookings)
  BY SeatTables DEF SumsOverTables
<1>2. /\ H2 \in [Bookings -> Nat] /\ I2 \in [Bookings -> Nat]
      /\ Held(t)' = SumFunctionOnSet(H2, Bookings)
      /\ SumFunction([a \in Bookings |-> tickets'[a][t]]) = SumFunctionOnSet(I2, Bookings)
  BY SeatTablesNext DEF SumsOverTables
<1>3. IsFiniteSet(Bookings)
  BY ConstantsAssumption
<1>4. /\ tier[t].reserved = SumFunctionOnSet(H1, Bookings)
      /\ tier[t].sold = SumFunctionOnSet(I1, Bookings)
  BY <1>1 DEF SeatsConserved
<1>5. /\ tier'[t].reserved = tier[t].reserved - H1[b] + H2[b]
      /\ tier'[t].sold = tier[t].sold - I1[b] + I2[b]
      /\ \A a \in Bookings \ {b} : H1[a] = H2[a] /\ I1[a] = I2[a]
  OBVIOUS
<1> HIDE DEF H1, H2, I1, I2
<1>6. SumFunctionOnSet(H2, Bookings) = SumFunctionOnSet(H1, Bookings) - H1[b] + H2[b]
  BY <1>1, <1>2, <1>3, <1>5, SumChange
<1>7. SumFunctionOnSet(I2, Bookings) = SumFunctionOnSet(I1, Bookings) - I1[b] + I2[b]
  BY <1>1, <1>2, <1>3, <1>5, SumChange
<1> QED
  BY <1>2, <1>4, <1>5, <1>6, <1>7

(* The seats of a live hold are in `reserved`, so no clamp bites.          *)
LEMMA NoClamp ==
  ASSUME TypeOK, SeatsConserved, NEW b \in Bookings, book[b].status = "reserved", NEW t \in Tiers
  PROVE  /\ book[b].items[t] \in Nat /\ Clamp(tier[t], book[b].items[t]) = book[b].items[t]
         /\ HeldBy[t][b] = book[b].items[t]
<1>1. book[b].items[t] \in Nat
  BY BasketType DEF TypeOK, RowsOK, Row
<1>2. HeldBy[t][b] = book[b].items[t]
  BY DEF HeldBy
<1> DEFINE H == HeldBy[t]
<1>3. H \in [Bookings -> Nat] /\ tier[t].reserved = SumFunctionOnSet(H, Bookings)
  BY SeatTables DEF SumsOverTables, SeatsConserved
<1> HIDE DEF H
<1>4. H[b] <= SumFunctionOnSet(H, Bookings)
  BY <1>3, SumBounds, ConstantsAssumption
<1> QED
  BY <1>1, <1>2, <1>3, <1>4 DEF Clamp, H

LEMMA NextSeats ==
  ASSUME TypeOK, TypeOK', CopyIsCurrent, SeatsConserved, [Next]_vars
  PROVE  SeatsConserved'
<1> SUFFICES ASSUME NEW t \in Tiers
             PROVE  /\ tier'[t].reserved = Held(t)'
                    /\ tier'[t].sold = SumFunction([b \in Bookings |-> tickets'[b][t]])
  BY DEF SeatsConserved
<1>1. tier[t] \in TierRow /\ \A b \in Bookings : tickets[b][t] \in Nat
  BY DEF TypeOK, RowsOK
<1>2. /\ \A b \in Bookings : HeldBy[t][b] = IF book[b].status = "reserved"
                                            THEN book[b].items[t] ELSE 0
      /\ \A b \in Bookings : HeldBy'[t][b] = IF book'[b].status = "reserved"
                                             THEN book'[b].items[t] ELSE 0
      /\ \A b \in Bookings : /\ IssuedTo[t][b] = tickets[b][t]
                             /\ IssuedTo'[t][b] = tickets'[b][t]
  BY DEF HeldBy, IssuedTo
<1>3. ASSUME UNCHANGED <<tier, tickets>>,
             \A b \in Bookings : book'[b].status = book[b].status /\ book'[b].items = book[b].items
      PROVE  /\ tier'[t].reserved = Held(t)'
             /\ tier'[t].sold = SumFunction([b \in Bookings |-> tickets'[b][t]])
  <2>1. Held(t)' = Held(t)
    <3>1. [b \in Bookings |-> IF book'[b].status = "reserved" THEN book'[b].items[t] ELSE 0]
            = [b \in Bookings |-> IF book[b].status = "reserved" THEN book[b].items[t] ELSE 0]
      BY <1>3
    <3> QED
      BY <3>1 DEF Held
  <2> QED
    BY <1>3, <2>1 DEF SeatsConserved
<1>4. ASSUME NEW p \in Workers, NEW b \in Bookings, Insert(p, b)
      PROVE  /\ tier'[t].reserved = Held(t)'
             /\ tier'[t].sold = SumFunction([a \in Bookings |-> tickets'[a][t]])
  <2> DEFINE q == req[p].items[t]
  <2>1. /\ q \in Nat /\ book[b].status = "none"
        /\ book'[b].status = "reserved" /\ book'[b].items[t] = q
        /\ \A a \in Bookings : a # b => book'[a] = book[a]
        /\ tier'[t] = Reserve(tier[t], q) /\ tickets' = tickets
    BY <1>4, InsertRows
  <2> HIDE DEF q
  <2>2. tier'[t].reserved = tier[t].reserved + q /\ tier'[t].sold = tier[t].sold
    BY <1>1, <2>1 DEF Reserve, TierRow
  <2>3. /\ tier'[t].reserved = tier[t].reserved - HeldBy[t][b] + HeldBy'[t][b]
        /\ tier'[t].sold = tier[t].sold - IssuedTo[t][b] + IssuedTo'[t][b]
    BY <1>1, <1>2, <2>1, <2>2 DEF TierRow
  <2>4. \A a \in Bookings : a # b => /\ HeldBy'[t][a] = HeldBy[t][a]
                                     /\ IssuedTo'[t][a] = IssuedTo[t][a]
    BY <1>2, <2>1
  <2> QED
    BY <2>3, <2>4, OneBookingMoves
<1>5. ASSUME NEW b \in Bookings, ReleasesHold(b)
      PROVE  /\ tier'[t].reserved = Held(t)'
             /\ tier'[t].sold = SumFunction([a \in Bookings |-> tickets'[a][t]])
  <2> DEFINE q == book[b].items[t]
  <2>1. /\ book[b].status = "reserved" /\ book'[b].status # "reserved"
        /\ \A a \in Bookings : a # b => book'[a] = book[a]
        /\ tier'[t] = Release(tier[t], q) /\ tickets' = tickets
    BY <1>5, ReleaseRows
  <2>2. q \in Nat /\ Clamp(tier[t], q) = q /\ HeldBy[t][b] = q
    BY <2>1, NoClamp
  <2> HIDE DEF q
  <2>3. tier'[t].reserved = tier[t].reserved - q /\ tier'[t].sold = tier[t].sold
    BY <1>1, <2>1, <2>2 DEF Release, TierRow
  <2>4. /\ tier'[t].reserved = tier[t].reserved - HeldBy[t][b] + HeldBy'[t][b]
        /\ tier'[t].sold = tier[t].sold - IssuedTo[t][b] + IssuedTo'[t][b]
    BY <1>1, <1>2, <2>1, <2>2, <2>3 DEF TierRow
  <2>5. \A a \in Bookings : a # b => /\ HeldBy'[t][a] = HeldBy[t][a]
                                     /\ IssuedTo'[t][a] = IssuedTo[t][a]
    BY <1>2, <2>1
  <2> QED
    BY <2>4, <2>5, OneBookingMoves
<1>6. ASSUME NEW b \in Bookings, ConfirmIssues(b)
      PROVE  /\ tier'[t].reserved = Held(t)'
             /\ tier'[t].sold = SumFunction([a \in Bookings |-> tickets'[a][t]])
  <2> DEFINE q == book[b].items[t]
  <2>1. /\ book[b].status = "reserved" /\ book'[b].status # "reserved"
        /\ \A a \in Bookings : a # b => book'[a] = book[a]
        /\ tier'[t] = ConfirmSold(tier[t], q) /\ tickets'[b][t] = tickets[b][t] + q
        /\ \A a \in Bookings : a # b => tickets'[a] = tickets[a]
    <3>1. /\ book[b].status = "reserved" /\ book'[b].status = "paid"
          /\ \A a \in Bookings : a # b => book'[a] = book[a]
          /\ tier' = [u \in Tiers |-> ConfirmSold(tier[u], book[b].items[u])]
          /\ tickets'[b] = [u \in Tiers |-> tickets[b][u] + book[b].items[u]]
          /\ \A a \in Bookings : a # b => tickets'[a] = tickets[a]
      BY <1>6, ConfirmRows
    <3>2. t \in Tiers
      OBVIOUS
    <3> QED
      BY ONLY <3>1, <3>2
  <2>2. q \in Nat /\ Clamp(tier[t], q) = q /\ HeldBy[t][b] = q
    BY <2>1, NoClamp
  <2> HIDE DEF q
  <2>0. tier[t] \in TierRow
    BY <1>1
  <2>3. tier'[t].reserved = tier[t].reserved - q /\ tier'[t].sold = tier[t].sold + q
    BY ONLY <2>0, <2>1, <2>2 DEF ConfirmSold, TierRow
  <2>4. /\ tier'[t].reserved = tier[t].reserved - HeldBy[t][b] + HeldBy'[t][b]
        /\ tier'[t].sold = tier[t].sold - IssuedTo[t][b] + IssuedTo'[t][b]
    BY <1>1, <1>2, <2>1, <2>2, <2>3 DEF TierRow
  <2>5. \A a \in Bookings : a # b => /\ HeldBy'[t][a] = HeldBy[t][a]
                                     /\ IssuedTo'[t][a] = IssuedTo[t][a]
    BY <1>2, <2>1
  <2> QED
    BY <2>4, <2>5, OneBookingMoves
<1>7. CASE KeepsSeats
  BY <1>3, <1>7 DEF KeepsSeats
<1>8. ASSUME NEW p \in Workers, NEW b \in Bookings, SetCoupon(p, b) \/ ClearCoupon(p, b)
      PROVE  /\ tier'[t].reserved = Held(t)'
             /\ tier'[t].sold = SumFunction([a \in Bookings |-> tickets'[a][t]])
  BY <1>3, <1>8, CouponStep
<1> QED
  BY <1>4, <1>5, <1>6, <1>7, <1>8, QuietStep

LEMMA InitSeats == Init => SeatsConserved
<1> SUFFICES ASSUME Init, NEW t \in Tiers
             PROVE  /\ tier[t].reserved = Held(t)
                    /\ tier[t].sold = SumFunction([b \in Bookings |-> tickets[b][t]])
  BY DEF SeatsConserved
<1> DEFINE zero == [b \in Bookings |-> 0]
<1>1. SumFunctionOnSet(zero, Bookings) = 0
  <2>1. IsFiniteSet(Bookings) /\ \A b \in Bookings : zero[b] = 0
    BY ConstantsAssumption
  <2> HIDE DEF zero
  <2> QED
    BY <2>1, SumZero
<1>2. /\ [b \in Bookings |-> IF book[b].status = "reserved" THEN book[b].items[t] ELSE 0] = zero
      /\ [b \in Bookings |-> tickets[b][t]] = zero
  BY DEF Init, NoRow
<1>3. tier[t].reserved = 0 /\ tier[t].sold = 0 /\ DOMAIN zero = Bookings
  BY FreshTiers DEF Init
<1> HIDE DEF zero
<1> QED
  BY <1>1, <1>2, <1>3 DEF Held, SumFunction

LEMMA QuietTickets ==
  ASSUME ~Overlap
  PROVE  Spec => [](TypeOK /\ CopyIsCurrent /\ TicketsIffPaid /\ SeatsConserved)
<1>1. TypeOK /\ CopyIsCurrent /\ TicketsIffPaid /\ [Next]_vars => TicketsIffPaid'
  BY NextTickets
<1>2. TypeOK /\ TypeOK' /\ CopyIsCurrent /\ SeatsConserved /\ [Next]_vars => SeatsConserved'
  BY NextSeats
<1> QED
  BY <1>1, <1>2, Quiet, InitTickets, InitSeats, PTL DEF Spec

(* "Paid or released - never stuck, never leaked, never double-issued":    *)
(* while no row changes under an open order call, a tier's `reserved` is   *)
(* the seats of its live holds and its `sold` the tickets issued, after    *)
(* any interleaving of creates, edits, cancels, expiries, confirmations    *)
(* and crashes - for any number of tiers, bookings and workers.            *)
THEOREM SeatsAreConserved == ASSUME ~Overlap PROVE Spec => []SeatsConserved
BY QuietTickets, PTL

(* ... a booking has exactly its tickets, once, exactly when it is paid ...*)
THEOREM PaidHasTickets == ASSUME ~Overlap PROVE Spec => []TicketsIffPaid
BY QuietTickets, PTL

(* ... and no more tickets are out than a tier has seats: the oversell the *)
(* lost update makes possible has no other cause.                          *)
THEOREM NoOverIssue == ASSUME ~Overlap PROVE Spec => []TicketsWithinCapacity
<1>1. TypeOK /\ CountersWithinCapacity /\ SeatsConserved => TicketsWithinCapacity
  <2> SUFFICES ASSUME TypeOK, CountersWithinCapacity, SeatsConserved, NEW t \in Tiers
               PROVE  SumFunction([b \in Bookings |-> tickets[b][t]]) <= tier[t].quantity
    BY DEF TicketsWithinCapacity
  <2>1. /\ tier[t].quantity \in Nat /\ tier[t].sold \in Nat /\ tier[t].reserved \in Nat
        /\ tier[t].sold + tier[t].reserved <= tier[t].quantity
    BY DEF CountersWithinCapacity, NoOversellCheck, TypeOK, RowsOK, TierRow
  <2>2. SumFunction([b \in Bookings |-> tickets[b][t]]) = tier[t].sold
    BY DEF SeatsConserved
  <2> QED
    BY <2>1, <2>2
<1> QED
  BY <1>1, QuietTickets, NoOversell, PTL

-----------------------------------------------------------------------------
(* The coupon ledger, for baskets that cost something.                     *)

RowsWereAsked ==
  \A b \in Bookings : book[b].status # "none" => \E r \in Requests : book[b].items = r.items

LEMMA NextCoupons ==
  ASSUME CouponOff > 0, \A r \in Requests : Subtotal(r.items) > 0,
         TypeOK, CopyIsCurrent, RowsWereAsked, CouponLedgerMatchesRows, [Next]_vars
  PROVE  RowsWereAsked' /\ CouponLedgerMatchesRows'
<1> USE DEF RowsWereAsked, CouponLedgerMatchesRows
<1>1. CASE KeepsSeats
  BY <1>1 DEF KeepsSeats
<1>2. ASSUME NEW p \in Workers, NEW b \in Bookings, Insert(p, b)
      PROVE  RowsWereAsked' /\ CouponLedgerMatchesRows'
  BY <1>2, InsertRows
<1>3. ASSUME NEW b \in Bookings, ReleasesHold(b)
      PROVE  RowsWereAsked' /\ CouponLedgerMatchesRows'
  BY <1>3, ReleaseRows
<1>4. ASSUME NEW b \in Bookings, ConfirmIssues(b)
      PROVE  RowsWereAsked' /\ CouponLedgerMatchesRows'
  <2>1. /\ book[b].status = "reserved" /\ book'[b].status = "paid"
        /\ book'[b].items = book[b].items /\ book'[b].discount = book[b].discount
        /\ \A a \in Bookings : a # b => book'[a] = book[a]
        /\ redeemed' = redeemed
    BY <1>4, ConfirmRows
  <2> QED
    BY <2>1
<1>5. ASSUME NEW p \in Workers, NEW b \in Bookings, SetCoupon(p, b)
      PROVE  RowsWereAsked' /\ CouponLedgerMatchesRows'
  <2>1. book[b].status = "reserved" /\ redeemed' = redeemed \cup {b}
    BY <1>5, CouponStep DEF SetCoupon
  <2>2. PICK r \in Requests : book[b].items = r.items
    BY <2>1
  <2>3. Subtotal(r.items) \in Nat /\ Subtotal(r.items) > 0
    BY SubtotalType DEF Baskets
  <2>4. DiscountOn(Subtotal(book[b].items)) # 0
    BY <2>2, <2>3, ConstantsAssumption DEF DiscountOn
  <2> QED
    BY <1>5, <2>1, <2>4, CouponStep
<1>6. ASSUME NEW p \in Workers, NEW b \in Bookings, ClearCoupon(p, b)
      PROVE  RowsWereAsked' /\ CouponLedgerMatchesRows'
  <2>1. redeemed' = redeemed \ {b}
    BY <1>6 DEF ClearCoupon
  <2> QED
    BY <1>6, <2>1, CouponStep
<1> QED
  BY <1>1, <1>2, <1>3, <1>4, <1>5, <1>6, QuietStep

(* A code is on the redemption ledger exactly while a booking that is held *)
(* or paid carries its discount, for every basket a code takes something   *)
(* off: a released hold gives its use of the code back.                    *)
THEOREM CouponLedgerAgrees ==
  ASSUME ~Overlap, CouponOff > 0, \A r \in Requests : Subtotal(r.items) > 0
  PROVE  Spec => []CouponLedgerMatchesRows
<1>1. Init => RowsWereAsked /\ CouponLedgerMatchesRows
  BY DEF Init, NoRow, RowsWereAsked, CouponLedgerMatchesRows
<1>2. TypeOK /\ CopyIsCurrent /\ RowsWereAsked /\ CouponLedgerMatchesRows /\ [Next]_vars
        => RowsWereAsked' /\ CouponLedgerMatchesRows'
  BY NextCoupons
<1> QED
  BY <1>1, <1>2, Quiet, PTL DEF Spec
=============================================================================
