-------------------------------- MODULE Tier --------------------------------
(***************************************************************************)
(* One ticket tier (apps/ticketing): the row `ticket_types` and the three  *)
(* reservation primitives that run under its row lock.  A primitive is one *)
(* short transaction, so it is an operator from the locked row to the row  *)
(* that save_counts writes; the modules that hold tiers apply it in their  *)
(* actions.                                                                *)
(***************************************************************************)
EXTENDS Integers

(* The columns the lock reads.  `quantity` is capacity; the sale window is *)
(* the closed interval [saleStart, saleEnd] of the model's clock.          *)
TierRow ==
  [quantity : Nat, sold : Nat, reserved : Nat,
   saleStart : Nat, saleEnd : Nat, maxPerOrder : Nat]

Available(row) == row.quantity - row.sold - row.reserved

(* The database CHECK `no_oversell`: a write that breaks it is refused.    *)
NoOversellCheck(row) ==
  row.sold >= 0 /\ row.reserved >= 0 /\ row.sold + row.reserved <= row.quantity

(* Mutant: availability forgets the seats other checkouts hold.            *)
CanReserve_IgnoresHolds(row, q, now) ==
  /\ q >= 1
  /\ row.saleStart <= now /\ now <= row.saleEnd
  /\ q <= row.maxPerOrder
  /\ q <= row.quantity - row.sold

(* Every early return of RowLockReservationStrategy.reserve.  A quantity   *)
(* below 1 is refused by TicketingService before the lock is taken.        *)
CanReserve(row, q, now) ==
  /\ q >= 1
  /\ row.saleStart <= now
  /\ now <= row.saleEnd
  /\ q <= row.maxPerOrder
  /\ q <= Available(row)

Reserve(row, q) == [row EXCEPT !.reserved = @ + q]

(* Mutant: no clamp.                                                       *)
Clamp_None(row, q) == q

(* Both ways out of `reserved` are clamped to what the row still holds.    *)
Clamp(row, q) == IF q <= row.reserved THEN q ELSE row.reserved

Release(row, q) == [row EXCEPT !.reserved = @ - Clamp(row, q)]

ConfirmSold(row, q) ==
  [row EXCEPT !.reserved = @ - Clamp(row, q), !.sold = @ + Clamp(row, q)]
=============================================================================
