----------------------------- MODULE MCBooking ------------------------------
(* Small instances of Booking for TLC.                                     *)
EXTENDS Booking, TLC

CONSTANTS t1, b1, b2, p1, p2, k1, g1, g2

(* One tier with two seats, open from the start and closing at time 1.     *)
MCInitTier ==
  [t \in {t1} |-> [quantity |-> 2, sold |-> 0, reserved |-> 0,
                   saleStart |-> 0, saleEnd |-> 1, maxPerOrder |-> 2]]

MCPrice == [t \in {t1} |-> 1050]

(* Both seats under a key, or one seat without one.                        *)
MCRequests ==
  { [key |-> k1, items |-> (t1 :> 2), donation |-> 0, gw |-> g1],
    [key |-> NoKey, items |-> (t1 :> 1), donation |-> 0, gw |-> g1] }

(* Runs that ask about seats and keys need no second donation.             *)
NoDonations == {0}

SomeDonations == {0, 100}

(* With overlap every edit of two bookings at once is too much to explore: *)
(* either one booking is edited in every way before time passes, or two    *)
(* live through all times as they were created.                            *)
OneEditedOrTwoPlain ==
  \/ now = 0 /\ Cardinality({b \in Bookings : book[b].status # "none"}) <= 1
  \/ /\ redeemed = {}
     /\ \A b \in Bookings : book[b].donation = 0 /\ book[b].gw # g2
     /\ \A p \in Workers : pc[p] = "order" => mem[p].row.donation = 0 /\ mem[p].gw # g2
     /\ \A i \in DOMAIN orders : orders[i].amount = book[orders[i].booking].total

MCSymmetry == Permutations({b1, b2}) \cup Permutations({p1, p2})
=============================================================================
