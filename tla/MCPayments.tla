----------------------------- MODULE MCPayments -----------------------------
(* Small instances of Payments for TLC.                                    *)
EXTENDS Payments, TLC

CONSTANTS t1, b1, b2, p1, h1, h2, w1, w2, k1, g1, g2

MCInitTier ==
  [t \in {t1} |-> [quantity |-> 2, sold |-> 0, reserved |-> 0,
                   saleStart |-> 0, saleEnd |-> 1, maxPerOrder |-> 2]]

MCPrice == [t \in {t1} |-> 1050]

(* One customer, both seats, a retry under the same key.                   *)
MCRequests == { [key |-> k1, items |-> (t1 :> 2), donation |-> 0, gw |-> g1] }

NoDonations == {0}

SomeDonations == {0, 100}

PoolSymmetry == Permutations({h1, h2}) \cup Permutations({w1, w2})
=============================================================================
