--------------------------- MODULE MCSettlements ----------------------------
(* A small instance of Settlements for TLC.                                *)
EXTENDS Settlements, TLC

CONSTANTS p1, p2, d1, w1, w2

(* Only the second booking carries a donation.                             *)
MCAmount == p1 :> 1103 @@ p2 :> 505
MCFee == p1 :> 3 @@ p2 :> 5
MCDonation == p1 :> 0 @@ p2 :> 100
=============================================================================
