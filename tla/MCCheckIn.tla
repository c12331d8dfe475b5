----------------------------- MODULE MCCheckIn ------------------------------
(* A small instance of CheckIn for TLC.                                    *)
EXTENDS CheckIn, TLC

CONSTANTS t1, t2, t3, g1, g2, e1, e2, o1, o2

(* t1 and t2 were bought together; t3 is for another event.                *)
MCTicketEvent == t1 :> e1 @@ t2 :> e1 @@ t3 :> e2
MCTicketOrder == t1 :> o1 @@ t2 :> o1 @@ t3 :> o2
MCGateEvent == g1 :> e1 @@ g2 :> e1
MCOpens == t1 :> 0 @@ t2 :> 1 @@ t3 :> 0
MCCloses == t1 :> 0 @@ t2 :> 1 @@ t3 :> 1
=============================================================================
