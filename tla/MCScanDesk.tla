----------------------------- MODULE MCScanDesk -----------------------------
(* A small instance of ScanDesk for TLC.                                   *)
EXTENDS ScanDesk, TLC

CONSTANTS t1, g1, g2, g3, d1, d2, e1, e2, o1

MCTicketEvent == [t \in Tickets |-> e1]
MCTicketOrder == [t \in Tickets |-> o1]

(* Two workers serve the ticket's event, one another event.                *)
MCGateEvent == g1 :> e1 @@ g2 :> e1 @@ g3 :> e2

(* The window closes while the desks scan.                                 *)
MCOpens == [t \in Tickets |-> 0]
MCCloses == [t \in Tickets |-> 0]
MCLink == [d \in Desks |-> e1]

MCSymmetry == Permutations({g1, g2}) \cup Permutations(Desks)
=============================================================================
