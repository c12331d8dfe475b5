-------------------------------- MODULE Door --------------------------------
(***************************************************************************)
(* What a gate promises, whoever scans and however often: a ticket lets    *)
(* one person in, or is withdrawn, and after either nobody else.           *)
(***************************************************************************)
EXTENDS Naturals

CONSTANT Tickets

VARIABLES
  admitted,                \* people let in on each ticket
  open                     \* tickets that would still let somebody in

doorVars == <<admitted, open>>

Init ==
  /\ admitted = [t \in Tickets |-> 0]
  /\ open = [t \in Tickets |-> TRUE]

Admit(t) ==
  /\ open[t]
  /\ admitted' = [admitted EXCEPT ![t] = @ + 1]
  /\ open' = [open EXCEPT ![t] = FALSE]

Withdraw(T) ==
  /\ open' = [t \in Tickets |-> open[t] /\ t \notin T]
  /\ UNCHANGED admitted

Next ==
  \/ \E t \in Tickets : Admit(t)
  \/ \E T \in SUBSET Tickets : Withdraw(T)

Spec == Init /\ [][Next]_doorVars
=============================================================================
