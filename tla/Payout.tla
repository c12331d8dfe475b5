------------------------------- MODULE Payout -------------------------------
(***************************************************************************)
(* What an organizer and the platform's books may rely on, however many    *)
(* workers, retries and crashes there are: money leaves at most once, and  *)
(* only while the account is open; the account is closed once and for      *)
(* good, with one line; and no line is for an amount without money sent.   *)
(***************************************************************************)
EXTENDS Naturals, Sequences

VARIABLES
  sent,                    \* money that has left the platform
  lines,                   \* payouts on the books
  closed                   \* is nothing owed any more?

payoutVars == <<sent, lines, closed>>

Init == sent = 0 /\ lines = <<>> /\ closed = FALSE

Send ==
  /\ ~closed /\ sent = 0
  /\ sent' \in Nat \ {0}
  /\ UNCHANGED <<lines, closed>>

Close ==
  /\ ~closed /\ lines = <<>>
  /\ closed' = TRUE
  /\ lines' \in Seq(Nat) /\ Len(lines') = 1
  /\ lines'[1] # 0 => sent # 0
  /\ UNCHANGED sent

Next == Send \/ Close

Spec == Init /\ [][Next]_payoutVars
=============================================================================
