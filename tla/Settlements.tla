---------------------------- MODULE Settlements -----------------------------
(***************************************************************************)
(* The organizer's payout for one event (apps/settlements): payments and   *)
(* refunds are recorded and announced through the outbox, its drain keeps  *)
(* the running totals, and scheduled release tasks recompute the net from  *)
(* the records under the settlement's row lock and pay it out.             *)
(***************************************************************************)
EXTENDS Integers, Sequences, FiniteSets, Functions

CONSTANTS
  Payments,                \* payments of the event's bookings
  Amount, Fee, Donation,   \* captured amount; the booking's fee and donation
  Drainers, Workers,       \* outbox drains, queue workers
  MaxAttempts,             \* SETTLEMENT_MAX_ATTEMPTS
  WindowEnds,              \* event end + refund window, as first scheduled
  Refundable,              \* bound: the payments that are ever refunded
  MaxTime, MaxMoves, MaxReleases   \* bounds

VARIABLES
  now,
  windowEnds, moves,       \* ... as scheduled now, and how often it moved
  account,                 \* has the organizer linked a payout account?
  pay,                     \* Payment.status
  delivered,               \* payments whose booking was confirmed
  outbox,                  \* unpublished events
  drain,                   \* what each drain transaction is doing
  settle,                  \* the Settlement row
  paidRows,                \* PayoutAttempt SUCCESS rows: their amounts
  adjusted,                \* PayoutAttempt ADJUSTMENT rows, per payment
  tasks,                   \* is a settlements.release_payout task queued?
  release,                 \* what each queue worker is doing
  paidOut, basis           \* vendor: amount paid; the records it was made from

recordVars == <<pay, delivered>>
clockVars == <<now, windowEnds, moves, account>>
ledgerVars == <<settle, paidRows, adjusted>>
vendorVars == <<paidOut, basis>>
settleVars == <<clockVars, recordVars, outbox, drain, ledgerVars, tasks, release, vendorVars>>

ASSUME SettlementConstants ==
  /\ IsFiniteSet(Payments)
  /\ \A p \in Payments :
       /\ Amount[p] \in Nat /\ Fee[p] \in Nat /\ Donation[p] \in Nat
       /\ Fee[p] + Donation[p] <= Amount[p]
  /\ Refundable \subseteq Payments
  /\ MaxAttempts \in Nat \ {0} /\ WindowEnds \in 0 .. MaxTime
  /\ MaxTime \in Nat /\ MaxMoves \in Nat /\ MaxReleases \in Nat

Idle == [phase |-> "idle"]
NoRow == [status |-> "none", gross |-> 0, fee |-> 0, donations |-> 0, refunds |-> 0,
          net |-> 0, attempts |-> 0, releasableAt |-> 0]

SettleInit ==
  /\ now = 0 /\ windowEnds = WindowEnds /\ moves = 0
  /\ account \in BOOLEAN
  /\ pay = [p \in Payments |-> "none"]
  /\ delivered = {}
  /\ outbox = {}
  /\ drain = [d \in Drainers |-> Idle]
  /\ settle = NoRow
  /\ paidRows = <<>>
  /\ adjusted = [p \in Payments |-> 0]
  /\ tasks = FALSE
  /\ release = [w \in Workers |-> Idle]
  /\ paidOut = 0 /\ basis = pay

-----------------------------------------------------------------------------
(* The money path, as far as settlements see it.                           *)

(* record_captured with confirm_booking, or for a lapsed hold without.     *)
Capture(p) ==
  /\ pay[p] = "none"
  /\ pay' = [pay EXCEPT ![p] = "paid"]
  /\ \/ /\ delivered' = delivered \cup {p}
        /\ outbox' = outbox \cup {<<"confirmed", p>>}
     \/ UNCHANGED <<delivered, outbox>>
  /\ UNCHANGED <<clockVars, drain, ledgerVars, tasks, release, vendorVars>>

RefundAmount(p) == IF p \in delivered THEN Amount[p] - Donation[p] ELSE Amount[p]

RefundRecorded(p) ==
  /\ p \in Refundable /\ pay[p] = "paid" /\ RefundAmount(p) > 0
  /\ pay' = [pay EXCEPT ![p] = "refunded"]
  /\ outbox' = outbox \cup {<<"refunded", p>>}
  /\ UNCHANGED <<clockVars, delivered, drain, ledgerVars, tasks, release, vendorVars>>

-----------------------------------------------------------------------------
(* The row lock: held from lock_for_update to the commit.                  *)
LockFree == \A w \in Workers : release[w].phase \in {"idle", "waiting", "retrying"}

(* publish_pending: a drain takes an event no other drain holds, and the   *)
(* refund handler reads the settlement without its lock.                   *)
DrainTakes(d, p) ==
  /\ drain[d] = Idle /\ <<"refunded", p>> \in outbox
  /\ \A c \in Drainers : drain[c] # Idle => drain[c].of # p
  /\ drain' = [drain EXCEPT ![d] = [phase |-> "handling", of |-> p, saw |-> settle.status]]
  /\ UNCHANGED <<clockVars, recordVars, outbox, ledgerVars, tasks, release, vendorVars>>

(* ensure_for_event stamps releasable_at on the first creation.            *)
Ensured == IF settle.status = "none"
           THEN [NoRow EXCEPT !.status = "pending", !.releasableAt = windowEnds]
           ELSE settle

WithNet(s) == [s EXCEPT !.net = s.gross - s.fee - s.donations - s.refunds]

AddConfirmed(p) ==
  settle' = WithNet([Ensured EXCEPT !.gross = @ + Amount[p], !.fee = @ + Fee[p],
                                    !.donations = @ + Donation[p]])

(* Mutant: the amount is taken from the payment, not from the event.       *)
AddRefund_WholePayment(p) ==
  settle' = WithNet([Ensured EXCEPT !.refunds = @ + Amount[p]])

AddRefund(p) ==
  settle' = WithNet([Ensured EXCEPT !.refunds = @ + RefundAmount(p)])

(* The handler's writes and published_at commit together.                  *)
Published(event) ==
  /\ outbox' = outbox \ {event}
  /\ UNCHANGED <<clockVars, recordVars, paidRows, tasks, release, vendorVars>>

ApplyConfirmed(p) ==
  /\ <<"confirmed", p>> \in outbox /\ LockFree
  /\ AddConfirmed(p)
  /\ Published(<<"confirmed", p>>)
  /\ UNCHANGED <<adjusted, drain>>

ApplyRefund(d, p) ==
  /\ drain[d] # Idle /\ drain[d].of = p
  /\ IF drain[d].saw = "paid"
       THEN adjusted' = [adjusted EXCEPT ![p] = @ + 1] /\ UNCHANGED settle
       ELSE LockFree /\ AddRefund(p) /\ UNCHANGED adjusted
  /\ Published(<<"refunded", p>>)
  /\ drain' = [drain EXCEPT ![d] = Idle]

DrainDies(d) ==
  /\ drain[d] # Idle
  /\ drain' = [drain EXCEPT ![d] = Idle]
  /\ UNCHANGED <<clockVars, recordVars, outbox, ledgerVars, tasks, release, vendorVars>>

-----------------------------------------------------------------------------
(* release_due_payouts and the admin's request_release.                    *)

ReleaseDue ==
  /\ settle.status = "pending" /\ settle.releasableAt <= now
  /\ ~tasks /\ tasks' = TRUE
  /\ UNCHANGED <<clockVars, recordVars, outbox, drain, ledgerVars, release, vendorVars>>

RequestRelease ==
  /\ settle.status # "none" /\ windowEnds <= now
  /\ ~tasks /\ tasks' = TRUE
  /\ UNCHANGED <<clockVars, recordVars, outbox, drain, ledgerVars, release, vendorVars>>

-----------------------------------------------------------------------------
(* release_payout.  The task stays with the queue until a worker is done.  *)

ReleaseBegin(w) ==
  /\ release[w] = Idle /\ tasks
  /\ settle.attempts < MaxReleases
  /\ IF settle.status = "paid"
       THEN tasks' = FALSE /\ UNCHANGED release
       ELSE release' = [release EXCEPT ![w] = [phase |-> "waiting"]] /\ UNCHANGED tasks
  /\ UNCHANGED <<clockVars, recordVars, outbox, drain, ledgerVars, vendorVars>>

Captured(status) == {p \in Payments : status[p] # "none"}
Refunded(status) == {p \in Payments : status[p] = "refunded"}
Refunds == [p \in Payments |-> RefundAmount(p)]

(* Mutant: the running totals decide.                                      *)
Recomputed_RunningTotals == settle

(* aggregate_event_settlement: the figures from the payment records.       *)
Recomputed ==
  WithNet([settle EXCEPT !.gross = SumFunctionOnSet(Amount, Captured(pay)),
                         !.fee = SumFunctionOnSet(Fee, Captured(pay)),
                         !.donations = SumFunctionOnSet(Donation, Captured(pay)),
                         !.refunds = SumFunctionOnSet(Refunds, Refunded(pay))])

Locks(w) == release[w].phase = "waiting" /\ LockFree

Done(w) == release' = [release EXCEPT ![w] = Idle]

Others == <<clockVars, recordVars, outbox, drain, adjusted, vendorVars>>

(* A concurrent release has paid, or the event is not over: the task fails *)
(* and the queue tries again or gives up (then the hourly job is left).    *)
ReleaseSkips(w) ==
  /\ Locks(w)
  /\ settle.status = "paid" \/ windowEnds > now
  /\ tasks' \in IF settle.status = "paid" THEN {FALSE} ELSE {FALSE, tasks}
  /\ Done(w) /\ UNCHANGED <<Others, settle, paidRows>>

(* Mutant: the status is not read again under the lock.                    *)
MayRelease_NoRecheck(w) == Locks(w) /\ windowEnds <= now

MayRelease(w) == Locks(w) /\ settle.status # "paid" /\ windowEnds <= now

(* Mutant: the row of a settlement that owes nothing records the net.      *)
SettleZero_RecordsNet(w) ==
  /\ MayRelease(w) /\ Recomputed.net <= 0
  /\ settle' = [Recomputed EXCEPT !.status = "paid", !.attempts = @ + 1]
  /\ paidRows' = Append(paidRows, Recomputed.net)
  /\ tasks' = FALSE /\ Done(w) /\ UNCHANGED Others

SettleZero(w) ==
  /\ MayRelease(w) /\ Recomputed.net <= 0
  /\ settle' = [Recomputed EXCEPT !.status = "paid", !.attempts = @ + 1]
  /\ paidRows' = Append(paidRows, 0)
  /\ tasks' = FALSE /\ Done(w) /\ UNCHANGED Others

NoPayoutAccount(w) ==
  /\ MayRelease(w) /\ Recomputed.net > 0 /\ ~account
  /\ settle' = [Recomputed EXCEPT !.status = "failed", !.attempts = @ + 1]
  /\ tasks' = FALSE /\ Done(w) /\ UNCHANGED <<Others, paidRows>>

CallVendor(w) ==
  /\ MayRelease(w) /\ Recomputed.net > 0 /\ account
  /\ release' = [release EXCEPT ![w] = [phase |-> "calling", row |-> Recomputed, of |-> pay]]
  /\ UNCHANGED <<Others, settle, paidRows, tasks>>

(* The vendor, under the idempotency key `settlement:<id>`: a repeated     *)
(* call returns the first payout.                                          *)
VendorPays(w) ==
  /\ release[w].phase = "calling"
  /\ IF paidOut = 0 THEN paidOut' = release[w].row.net /\ basis' = release[w].of
     ELSE UNCHANGED vendorVars
  /\ release' = [release EXCEPT ![w].phase = "paid"]
  /\ UNCHANGED <<clockVars, recordVars, outbox, drain, ledgerVars, tasks>>

VendorFails(w) ==
  /\ release[w].phase = "calling"
  /\ release' = [release EXCEPT ![w].phase = "refused"]
  /\ UNCHANGED <<Others, settle, paidRows, tasks>>

ReleasePaid(w) ==
  /\ release[w].phase = "paid"
  /\ settle' = [release[w].row EXCEPT !.status = "paid", !.attempts = @ + 1]
  /\ paidRows' = Append(paidRows, release[w].row.net)
  /\ tasks' = FALSE /\ Done(w) /\ UNCHANGED Others

Retries(w) == release' = [release EXCEPT ![w] = [phase |-> "retrying"]]

(* Mutant: a failed attempt is not counted.                                *)
ReleaseFailed_Uncounted(w) ==
  /\ release[w].phase = "refused"
  /\ settle' = release[w].row
  /\ Retries(w) /\ UNCHANGED <<Others, paidRows, tasks>>

(* Dead-lettered after the last attempt.  Before it the failed attempt     *)
(* commits, which frees the row, and the retry is still to be enqueued.    *)
ReleaseFailed(w) ==
  LET tried == release[w].row.attempts + 1 IN
  /\ release[w].phase = "refused"
  /\ settle' = [release[w].row EXCEPT !.attempts = tried,
                  !.status = IF tried >= MaxAttempts THEN "failed" ELSE @]
  /\ IF tried >= MaxAttempts THEN tasks' = FALSE /\ Done(w) ELSE Retries(w) /\ UNCHANGED tasks
  /\ UNCHANGED <<Others, paidRows>>

Reenqueue(w) ==
  /\ release[w].phase = "retrying"
  /\ tasks' = TRUE /\ Done(w) /\ UNCHANGED <<Others, settle, paidRows>>

(* The worker dies or the call raises, which between the commit and the    *)
(* enqueue loses the retry: what has not committed rolls back, and the     *)
(* queue delivers the task again or has given up.                          *)
ReleaseDies(w) ==
  /\ release[w] # Idle
  /\ tasks' \in BOOLEAN /\ Done(w) /\ UNCHANGED <<Others, settle, paidRows>>

-----------------------------------------------------------------------------
(* The organizer moves the event, or links the account; time passes.       *)

MoveEvent(end) ==
  /\ moves < MaxMoves /\ end # windowEnds
  /\ windowEnds' = end /\ moves' = moves + 1
  /\ UNCHANGED <<now, account, recordVars, outbox, drain, ledgerVars, tasks, release, vendorVars>>

LinkAccount ==
  /\ ~account /\ account' = TRUE
  /\ UNCHANGED <<now, windowEnds, moves, recordVars, outbox, drain, ledgerVars, tasks, release,
                 vendorVars>>

SettleTick ==
  /\ now < MaxTime /\ now' = now + 1
  /\ UNCHANGED <<windowEnds, moves, account, recordVars, outbox, drain, ledgerVars, tasks,
                 release, vendorVars>>

DrainStep(d) ==
  \/ \E p \in Payments : DrainTakes(d, p) \/ ApplyRefund(d, p)
  \/ DrainDies(d)

Decide(w) == ReleaseSkips(w) \/ SettleZero(w) \/ NoPayoutAccount(w) \/ CallVendor(w)

Conclude(w) == ReleasePaid(w) \/ ReleaseFailed(w) \/ Reenqueue(w)

ReleaseStep(w) ==
  ReleaseBegin(w) \/ Decide(w) \/ VendorPays(w) \/ VendorFails(w) \/ Conclude(w) \/ ReleaseDies(w)

SettleNext ==
  \/ \E p \in Payments : Capture(p) \/ RefundRecorded(p) \/ ApplyConfirmed(p)
  \/ \E d \in Drainers : DrainStep(d)
  \/ \E w \in Workers : ReleaseStep(w)
  \/ ReleaseDue \/ RequestRelease
  \/ \E end \in 0 .. MaxTime : MoveEvent(end)
  \/ LinkAccount \/ SettleTick

SettleSpec == SettleInit /\ [][SettleNext]_settleVars

(* The hourly settlements.release_due job runs and the queue redelivers:   *)
(* a step some worker can take again and again is taken, whoever dies.     *)
SettleFairness ==
  /\ WF_settleVars(SettleTick) /\ WF_settleVars(ReleaseDue)
  /\ SF_settleVars(\E w \in Workers : ReleaseBegin(w))
  /\ SF_settleVars(\E w \in Workers : Decide(w))
  /\ SF_settleVars(\E w \in Workers : VendorPays(w) \/ VendorFails(w))
  /\ SF_settleVars(\E w \in Workers : Conclude(w))

SettleFairSpec == SettleSpec /\ SettleFairness

-----------------------------------------------------------------------------
SettleTypeOK ==
  /\ now \in Nat /\ windowEnds \in Nat /\ moves \in Nat /\ account \in BOOLEAN
  /\ pay \in [Payments -> {"none", "paid", "refunded"}] /\ basis \in [Payments -> {"none", "paid", "refunded"}]
  /\ delivered \subseteq Payments
  /\ outbox \subseteq {"confirmed", "refunded"} \X Payments
  /\ settle.status \in {"none", "pending", "paid", "failed"}
  /\ settle.attempts \in Nat /\ settle.net \in Int
  /\ paidRows \in Seq(Nat) /\ adjusted \in [Payments -> Nat]
  /\ tasks \in BOOLEAN /\ paidOut \in Nat
  /\ \A w \in Workers : release[w].phase \in {"idle", "waiting", "calling", "paid", "refused", "retrying"}

(* "EXACTLY ONCE": the settlement is paid when, and only when, one SUCCESS *)
(* attempt is on record, with two workers, redelivered tasks, an admin's   *)
(* retrigger and crashes on either side of the vendor call.                *)
PaidOnce == Len(paidRows) = IF settle.status = "paid" THEN 1 ELSE 0

(* Seen through the vendor's ledger and the SUCCESS rows, a settlement is  *)
(* a Payout: two workers, the wait for the lock, a death on either side of *)
(* the vendor call and the retrigger neither send money twice or after the *)
(* settlement is paid, nor open it again, nor record what was never sent.  *)
Books == INSTANCE Payout WITH
  sent <- paidOut, lines <- paidRows, closed <- settle.status = "paid"

ImplementsPayout == Books!Spec

(* "The RIGHT amount ... never on money that was refunded": what left the  *)
(* platform is what the payment and refund records said when the payout    *)
(* began, whatever of it the outbox had announced by then.                 *)
NetOf(status) ==
  LET kept == [p \in Payments |-> Amount[p] - Fee[p] - Donation[p]] IN
  SumFunctionOnSet(kept, Captured(status)) - SumFunctionOnSet(Refunds, Refunded(status))

PaysTheRecords == paidOut # 0 => paidOut = NetOf(basis)

(* Until a release has rewritten the row, the running totals have counted  *)
(* every published event once and for its own amount, although drains die  *)
(* and are repeated.                                                       *)
Counted(kind) == {p \in Payments : <<kind, p>> \notin outbox}

RunningTotalsAgree ==
  settle.status # "none" /\ settle.attempts = 0 =>
    /\ settle.gross = SumFunctionOnSet(Amount, delivered \cap Counted("confirmed"))
    /\ settle.refunds = SumFunctionOnSet(Refunds, Refunded(pay) \cap Counted("refunded"))

(* A settlement is paid or dead-lettered in the end: failed attempts are   *)
(* retried a bounded number of times, the hourly job finds a retry lost    *)
(* between the commit and its enqueue, and a release that came while the   *)
(* event had moved is tried again by the queue or by that job.             *)
SettlementEnds == settle.status = "pending" ~> settle.status \in {"paid", "failed"}
=============================================================================
