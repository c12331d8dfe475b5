-------------------------- MODULE SettlementProofs --------------------------
(***************************************************************************)
(* Proofs about Settlements for every set of payments, drains and release  *)
(* workers: a settlement is paid exactly once - which needs the shape of   *)
(* rows but not their amounts: which worker holds the row lock, and what   *)
(* it may still write - and for the right amount; and, from both, it is a  *)
(* Payout.                                                                 *)
(***************************************************************************)
EXTENDS Settlements, SumLemmas, TLAPS

Holds(w) == release[w].phase \in {"calling", "paid", "refused"}

IsRow(s) ==
  s = [status |-> s.status, gross |-> s.gross, fee |-> s.fee, donations |-> s.donations,
       refunds |-> s.refunds, net |-> s.net, attempts |-> s.attempts,
       releasableAt |-> s.releasableAt]

(* A worker in the middle of a release holds the row and carries a copy of *)
(* it that is not paid.                                                    *)
Carries(w) ==
  /\ release[w] = [phase |-> release[w].phase, row |-> release[w].row, of |-> release[w].of]
  /\ IsRow(release[w].row) /\ release[w].row.status # "paid"

(* The lock: one holder, and while there is one the settlement is unpaid.  *)
LockInv ==
  /\ release = [w \in Workers |-> release[w]]
  /\ \A w \in Workers : Holds(w) => Carries(w) /\ settle.status # "paid"
  /\ \A v, w \in Workers : Holds(v) /\ Holds(w) => v = w
  /\ \A w \in Workers : ~Holds(w) => release[w].phase \in {"idle", "waiting", "retrying"}

(* One SUCCESS row or none.                                                *)
RowsInv == IF settle.status = "paid" THEN \E x : paidRows = <<x>> ELSE paidRows = <<>>

OnceInv == IsRow(settle) /\ LockInv /\ RowsInv

(* What the operators that build a row leave alone.                        *)
LEMMA RowOperators ==
  ASSUME IsRow(settle)
  PROVE  /\ IsRow(Recomputed) /\ Recomputed.status = settle.status
         /\ IsRow(Ensured) /\ (settle.status # "paid" <=> Ensured.status # "paid")
<1>1. ASSUME NEW s, IsRow(s) PROVE IsRow(WithNet(s)) /\ WithNet(s).status = s.status
  BY <1>1 DEF IsRow, WithNet
<1>2. ASSUME NEW s, IsRow(s), NEW x
      PROVE  \A t \in {[s EXCEPT !.gross = x], [s EXCEPT !.fee = x],
                       [s EXCEPT !.donations = x], [s EXCEPT !.refunds = x]} :
               IsRow(t) /\ t.status = s.status
  <2>1. IsRow([s EXCEPT !.gross = x]) /\ [s EXCEPT !.gross = x].status = s.status
    BY <1>2 DEF IsRow
  <2>2. IsRow([s EXCEPT !.fee = x]) /\ [s EXCEPT !.fee = x].status = s.status
    BY <1>2 DEF IsRow
  <2>3. IsRow([s EXCEPT !.donations = x]) /\ [s EXCEPT !.donations = x].status = s.status
    BY <1>2 DEF IsRow
  <2>4. IsRow([s EXCEPT !.refunds = x]) /\ [s EXCEPT !.refunds = x].status = s.status
    BY <1>2 DEF IsRow
  <2> QED BY <2>1, <2>2, <2>3, <2>4
<1> DEFINE g == SumFunctionOnSet(Amount, Captured(pay))
           f == SumFunctionOnSet(Fee, Captured(pay))
           d == SumFunctionOnSet(Donation, Captured(pay))
           r == SumFunctionOnSet(Refunds, Refunded(pay))
           s1 == [settle EXCEPT !.gross = g]
           s2 == [s1 EXCEPT !.fee = f]
           s3 == [s2 EXCEPT !.donations = d]
           s4 == [s3 EXCEPT !.refunds = r]
<1>3. Recomputed = WithNet(s4)
  <2>1. [settle EXCEPT !.gross = g, !.fee = f, !.donations = d, !.refunds = r] = s4
    <3> HIDE DEF g, f, d, r
    <3> QED OBVIOUS
  <2> QED BY <2>1 DEF Recomputed
<1> HIDE DEF g, f, d, r
<1>4. IsRow(s4) /\ s4.status = settle.status
  <2>1. IsRow(s1) /\ s1.status = settle.status
    BY <1>2
  <2> HIDE DEF s1
  <2>2. IsRow(s2) /\ s2.status = settle.status
    BY <1>2, <2>1
  <2> HIDE DEF s2
  <2>3. IsRow(s3) /\ s3.status = settle.status
    BY <1>2, <2>2
  <2> HIDE DEF s3
  <2> QED BY <1>2, <2>3
<1>5. IsRow(Recomputed) /\ Recomputed.status = settle.status
  <2> HIDE DEF s4
  <2> QED BY <1>1, <1>3, <1>4
<1>6. IsRow(Ensured) /\ (settle.status # "paid" <=> Ensured.status # "paid")
  BY DEF IsRow, Ensured, NoRow
<1> QED BY <1>5, <1>6

LEMMA TotalsKeepStatus ==
  ASSUME IsRow(settle), NEW p \in Payments, AddConfirmed(p) \/ AddRefund(p)
  PROVE  IsRow(settle') /\ (settle.status = "paid" <=> settle'.status = "paid")
  BY RowOperators DEF IsRow, AddConfirmed, AddRefund, WithNet

(* Steps that neither touch the settlement nor a release.                  *)
LEMMA Untouched ==
  ASSUME OnceInv, UNCHANGED <<settle, paidRows, release>>
  PROVE  OnceInv'
  BY DEF OnceInv, IsRow, LockInv, RowsInv, Holds, Carries

(* Running totals are written only while nobody holds the row.             *)
LEMMA TotalsInv ==
  ASSUME OnceInv, NEW p \in Payments, AddConfirmed(p) \/ AddRefund(p), LockFree,
         UNCHANGED <<paidRows, release>>
  PROVE  OnceInv'
<1>1. IsRow(settle') /\ (settle.status = "paid" <=> settle'.status = "paid")
  BY TotalsKeepStatus DEF OnceInv
<1>2. \A w \in Workers : ~Holds(w) /\ ~Holds(w)'
  BY DEF LockFree, Holds
<1>3. LockInv'
  BY <1>2 DEF OnceInv, LockInv, Holds
<1> QED BY <1>1, <1>3 DEF OnceInv, RowsInv

(* A worker that becomes idle, or waits, holds nothing; the others keep    *)
(* what they have while the settlement keeps its row.                      *)
Waits(w) == release' = [release EXCEPT ![w] = [phase |-> "waiting"]]

OthersSafe(w) == \A v \in Workers : Holds(v) /\ v # w => settle' = settle

LEMMA LetsGo ==
  ASSUME LockInv, NEW w \in Workers, Done(w) \/ Waits(w) \/ Retries(w), OthersSafe(w)
  PROVE  LockInv'
<1>0. PICK x : /\ x.phase \in {"idle", "waiting", "retrying"}
                 /\ release' = [release EXCEPT ![w] = x]
  <2>1. /\ Idle.phase = "idle" /\ [phase |-> "waiting"].phase = "waiting"
        /\ [phase |-> "retrying"].phase = "retrying"
    BY DEF Idle
  <2> QED BY <2>1 DEF Done, Waits, Retries
<1>1. release' = [v \in Workers |-> IF v = w THEN x ELSE release[v]]
  BY <1>0 DEF LockInv
<1>2. \A v \in Workers : release'[v] = IF v = w THEN x ELSE release[v]
  BY <1>1
<1>3. ~Holds(w)'
  BY <1>0, <1>2 DEF Holds
<1>4. \A v \in Workers : v # w => (Holds(v)' <=> Holds(v))
  BY <1>2 DEF Holds
<1>5. ASSUME NEW v \in Workers, Holds(v)' PROVE Carries(v)' /\ settle'.status # "paid"
  <2>1. v # w /\ Holds(v) /\ settle' = settle
    BY <1>3, <1>4, <1>5 DEF OthersSafe
  <2>2. Carries(v)
    BY <2>1 DEF LockInv
  <2> QED BY <1>2, <2>1, <2>2 DEF LockInv, Carries
<1>6. \A u, v \in Workers : Holds(u)' /\ Holds(v)' => u = v
  BY <1>3, <1>4 DEF LockInv
<1>7. \A v \in Workers : ~Holds(v)' => release'[v].phase \in {"idle", "waiting", "retrying"}
  BY <1>0, <1>2, <1>4 DEF LockInv
<1>8. release' = [v \in Workers |-> release'[v]]
  BY <1>1
<1> QED BY <1>5, <1>6, <1>7, <1>8 DEF LockInv

(* The holder moves on with the same copy, or the first holder takes one.  *)
LEMMA HoldsOn ==
  ASSUME LockInv, NEW w \in Workers, NEW x,
         x = [phase |-> x.phase, row |-> x.row, of |-> x.of],
         IsRow(x.row), x.row.status # "paid", settle.status # "paid",
         x.phase \in {"calling", "paid", "refused"},
         \A v \in Workers : Holds(v) => v = w,
         release' = [release EXCEPT ![w] = x], settle' = settle
  PROVE  LockInv'
<1>1. release' = [v \in Workers |-> IF v = w THEN x ELSE release[v]]
  BY DEF LockInv
<1>2. \A v \in Workers : release'[v] = IF v = w THEN x ELSE release[v]
  BY <1>1
<1>3. \A v \in Workers : Holds(v)' <=> v = w
  BY <1>2 DEF Holds
<1>4. Carries(w)'
  BY <1>2 DEF Carries
<1>5. \A v \in Workers : ~Holds(v)' => release'[v].phase \in {"idle", "waiting", "retrying"}
  BY <1>2, <1>3 DEF LockInv
<1>6. release' = [v \in Workers |-> release'[v]]
  BY <1>1
<1> QED BY <1>3, <1>4, <1>5, <1>6 DEF LockInv

-----------------------------------------------------------------------------
LEMMA DecideInv ==
  ASSUME OnceInv, NEW w \in Workers, Decide(w)
  PROVE  OnceInv'
<1>0. IsRow(settle) /\ LockInv /\ RowsInv /\ IsRow(Recomputed) /\ Recomputed.status = settle.status
  BY RowOperators DEF OnceInv
<1>1. \A v \in Workers : ~Holds(v)
  BY DEF Decide, ReleaseSkips, SettleZero, NoPayoutAccount, CallVendor, MayRelease, Locks,
         LockFree, Holds
<1>2. CASE Done(w)
  <2>1. LockInv'
    BY <1>0, <1>1, <1>2, LetsGo DEF OthersSafe
  <2>2. CASE ReleaseSkips(w)
    BY <1>0, <2>1, <2>2 DEF ReleaseSkips, OnceInv, IsRow, RowsInv
  <2>3. CASE SettleZero(w)
    <3>1. settle.status # "paid" /\ paidRows = <<>>
      BY <1>0, <2>3 DEF SettleZero, MayRelease, RowsInv
    <3>2. paidRows' = <<0>>
      BY <2>3, <3>1 DEF SettleZero
    <3>3. IsRow(settle') /\ settle'.status = "paid"
      BY <1>0, <2>3 DEF SettleZero, IsRow
    <3> QED BY <2>1, <3>2, <3>3 DEF OnceInv, RowsInv
  <2>4. CASE NoPayoutAccount(w)
    <3>1. settle.status # "paid" /\ paidRows = <<>> /\ paidRows' = paidRows
      BY <1>0, <2>4 DEF NoPayoutAccount, MayRelease, RowsInv
    <3>2. IsRow(settle') /\ settle'.status = "failed"
      BY <1>0, <2>4 DEF NoPayoutAccount, IsRow
    <3> QED BY <2>1, <3>1, <3>2 DEF OnceInv, RowsInv
  <2>5. CASE CallVendor(w)
    <3> DEFINE x == [phase |-> "calling", row |-> Recomputed, of |-> pay]
    <3>1. release'[w] = x /\ release'[w] = Idle
      BY <1>0, <1>2, <2>5 DEF CallVendor, Done, LockInv
    <3>2. x.phase # Idle.phase
      BY DEF Idle
    <3> QED BY <3>1, <3>2
  <2> QED BY <2>2, <2>3, <2>4, <2>5 DEF Decide
<1>3. CASE CallVendor(w)
  <2> DEFINE x == [phase |-> "calling", row |-> Recomputed, of |-> pay]
  <2>1. /\ x = [phase |-> x.phase, row |-> x.row, of |-> x.of]
        /\ x.phase \in {"calling", "paid", "refused"} /\ x.row = Recomputed
    OBVIOUS
  <2>2. settle.status # "paid" /\ release' = [release EXCEPT ![w] = x]
        /\ UNCHANGED <<settle, paidRows>>
    BY <1>3 DEF CallVendor, MayRelease
  <2> HIDE DEF x
  <2>3. LockInv'
    BY <1>0, <1>1, <2>1, <2>2, HoldsOn
  <2> QED BY <1>0, <2>2, <2>3 DEF OnceInv, IsRow, RowsInv
<1> QED BY <1>2, <1>3 DEF Decide, ReleaseSkips, SettleZero, NoPayoutAccount

LEMMA VendorInv ==
  ASSUME OnceInv, NEW w \in Workers, VendorPays(w) \/ VendorFails(w)
  PROVE  OnceInv'
<1> DEFINE x(phase) == [release[w] EXCEPT !.phase = phase]
<1>1. LockInv /\ Holds(w) /\ Carries(w) /\ settle.status # "paid"
  BY DEF OnceInv, LockInv, Holds, VendorPays, VendorFails
<1>2. \A v \in Workers : Holds(v) => v = w
  BY <1>1 DEF LockInv
<1>3. UNCHANGED <<settle, paidRows>>
  BY DEF VendorPays, VendorFails, ledgerVars
<1>4. PICK phase \in {"paid", "refused"} : release' = [release EXCEPT ![w] = x(phase)]
  BY DEF VendorPays, VendorFails
<1>5. /\ x(phase) = [phase |-> x(phase).phase, row |-> x(phase).row, of |-> x(phase).of]
      /\ x(phase).phase \in {"calling", "paid", "refused"} /\ x(phase).row = release[w].row
  BY <1>1 DEF Carries
<1> HIDE DEF x
<1>6. LockInv'
  BY <1>1, <1>2, <1>3, <1>4, <1>5, HoldsOn DEF Carries
<1> QED BY <1>3, <1>6 DEF OnceInv, IsRow, RowsInv

LEMMA ConcludeInv ==
  ASSUME OnceInv, NEW w \in Workers, Conclude(w)
  PROVE  OnceInv'
<1>1. CASE ReleasePaid(w) \/ ReleaseFailed(w)
  <2>1. LockInv /\ Carries(w) /\ settle.status # "paid" /\ paidRows = <<>>
    BY <1>1 DEF OnceInv, LockInv, RowsInv, Holds, ReleasePaid, ReleaseFailed
  <2>2. \A v \in Workers : Holds(v) => v = w
    BY <1>1, <2>1 DEF LockInv, Holds, ReleasePaid, ReleaseFailed
  <2>3. Done(w) \/ Retries(w)
    BY <1>1 DEF ReleasePaid, ReleaseFailed
  <2>4. LockInv'
    BY <2>1, <2>2, <2>3, LetsGo DEF OthersSafe
  <2>5. CASE ReleasePaid(w)
    <3>1. IsRow(settle') /\ settle'.status = "paid"
      BY <2>1, <2>5 DEF ReleasePaid, Carries, IsRow
    <3>2. paidRows' = <<release[w].row.net>>
      BY <2>1, <2>5 DEF ReleasePaid
    <3> QED BY <2>4, <3>1, <3>2 DEF OnceInv, RowsInv
  <2>6. CASE ReleaseFailed(w)
    <3>1. IsRow(settle') /\ settle'.status # "paid"
      BY <2>1, <2>6 DEF ReleaseFailed, Carries, IsRow
    <3>2. paidRows' = paidRows
      BY <2>6 DEF ReleaseFailed
    <3> QED BY <2>1, <2>4, <3>1, <3>2 DEF OnceInv, RowsInv
  <2> QED BY <1>1, <2>5, <2>6
<1>2. CASE Reenqueue(w)
  <2>1. UNCHANGED <<settle, paidRows>> /\ Done(w)
    BY <1>2 DEF Reenqueue
  <2>2. LockInv'
    BY <2>1, LetsGo DEF OnceInv, OthersSafe
  <2> QED BY <2>1, <2>2 DEF OnceInv, IsRow, RowsInv
<1> QED BY <1>1, <1>2 DEF Conclude

LEMMA ReleaseInv ==
  ASSUME OnceInv, NEW w \in Workers, ReleaseStep(w)
  PROVE  OnceInv'
<1>1. CASE ReleaseBegin(w)
  <2>1. UNCHANGED <<settle, paidRows>>
    BY <1>1 DEF ReleaseBegin, ledgerVars
  <2>2. CASE release' = release
    BY <2>1, <2>2, Untouched
  <2>3. CASE release' # release
    <3>1. Waits(w)
      BY <1>1, <2>3 DEF ReleaseBegin, Waits
    <3>2. LockInv'
      BY <2>1, <3>1, LetsGo DEF OnceInv, OthersSafe
    <3> QED BY <2>1, <3>2 DEF OnceInv, IsRow, RowsInv
  <2> QED BY <2>2, <2>3
<1>2. CASE ReleaseDies(w)
  <2>1. UNCHANGED <<settle, paidRows>>
    BY <1>2 DEF ReleaseDies
  <2>2. Done(w)
    BY <1>2 DEF ReleaseDies
  <2>3. LockInv'
    BY <2>1, <2>2, LetsGo DEF OnceInv, OthersSafe
  <2> QED BY <2>1, <2>3 DEF OnceInv, IsRow, RowsInv
<1> QED BY <1>1, <1>2, DecideInv, VendorInv, ConcludeInv DEF ReleaseStep

LEMMA NextOnce ==
  ASSUME OnceInv, [SettleNext]_settleVars
  PROVE  OnceInv'
<1>1. ASSUME NEW p \in Payments, Capture(p) \/ RefundRecorded(p) PROVE OnceInv'
  BY <1>1, Untouched DEF Capture, RefundRecorded, ledgerVars
<1>2. ASSUME NEW p \in Payments, ApplyConfirmed(p) PROVE OnceInv'
  BY <1>2, TotalsInv DEF ApplyConfirmed, Published
<1>3. ASSUME NEW d \in Drainers, DrainStep(d) PROVE OnceInv'
  <2>1. ASSUME NEW p \in Payments, ApplyRefund(d, p) PROVE OnceInv'
    <3>1. UNCHANGED <<paidRows, release>>
      BY <2>1 DEF ApplyRefund, Published
    <3> QED BY <2>1, <3>1, TotalsInv, Untouched DEF ApplyRefund
  <2>2. ASSUME DrainDies(d) \/ (\E p \in Payments : DrainTakes(d, p)) PROVE OnceInv'
    BY <2>2, Untouched DEF DrainDies, DrainTakes, ledgerVars
  <2> QED BY <1>3, <2>1, <2>2 DEF DrainStep
<1>4. CASE ReleaseDue \/ RequestRelease \/ LinkAccount \/ SettleTick
  BY <1>4, Untouched DEF ReleaseDue, RequestRelease, LinkAccount, SettleTick, ledgerVars
<1>5. ASSUME NEW end, MoveEvent(end) PROVE OnceInv'
  BY <1>5, Untouched DEF MoveEvent, ledgerVars
<1>6. CASE UNCHANGED settleVars
  BY <1>6, Untouched DEF settleVars, ledgerVars
<1> QED BY <1>1, <1>2, <1>3, <1>4, <1>5, <1>6, ReleaseInv DEF SettleNext

(* "EXACTLY ONCE, under a lock": whatever workers, redelivered tasks,      *)
(* retriggers and crashes there are, a settlement is paid exactly when one *)
(* SUCCESS attempt is on record.                                           *)
THEOREM PaysExactlyOnce == SettleSpec => []PaidOnce
<1>1. SettleInit => OnceInv
  BY DEF SettleInit, OnceInv, IsRow, NoRow, LockInv, RowsInv, Holds, Idle
<1>2. OnceInv /\ [SettleNext]_settleVars => OnceInv'
  BY NextOnce
<1>3. OnceInv => PaidOnce
  BY DEF OnceInv, RowsInv, PaidOnce
<1> QED BY <1>1, <1>2, <1>3, PTL DEF SettleSpec

-----------------------------------------------------------------------------
(* The amounts.                                                            *)

PayStatus == {"none", "paid", "refunded"}

SettleRow ==
  [status : {"none", "pending", "paid", "failed"}, gross : Int, fee : Int, donations : Int,
   refunds : Int, net : Int, attempts : Nat, releasableAt : Nat]

Held == [phase : {"calling", "paid", "refused"}, row : SettleRow, of : [Payments -> PayStatus]]

Handling == [phase : {"handling"}, of : Payments, saw : {"none", "pending", "paid", "failed"}]

(* All sums over payments are sums of integers over a finite set.          *)
LEMMA PaymentSums ==
  ASSUME NEW S \in SUBSET Payments
  PROVE  /\ IsFiniteSet(S)
         /\ SumFunctionOnSet(Amount, S) \in Int /\ SumFunctionOnSet(Fee, S) \in Int
         /\ SumFunctionOnSet(Donation, S) \in Int /\ SumFunctionOnSet(Refunds, S) \in Int
<1>1. IsFiniteSet(S)
  BY SettlementConstants, FS_Subset
<1>2. \A p \in S : Amount[p] \in Int /\ Fee[p] \in Int /\ Donation[p] \in Int
  BY SettlementConstants
<1>3. \A p \in S : Refunds[p] \in Int
  BY <1>2 DEF Refunds, RefundAmount
<1> QED
  BY <1>1, <1>2, <1>3, SumType

(* What is kept of the payments is what came in, less fees and donations.  *)
LEMMA KeptSum ==
  ASSUME NEW S \in SUBSET Payments
  PROVE  SumFunctionOnSet([p \in Payments |-> Amount[p] - Fee[p] - Donation[p]], S)
           = SumFunctionOnSet(Amount, S) - SumFunctionOnSet(Fee, S) - SumFunctionOnSet(Donation, S)
<1> DEFINE kept == [p \in Payments |-> Amount[p] - Fee[p] - Donation[p]]
           costs == [p \in Payments |-> Fee[p] + Donation[p]]
<1>1. \A p \in S : /\ Amount[p] \in Int /\ Fee[p] \in Int /\ Donation[p] \in Int
                   /\ kept[p] \in Int /\ costs[p] \in Int
                   /\ costs[p] = Fee[p] + Donation[p] /\ Amount[p] = kept[p] + costs[p]
  BY SettlementConstants
<1> HIDE DEF kept, costs
<1>2. /\ IsFiniteSet(S) /\ SumFunctionOnSet(Fee, S) \in Int /\ SumFunctionOnSet(Donation, S) \in Int
      /\ SumFunctionOnSet(kept, S) \in Int
  BY <1>1, PaymentSums, SumType
<1>3. SumFunctionOnSet(costs, S) = SumFunctionOnSet(Fee, S) + SumFunctionOnSet(Donation, S)
  BY <1>1, <1>2, SumPlus
<1>4. SumFunctionOnSet(Amount, S) = SumFunctionOnSet(kept, S) + SumFunctionOnSet(costs, S)
  BY <1>1, <1>2, SumPlus
<1> QED
  BY <1>2, <1>3, <1>4 DEF kept

LEMMA WithNetRow ==
  ASSUME NEW s \in SettleRow
  PROVE  /\ WithNet(s) \in SettleRow /\ WithNet(s).status = s.status
         /\ WithNet(s).attempts = s.attempts /\ WithNet(s).gross = s.gross
         /\ WithNet(s).refunds = s.refunds
         /\ WithNet(s).net = s.gross - s.fee - s.donations - s.refunds
<1>1. s.gross - s.fee - s.donations - s.refunds \in Int
  BY DEF SettleRow
<1> QED
  BY <1>1 DEF WithNet, SettleRow

(* The recomputed net is the net of the records.                           *)
LEMMA RecomputedRow ==
  ASSUME settle \in SettleRow
  PROVE  /\ Recomputed \in SettleRow /\ Recomputed.status = settle.status
         /\ Recomputed.attempts = settle.attempts /\ Recomputed.net = NetOf(pay)
<1> DEFINE g == SumFunctionOnSet(Amount, Captured(pay))
           f == SumFunctionOnSet(Fee, Captured(pay))
           d == SumFunctionOnSet(Donation, Captured(pay))
           r == SumFunctionOnSet(Refunds, Refunded(pay))
           row == [settle EXCEPT !.gross = g, !.fee = f, !.donations = d, !.refunds = r]
<1>1. Captured(pay) \subseteq Payments /\ Refunded(pay) \subseteq Payments
  BY DEF Captured, Refunded
<1>2. g \in Int /\ f \in Int /\ d \in Int /\ r \in Int
  BY <1>1, PaymentSums
<1>3. NetOf(pay) = g - f - d - r
  BY <1>1, KeptSum DEF NetOf
<1>4. Recomputed = WithNet(row)
  BY DEF Recomputed
<1> HIDE DEF g, f, d, r
<1>5. /\ row \in SettleRow /\ row.status = settle.status /\ row.attempts = settle.attempts
      /\ row.gross = g /\ row.fee = f /\ row.donations = d /\ row.refunds = r
  BY <1>2 DEF SettleRow
<1> HIDE DEF row
<1> QED
  BY <1>2, <1>3, <1>4, <1>5, WithNetRow

Waiting == [phase |-> "waiting"]
Retrying == [phase |-> "retrying"]
Unheld == {Idle, Waiting, Retrying}

ReleaseType ==
  /\ release \in [Workers -> Unheld \cup Held]
  /\ \A w \in Workers : Holds(w) => release[w].row.net > 0

MoneyType ==
  /\ settle \in SettleRow /\ paidRows \in Seq(Nat) /\ tasks \in BOOLEAN
  /\ paidOut \in Nat /\ basis \in [Payments -> PayStatus]

RecordType ==
  /\ pay \in [Payments -> PayStatus] /\ delivered \subseteq Payments
  /\ outbox \subseteq {"confirmed", "refunded"} \X Payments
  /\ adjusted \in [Payments -> Nat]
  /\ drain \in [Drainers -> {Idle} \cup Handling]

ClockType == now \in Nat /\ windowEnds \in Nat /\ moves \in Nat /\ account \in BOOLEAN

TypesInv == ClockType /\ RecordType /\ MoneyType /\ ReleaseType

(* What a worker may hold, by its phase.                                   *)
LEMMA HeldPhases ==
  ASSUME ReleaseType, NEW w \in Workers
  PROVE  /\ Holds(w) <=> release[w] \in Held
         /\ Holds(w) <=> release[w] \notin Unheld
         /\ release[w] = Waiting <=> release[w].phase = "waiting"
         /\ release[w] = Idle <=> release[w].phase = "idle"
         /\ Holds(w) => release[w].row.net \in Nat \ {0} /\ release[w].row \in SettleRow
<1>1. release[w] \in Unheld \cup Held
  BY DEF ReleaseType
<1>2. Idle.phase = "idle" /\ Waiting.phase = "waiting" /\ Retrying.phase = "retrying"
  BY DEF Idle, Waiting, Retrying
<1>3. ASSUME NEW x \in Held
      PROVE  x.phase \in {"calling", "paid", "refused"} /\ x.row \in SettleRow /\ x.row.net \in Int
  BY <1>3 DEF Held, SettleRow
<1>4. \A x \in Unheld : x.phase \notin {"calling", "paid", "refused"}
  BY <1>2 DEF Unheld
<1>5. Holds(w) <=> release[w] \in Held
  BY <1>1, <1>3, <1>4 DEF Holds
<1>6. Holds(w) => release[w].row.net > 0
  BY DEF ReleaseType
<1>7. Holds(w) => release[w].row.net \in Nat \ {0} /\ release[w].row \in SettleRow
  BY <1>3, <1>5, <1>6
<1> QED
  BY <1>1, <1>2, <1>3, <1>4, <1>5, <1>7 DEF Holds, Unheld

(* A worker's state is replaced.                                           *)
LEMMA ReleaseReplaced ==
  ASSUME ReleaseType, NEW w \in Workers, NEW x \in Unheld \cup Held,
         x \in Held => x.row.net > 0, release' = [release EXCEPT ![w] = x]
  PROVE  ReleaseType' /\ \A v \in Workers : release'[v] = IF v = w THEN x ELSE release[v]
<1>1. \A v \in Workers : release'[v] = IF v = w THEN x ELSE release[v]
  BY DEF ReleaseType
<1>2. release' \in [Workers -> Unheld \cup Held]
  BY DEF ReleaseType
<1>3. ASSUME NEW v \in Workers, Holds(v)' PROVE release'[v].row.net > 0
  <2>1. CASE v = w
    <3>1. Idle.phase = "idle" /\ Waiting.phase = "waiting" /\ Retrying.phase = "retrying"
      BY DEF Idle, Waiting, Retrying
    <3>2. x \in Held
      BY <1>1, <1>3, <2>1, <3>1 DEF Holds, Unheld
    <3> QED BY <1>1, <2>1, <3>2
  <2>2. CASE v # w
    BY <1>1, <1>3, <2>2 DEF Holds, ReleaseType
  <2> QED BY <2>1, <2>2
<1> QED BY <1>1, <1>2, <1>3 DEF ReleaseType

LEMMA EnsuredRow ==
  ASSUME settle \in SettleRow, windowEnds \in Nat
  PROVE  /\ Ensured \in SettleRow /\ Ensured.status # "none"
         /\ settle.status # "none" => Ensured = settle
         /\ settle.status = "none" =>
              Ensured.attempts = 0 /\ Ensured.gross = 0 /\ Ensured.refunds = 0
<1>1. CASE settle.status = "none"
  <2>1. Ensured = [status |-> "pending", gross |-> 0, fee |-> 0, donations |-> 0, refunds |-> 0,
                   net |-> 0, attempts |-> 0, releasableAt |-> windowEnds]
    BY <1>1 DEF Ensured, NoRow
  <2> QED BY <1>1, <2>1 DEF SettleRow
<1>2. CASE settle.status # "none"
  BY <1>2 DEF Ensured
<1> QED BY <1>1, <1>2

(* The running totals are kept as rows, one event at a time.               *)
LEMMA TotalsRow ==
  ASSUME settle \in SettleRow, windowEnds \in Nat, NEW p \in Payments
  PROVE  /\ AddConfirmed(p) =>
              /\ settle' \in SettleRow /\ settle'.status = Ensured.status
              /\ settle'.attempts = Ensured.attempts /\ settle'.refunds = Ensured.refunds
              /\ settle'.gross = Ensured.gross + Amount[p]
         /\ AddRefund(p) =>
              /\ settle' \in SettleRow /\ settle'.status = Ensured.status
              /\ settle'.attempts = Ensured.attempts /\ settle'.gross = Ensured.gross
              /\ settle'.refunds = Ensured.refunds + RefundAmount(p)
<1>1. Ensured \in SettleRow
  BY EnsuredRow
<1>2. Amount[p] \in Nat /\ Fee[p] \in Nat /\ Donation[p] \in Nat /\ RefundAmount(p) \in Int
  BY SettlementConstants DEF RefundAmount
<1> DEFINE r == RefundAmount(p)
           row1 == [Ensured EXCEPT !.gross = @ + Amount[p], !.fee = @ + Fee[p],
                                   !.donations = @ + Donation[p]]
           row2 == [Ensured EXCEPT !.refunds = @ + r]
<1>3. /\ row1 \in SettleRow /\ row1.status = Ensured.status /\ row1.attempts = Ensured.attempts
      /\ row1.refunds = Ensured.refunds /\ row1.gross = Ensured.gross + Amount[p]
  <2> DEFINE g == Ensured.gross + Amount[p]
             f == Ensured.fee + Fee[p]
             d == Ensured.donations + Donation[p]
  <2>1. g \in Int /\ f \in Int /\ d \in Int
    BY <1>1, <1>2 DEF SettleRow
  <2>2. row1 = [Ensured EXCEPT !.gross = g, !.fee = f, !.donations = d]
    BY <1>1 DEF SettleRow
  <2> HIDE DEF g, f, d
  <2>3. /\ row1 \in SettleRow /\ row1.status = Ensured.status
        /\ row1.attempts = Ensured.attempts /\ row1.refunds = Ensured.refunds /\ row1.gross = g
    BY <1>1, <2>1, <2>2 DEF SettleRow
  <2> QED BY <2>3 DEF g
<1>4. /\ row2 \in SettleRow /\ row2.status = Ensured.status /\ row2.attempts = Ensured.attempts
      /\ row2.gross = Ensured.gross /\ row2.refunds = Ensured.refunds + r
  <2> HIDE DEF r
  <2>1. r \in Int
    BY <1>2 DEF r
  <2> QED BY <1>1, <2>1 DEF SettleRow
<1>5. (AddConfirmed(p) => settle' = WithNet(row1)) /\ (AddRefund(p) => settle' = WithNet(row2))
  BY DEF AddConfirmed, AddRefund
<1>6. row2.refunds = Ensured.refunds + RefundAmount(p)
  BY <1>4
<1> HIDE DEF row1, row2, r
<1> QED
  BY <1>3, <1>4, <1>5, <1>6, WithNetRow

(* A row that a release writes counts one attempt more.                    *)
Written(row, new) == [row EXCEPT !.status = new, !.attempts = @ + 1]

LEMMA WrittenRow ==
  ASSUME NEW row \in SettleRow, NEW new \in {"paid", "failed", row.status}
  PROVE  /\ Written(row, new) \in SettleRow /\ Written(row, new).status = new
         /\ Written(row, new).attempts > 0
<1> DEFINE tried == row.attempts + 1
           written == [row EXCEPT !.attempts = tried, !.status = new]
<1>1. tried \in Nat /\ tried > 0 /\ new \in {"none", "pending", "paid", "failed"}
  BY DEF SettleRow
<1>2. Written(row, new) = written
  BY DEF Written, SettleRow
<1>3. written \in SettleRow /\ written.status = new /\ written.attempts = tried
  <2> HIDE DEF tried
  <2> QED BY <1>1 DEF SettleRow
<1> HIDE DEF tried, written
<1> QED
  BY <1>1, <1>2, <1>3 DEF tried, written

(* What a release writes: nothing, or a row that counts one attempt more.  *)
CarriedStatus(w) == IF Holds(w) THEN release[w].row.status ELSE settle.status

Writes(w) ==
  /\ settle' \in SettleRow /\ settle'.attempts > 0
  /\ settle'.status \in {"paid", "failed", CarriedStatus(w)}
  /\ paidRows' \in Seq(Nat) /\ release[w] # Idle

LEMMA ReleaseWrites ==
  ASSUME NEW w \in Workers, ReleaseStep(w), MoneyType, ReleaseType
  PROVE  UNCHANGED <<settle, paidRows>> \/ Writes(w)
<1> DEFINE r == Recomputed
           h == release[w].row
<1>1. /\ r \in SettleRow /\ r.status = settle.status
      /\ Holds(w) => h \in SettleRow /\ h.net \in Nat
  BY RecomputedRow, HeldPhases DEF MoneyType
<1>2. CASE SettleZero(w) \/ NoPayoutAccount(w)
  <2>1. release[w] # Idle
    BY <1>2, HeldPhases DEF SettleZero, NoPayoutAccount, MayRelease, Locks
  <2>2. PICK new \in {"paid", "failed"} : settle' = Written(r, new)
    BY <1>2 DEF SettleZero, NoPayoutAccount, Written
  <2>3. paidRows' \in Seq(Nat)
    BY <1>2 DEF SettleZero, NoPayoutAccount, MoneyType
  <2> HIDE DEF r
  <2>4. settle' \in SettleRow /\ settle'.status = new /\ settle'.attempts > 0
    BY <1>1, <2>2, WrittenRow
  <2> QED BY <2>1, <2>3, <2>4 DEF Writes
<1>3. CASE ReleasePaid(w)
  <2>1. Holds(w) /\ release[w] # Idle
    BY <1>3, HeldPhases DEF ReleasePaid, Holds
  <2>2. settle' = Written(h, "paid") /\ paidRows' \in Seq(Nat)
    BY <1>1, <1>3, <2>1 DEF ReleasePaid, MoneyType, Written
  <2> HIDE DEF h
  <2> QED BY <1>1, <2>1, <2>2, WrittenRow DEF Writes
<1>4. CASE ReleaseFailed(w)
  <2>1. Holds(w) /\ release[w] # Idle
    BY <1>4, HeldPhases DEF ReleaseFailed, Holds
  <2> DEFINE new == IF h.attempts + 1 >= MaxAttempts THEN "failed" ELSE h.status
  <2>2. settle' = [h EXCEPT !.attempts = h.attempts + 1, !.status = new] /\ paidRows' \in Seq(Nat)
    BY <1>1, <1>4, <2>1 DEF ReleaseFailed, MoneyType, SettleRow
  <2>3. new \in {"paid", "failed", h.status} /\ CarriedStatus(w) = h.status
    BY <2>1 DEF CarriedStatus
  <2> HIDE DEF h, new
  <2>4. settle' = Written(h, new)
    <3>1. h \in SettleRow
      BY <1>1, <2>1
    <3>2. Written(h, new) = [h EXCEPT !.attempts = h.attempts + 1, !.status = new]
      BY <3>1 DEF Written, SettleRow
    <3> QED BY <2>2, <3>2
  <2>5. settle' \in SettleRow /\ settle'.status = new /\ settle'.attempts > 0
    BY <1>1, <2>1, <2>3, <2>4, WrittenRow
  <2> QED BY <2>1, <2>2, <2>3, <2>5 DEF Writes
<1>5. CASE ReleaseBegin(w) \/ ReleaseSkips(w) \/ CallVendor(w) \/ VendorPays(w) \/ VendorFails(w)
           \/ Reenqueue(w) \/ ReleaseDies(w)
  BY <1>5 DEF ReleaseBegin, ReleaseSkips, CallVendor, VendorPays, VendorFails, Reenqueue,
     ReleaseDies, ledgerVars
<1> QED
  BY <1>2, <1>3, <1>4, <1>5 DEF ReleaseStep, Decide, Conclude

(* How a release moves its worker: to idle, to enqueue a retry, to wait    *)
(* for the lock, to the vendor with a copy of what the records say, or on  *)
(* with the copy it has.                                                   *)
Moves(w) ==
  \/ release' = release
  \/ Done(w) \/ Retries(w)
  \/ Waits(w) /\ settle.status # "paid" /\ tasks /\ release[w] = Idle
  \/ /\ ~Holds(w) /\ Recomputed.net > 0 /\ release[w] # Idle
     /\ release' = [release EXCEPT ![w] = [phase |-> "calling", row |-> Recomputed, of |-> pay]]
  \/ /\ Holds(w)
     /\ \E phase \in {"paid", "refused"} :
          release' = [release EXCEPT ![w] = [phase |-> phase, row |-> release[w].row,
                                             of |-> release[w].of]]

LEMMA ReleaseMoves ==
  ASSUME NEW w \in Workers, ReleaseStep(w), ReleaseType
  PROVE  Moves(w)
<1>1. CASE ReleaseBegin(w)
  BY <1>1 DEF ReleaseBegin, Moves, Waits
<1>2. CASE CallVendor(w)
  <2>1. Waiting \in Unheld /\ Idle.phase = "idle"
    BY DEF Unheld, Idle
  <2>2. release[w] = Waiting /\ release[w].phase # "idle"
    BY <1>2, HeldPhases DEF CallVendor, MayRelease, Locks
  <2>3. ~Holds(w) /\ release[w] # Idle
    BY <2>1, <2>2, HeldPhases
  <2> QED BY <1>2, <2>3 DEF CallVendor, Moves
<1>3. CASE VendorPays(w) \/ VendorFails(w)
  <2>1. Holds(w) /\ release[w] \in Held
    BY <1>3, HeldPhases DEF VendorPays, VendorFails, Holds
  <2>2. ASSUME NEW phase \in {"paid", "refused"}
        PROVE  [release EXCEPT ![w].phase = phase]
                 = [release EXCEPT ![w] = [phase |-> phase, row |-> release[w].row,
                                           of |-> release[w].of]]
    <3>1. [release[w] EXCEPT !.phase = phase]
            = [phase |-> phase, row |-> release[w].row, of |-> release[w].of]
      BY <2>1 DEF Held
    <3>2. [release EXCEPT ![w].phase = phase]
            = [release EXCEPT ![w] = [release[w] EXCEPT !.phase = phase]]
      OBVIOUS
    <3> QED BY <3>1, <3>2
  <2> QED BY <1>3, <2>1, <2>2 DEF VendorPays, VendorFails, Moves
<1>4. CASE ReleaseSkips(w) \/ SettleZero(w) \/ NoPayoutAccount(w) \/ Conclude(w) \/ ReleaseDies(w)
  BY <1>4 DEF ReleaseSkips, SettleZero, NoPayoutAccount, Conclude, ReleasePaid, ReleaseFailed,
     Reenqueue, ReleaseDies, Moves
<1> QED
  BY <1>1, <1>2, <1>3, <1>4 DEF ReleaseStep, Decide

LEMMA MovesType ==
  ASSUME NEW w \in Workers, Moves(w), MoneyType, RecordType, ReleaseType
  PROVE  ReleaseType'
<1> DEFINE call == [phase |-> "calling", row |-> Recomputed, of |-> pay]
<1>1. Recomputed \in SettleRow
  BY RecomputedRow DEF MoneyType
<1>2. call \in Held /\ call.row = Recomputed
  BY <1>1 DEF Held, RecordType
<1>3. ASSUME NEW phase \in {"paid", "refused"}, Holds(w)
      PROVE  LET x == [phase |-> phase, row |-> release[w].row, of |-> release[w].of] IN
             x \in Held /\ x.row.net > 0
  <2>1. release[w] \in Held /\ release[w].row.net > 0
    BY <1>3, HeldPhases DEF ReleaseType
  <2> QED BY <2>1 DEF Held
<1>4. \A x \in Unheld : x \notin Held
  <2>1. Idle.phase = "idle" /\ Waiting.phase = "waiting" /\ Retrying.phase = "retrying"
    BY DEF Idle, Waiting, Retrying
  <2> QED BY <2>1 DEF Held, Unheld
<1>5. CASE release' = release
  BY <1>5 DEF ReleaseType, Holds
<1>6. CASE Done(w) \/ Waits(w) \/ Retries(w)
  <2>1. PICK x \in Unheld : release' = [release EXCEPT ![w] = x]
    BY <1>6 DEF Done, Waits, Retries, Unheld, Waiting, Retrying
  <2> QED BY <1>4, <2>1, ReleaseReplaced
<1>7. CASE Recomputed.net > 0 /\ release' = [release EXCEPT ![w] = call]
  <2> HIDE DEF call
  <2> QED BY <1>2, <1>7, ReleaseReplaced
<1>8. CASE Holds(w) /\ \E phase \in {"paid", "refused"} :
             release' = [release EXCEPT ![w] = [phase |-> phase, row |-> release[w].row,
                                                of |-> release[w].of]]
  <2>1. PICK x \in Held : x.row.net > 0 /\ release' = [release EXCEPT ![w] = x]
    BY <1>3, <1>8
  <2> QED BY <2>1, ReleaseReplaced
<1> QED
  BY <1>5, <1>6, <1>7, <1>8 DEF Moves

LEMMA ReleaseTypes ==
  ASSUME TypesInv, NEW w \in Workers, ReleaseStep(w)
  PROVE  TypesInv'
<1>1. ReleaseType'
  BY ReleaseMoves, MovesType DEF TypesInv
<1>2. settle' \in SettleRow /\ paidRows' \in Seq(Nat)
  BY ReleaseWrites DEF TypesInv, MoneyType, Writes
<1>3. tasks' \in BOOLEAN
  <2>1. tasks' \in {TRUE, FALSE, tasks}
    BY DEF ReleaseStep, Decide, Conclude, ReleaseBegin, ReleaseSkips, SettleZero, NoPayoutAccount,
       CallVendor, VendorPays, VendorFails, ReleasePaid, ReleaseFailed, Reenqueue, ReleaseDies
  <2> QED BY <2>1 DEF TypesInv, MoneyType
<1>4. UNCHANGED <<clockVars, recordVars, outbox, drain, adjusted>>
  BY DEF ReleaseStep, Decide, Conclude, ReleaseBegin, ReleaseSkips, SettleZero, NoPayoutAccount,
     CallVendor, VendorPays, VendorFails, ReleasePaid, ReleaseFailed, Reenqueue, ReleaseDies,
     Others, ledgerVars
<1>5. paidOut' \in Nat /\ basis' \in [Payments -> PayStatus]
  <2>1. CASE UNCHANGED vendorVars
    BY <2>1 DEF vendorVars, TypesInv, MoneyType
  <2>2. CASE VendorPays(w)
    <3>1. release[w] \in Held /\ release[w].row.net \in Nat
      BY <2>2, HeldPhases DEF TypesInv, VendorPays, Holds
    <3>2. release[w].of \in [Payments -> PayStatus]
      BY <3>1 DEF Held
    <3> QED BY <2>1, <2>2, <3>1, <3>2 DEF VendorPays
  <2> QED
    BY <2>1, <2>2 DEF ReleaseStep, Decide, Conclude, ReleaseBegin, ReleaseSkips, SettleZero,
       NoPayoutAccount, CallVendor, VendorFails, ReleasePaid, ReleaseFailed, Reenqueue,
       ReleaseDies, Others
<1>6. ClockType' /\ RecordType'
  BY <1>4 DEF TypesInv, ClockType, RecordType, clockVars, recordVars
<1> QED
  BY <1>1, <1>2, <1>3, <1>5, <1>6 DEF TypesInv, MoneyType

LEMMA DrainTypes ==
  ASSUME TypesInv, NEW d \in Drainers, DrainStep(d)
  PROVE  RecordType' /\ MoneyType'
<1>1. CASE DrainDies(d)
  BY <1>1 DEF DrainDies, TypesInv, RecordType, MoneyType, recordVars, ledgerVars, vendorVars
<1>2. ASSUME NEW p \in Payments, DrainTakes(d, p) PROVE RecordType' /\ MoneyType'
  <2> DEFINE x == [phase |-> "handling", of |-> p, saw |-> settle.status]
  <2>1. x \in Handling
    BY DEF Handling, TypesInv, MoneyType, SettleRow
  <2>2. drain' = [drain EXCEPT ![d] = x]
    BY <1>2 DEF DrainTakes
  <2> HIDE DEF x
  <2>3. drain' \in [Drainers -> {Idle} \cup Handling]
    BY <2>1, <2>2 DEF TypesInv, RecordType
  <2> QED
    BY <1>2, <2>3 DEF DrainTakes, TypesInv, RecordType, MoneyType, recordVars, ledgerVars,
       vendorVars
<1>3. ASSUME NEW p \in Payments, ApplyRefund(d, p) PROVE RecordType' /\ MoneyType'
  <2>1. settle' \in SettleRow
    BY <1>3, TotalsRow DEF ApplyRefund, TypesInv, MoneyType, ClockType
  <2>2. adjusted' \in [Payments -> Nat]
    BY <1>3 DEF ApplyRefund, TypesInv, RecordType
  <2>3. drain' \in [Drainers -> {Idle} \cup Handling]
    BY <1>3 DEF ApplyRefund, TypesInv, RecordType
  <2>4. outbox' \subseteq {"confirmed", "refunded"} \X Payments
    BY <1>3 DEF ApplyRefund, Published, TypesInv, RecordType
  <2> QED
    BY <1>3, <2>1, <2>2, <2>3, <2>4 DEF ApplyRefund, Published, TypesInv, RecordType, MoneyType,
       recordVars, vendorVars
<1> QED
  BY <1>1, <1>2, <1>3 DEF DrainStep

LEMMA TypesNext ==
  ASSUME TypesInv, [SettleNext]_settleVars
  PROVE  TypesInv'
<1>1. ASSUME UNCHANGED release PROVE ReleaseType'
  BY <1>1 DEF TypesInv, ReleaseType, Holds
<1>2. ASSUME NEW p \in Payments, Capture(p) PROVE TypesInv'
  <2>1. /\ pay' \in [Payments -> PayStatus] /\ delivered' \subseteq Payments
        /\ outbox' \subseteq {"confirmed", "refunded"} \X Payments
    BY <1>2 DEF Capture, TypesInv, RecordType, PayStatus
  <2> QED
    BY <1>1, <1>2, <2>1 DEF Capture, TypesInv, ClockType, RecordType, MoneyType, clockVars,
       ledgerVars, vendorVars
<1>3. ASSUME NEW p \in Payments, RefundRecorded(p) PROVE TypesInv'
  <2>1. /\ pay' \in [Payments -> PayStatus]
        /\ outbox' \subseteq {"confirmed", "refunded"} \X Payments
    BY <1>3 DEF RefundRecorded, TypesInv, RecordType, PayStatus
  <2> QED
    BY <1>1, <1>3, <2>1 DEF RefundRecorded, TypesInv, ClockType, RecordType, MoneyType, clockVars,
       ledgerVars, vendorVars
<1>4. ASSUME NEW p \in Payments, ApplyConfirmed(p) PROVE TypesInv'
  <2>1. settle' \in SettleRow
    BY <1>4, TotalsRow DEF ApplyConfirmed, TypesInv, MoneyType, ClockType
  <2>2. outbox' \subseteq {"confirmed", "refunded"} \X Payments
    BY <1>4 DEF ApplyConfirmed, Published, TypesInv, RecordType
  <2> QED
    BY <1>1, <1>4, <2>1, <2>2 DEF ApplyConfirmed, Published, TypesInv, ClockType, RecordType,
       MoneyType, clockVars, recordVars, vendorVars
<1>5. ASSUME NEW d \in Drainers, DrainStep(d) PROVE TypesInv'
  <2>1. UNCHANGED <<clockVars, release>>
    BY <1>5 DEF DrainStep, DrainTakes, ApplyRefund, DrainDies, Published
  <2> QED
    BY <1>1, <1>5, <2>1, DrainTypes DEF TypesInv, ClockType, clockVars
<1>6. CASE ReleaseDue \/ RequestRelease
  BY <1>1, <1>6 DEF ReleaseDue, RequestRelease, TypesInv, ClockType, RecordType, MoneyType,
     clockVars, recordVars, ledgerVars, vendorVars
<1>7. ASSUME NEW end \in 0 .. MaxTime, MoveEvent(end) PROVE TypesInv'
  <2>1. windowEnds' \in Nat /\ moves' \in Nat
    BY <1>7, SettlementConstants DEF MoveEvent, TypesInv, ClockType
  <2> QED
    BY <1>1, <1>7, <2>1 DEF MoveEvent, TypesInv, ClockType, RecordType, MoneyType, recordVars,
       ledgerVars, vendorVars
<1>8. CASE LinkAccount \/ SettleTick
  <2>1. now' \in Nat /\ windowEnds' \in Nat /\ moves' \in Nat
    BY <1>8 DEF LinkAccount, SettleTick, TypesInv, ClockType
  <2>2. account' \in BOOLEAN
    BY <1>8, Zenon DEF LinkAccount, SettleTick, TypesInv, ClockType
  <2>3. UNCHANGED <<recordVars, outbox, drain, ledgerVars, tasks, release, vendorVars>>
    BY <1>8 DEF LinkAccount, SettleTick
  <2> QED
    BY <1>1, <2>1, <2>2, <2>3 DEF TypesInv, ClockType, RecordType, MoneyType, recordVars,
       ledgerVars, vendorVars
<1>9. CASE UNCHANGED settleVars
  BY <1>1, <1>9 DEF settleVars, TypesInv, ClockType, RecordType, MoneyType, clockVars, recordVars,
     ledgerVars, vendorVars
<1> QED
  BY <1>2, <1>3, <1>4, <1>5, <1>6, <1>7, <1>8, <1>9, ReleaseTypes DEF SettleNext

LEMMA TypesInit == SettleInit => TypesInv
<1> SUFFICES ASSUME SettleInit PROVE TypesInv
  OBVIOUS
<1>1. NoRow \in SettleRow
  BY DEF NoRow, SettleRow
<1>2. Idle.phase = "idle"
  BY DEF Idle
<1>3. ReleaseType
  BY <1>2 DEF SettleInit, ReleaseType, Holds, Unheld
<1>4. RecordType
  BY DEF SettleInit, RecordType, PayStatus
<1>5. MoneyType
  <2>1. tasks \in BOOLEAN
    BY Zenon DEF SettleInit
  <2>2. settle \in SettleRow /\ paidRows \in Seq(Nat) /\ paidOut \in Nat
    BY <1>1 DEF SettleInit
  <2>3. basis \in [Payments -> PayStatus]
    BY DEF SettleInit, PayStatus
  <2> QED BY <2>1, <2>2, <2>3 DEF MoneyType
<1>6. ClockType
  <2>1. now \in Nat /\ windowEnds \in Nat /\ moves \in Nat
    BY SettlementConstants DEF SettleInit
  <2>2. account \in BOOLEAN
    BY Zenon DEF SettleInit
  <2> QED BY <2>1, <2>2 DEF ClockType
<1> QED
  BY <1>3, <1>4, <1>5, <1>6 DEF TypesInv

LEMMA TypesHold == SettleSpec => []TypesInv
  BY TypesInit, TypesNext, PTL DEF SettleSpec

(* The row, its attempts, and every worker's phase have their types,       *)
(* whatever amounts the running totals and the records come to.            *)
THEOREM SettleTypeCorrect == SettleSpec => []SettleTypeOK
<1>1. TypesInv => SettleTypeOK
  <2> SUFFICES ASSUME TypesInv PROVE SettleTypeOK
    OBVIOUS
  <2>1. \A w \in Workers :
          release[w].phase \in {"idle", "waiting", "calling", "paid", "refused", "retrying"}
    BY HeldPhases DEF TypesInv, Holds, Unheld, Idle, Waiting, Retrying
  <2>2. /\ settle.status \in {"none", "pending", "paid", "failed"}
        /\ settle.attempts \in Nat /\ settle.net \in Int
    BY DEF TypesInv, MoneyType, SettleRow
  <2> QED
    BY <2>1, <2>2 DEF TypesInv, ClockType, RecordType, MoneyType, PayStatus, SettleTypeOK
<1> QED
  BY <1>1, TypesHold, PTL

-----------------------------------------------------------------------------
(* The right amount.  A payout may leave long after the records were read: *)
(* what was read must still be what the payout's basis comes to, although  *)
(* payments are captured and refunded meanwhile.                           *)

(* The net of the records, given the payments whose booking was confirmed. *)
NetGiven(confirmed, status) ==
  LET kept == [p \in Payments |-> Amount[p] - Fee[p] - Donation[p]]
      refunds == [p \in Payments |-> IF p \in confirmed THEN Amount[p] - Donation[p] ELSE Amount[p]]
  IN SumFunctionOnSet(kept, Captured(status)) - SumFunctionOnSet(refunds, Refunded(status))

LEMMA NetIsGiven == \A status : NetOf(status) = NetGiven(delivered, status)
  BY DEF NetOf, NetGiven, Refunds, RefundAmount

(* A booking confirmed later does not change the net of older records.     *)
LEMMA NetStays ==
  ASSUME NEW S, NEW T, NEW status,
         \A p \in Payments : status[p] # "none" => (p \in S <=> p \in T)
  PROVE  NetGiven(S, status) = NetGiven(T, status)
<1> DEFINE Due(U) == [p \in Payments |-> IF p \in U THEN Amount[p] - Donation[p] ELSE Amount[p]]
<1>1. Refunded(status) \subseteq Payments /\ \A p \in Refunded(status) : Due(S)[p] = Due(T)[p]
  BY DEF Refunded
<1>2. IsFiniteSet(Refunded(status))
  BY <1>1, PaymentSums
<1>3. SumFunctionOnSet(Due(S), Refunded(status)) = SumFunctionOnSet(Due(T), Refunded(status))
  <2> HIDE DEF Due
  <2> QED BY <1>1, <1>2, SumEqual
<1> QED
  BY <1>3 DEF NetGiven

(* Records that were made before: their payments have been captured.       *)
Older(status) == \A p \in Payments : status[p] # "none" => pay[p] # "none"

AmountsInv ==
  /\ \A w \in Workers : Holds(w) =>
       /\ release[w].row.net = NetGiven(delivered, release[w].of)
       /\ Older(release[w].of)
  /\ Older(basis)
  /\ paidOut # 0 => paidOut = NetGiven(delivered, basis)

(* A captured payment stays captured, and its booking's fate is settled.   *)
LEMMA RecordsGrow ==
  ASSUME TypesInv, [SettleNext]_settleVars
  PROVE  \A p \in Payments : pay[p] # "none" =>
           pay'[p] # "none" /\ (p \in delivered <=> p \in delivered')
<1>1. CASE UNCHANGED recordVars
  BY <1>1 DEF recordVars
<1>2. ASSUME NEW q \in Payments, Capture(q) \/ RefundRecorded(q)
      PROVE  \A p \in Payments : pay[p] # "none" =>
               pay'[p] # "none" /\ (p \in delivered <=> p \in delivered')
  BY <1>2 DEF Capture, RefundRecorded, TypesInv, RecordType
<1>3. ASSUME NEW w \in Workers, ReleaseStep(w) PROVE UNCHANGED recordVars
  BY <1>3 DEF ReleaseStep, Decide, Conclude, ReleaseBegin, ReleaseSkips, SettleZero,
     NoPayoutAccount, CallVendor, VendorPays, VendorFails, ReleasePaid, ReleaseFailed,
     Reenqueue, ReleaseDies, Others
<1>4. ASSUME NEW d \in Drainers, DrainStep(d) PROVE UNCHANGED recordVars
  BY <1>4 DEF DrainStep, DrainTakes, ApplyRefund, DrainDies, Published
<1> QED
  BY <1>1, <1>2, <1>3, <1>4 DEF SettleNext, ApplyConfirmed, Published, ReleaseDue,
     RequestRelease, MoveEvent, LinkAccount, SettleTick, settleVars

(* The net of older records, and their age, outlast a step.                *)
LEMMA NetOutlasts ==
  ASSUME TypesInv, [SettleNext]_settleVars, NEW status,
         \A p \in Payments : status[p] # "none" => pay[p] # "none"
  PROVE  /\ NetGiven(delivered', status) = NetGiven(delivered, status)
         /\ \A p \in Payments : status[p] # "none" => pay'[p] # "none"
  BY RecordsGrow, NetStays

(* A worker that holds a row has it from before, or has just read it.      *)
LEMMA MovesKeepRows ==
  ASSUME ReleaseType, NEW w \in Workers, Moves(w), NEW v \in Workers, Holds(v)'
  PROVE  \/ Holds(v) /\ release'[v].row = release[v].row /\ release'[v].of = release[v].of
         \/ release'[v].row = Recomputed /\ release'[v].of = pay
<1>1. CASE release' = release
  BY <1>1 DEF Holds
<1>2. CASE release' # release
  <2>1. PICK x : release' = [release EXCEPT ![w] = x]
    BY <1>2 DEF Moves, Done, Waits, Retries
  <2>2. CASE v # w
    BY <2>1, <2>2 DEF Holds, ReleaseType
  <2>3. CASE v = w
    <3>1. Idle.phase = "idle" /\ Waiting.phase = "waiting" /\ Retrying.phase = "retrying"
      BY DEF Idle, Waiting, Retrying
    <3>2. \A y : release' = [release EXCEPT ![w] = y] => release'[v] = y
      BY <2>3 DEF ReleaseType
    <3>3. ~Done(w) /\ ~Waits(w) /\ ~Retries(w)
      BY <3>1, <3>2 DEF Done, Waits, Retries, Waiting, Retrying, Holds
    <3>4. CASE \E phase \in {"paid", "refused"} : Holds(w) /\
             release' = [release EXCEPT ![w] = [phase |-> phase, row |-> release[w].row,
                                                of |-> release[w].of]]
      BY <2>3, <3>2, <3>4
    <3>5. CASE release' = [release EXCEPT ![w] = [phase |-> "calling", row |-> Recomputed,
                                                 of |-> pay]]
      <4> DEFINE r == Recomputed
      <4>1. release'[v] = [phase |-> "calling", row |-> r, of |-> pay]
        BY <3>2, <3>5
      <4> HIDE DEF r
      <4>2. release'[v].row = r /\ release'[v].of = pay
        BY <4>1
      <4> QED BY <4>2 DEF r
    <3> QED BY <1>2, <3>3, <3>4, <3>5 DEF Moves
  <2> QED BY <2>2, <2>3
<1> QED
  BY <1>1, <1>2

(* What the release workers hold.                                          *)
LEMMA HeldAmounts ==
  ASSUME TypesInv, AmountsInv, [SettleNext]_settleVars,
         release' = release \/ \E w \in Workers : Moves(w)
  PROVE  \A v \in Workers : Holds(v)' =>
           /\ release'[v].row.net = NetGiven(delivered', release'[v].of)
           /\ \A p \in Payments : release'[v].of[p] # "none" => pay'[p] # "none"
<1> SUFFICES ASSUME NEW v \in Workers, Holds(v)'
             PROVE  /\ release'[v].row.net = NetGiven(delivered', release'[v].of)
                    /\ \A p \in Payments : release'[v].of[p] # "none" => pay'[p] # "none"
  OBVIOUS
<1>1. CASE /\ Holds(v) /\ release'[v].row = release[v].row /\ release'[v].of = release[v].of
  BY <1>1, NetOutlasts DEF AmountsInv, Older
<1>2. CASE /\ release'[v].row = Recomputed /\ release'[v].of = pay
  <2>1. Recomputed.net = NetGiven(delivered, pay)
    BY RecomputedRow, NetIsGiven DEF TypesInv, MoneyType
  <2> QED BY <1>2, <2>1, NetOutlasts
<1>3. CASE release' = release
  BY <1>1, <1>3 DEF Holds
<1> QED
  BY <1>1, <1>2, <1>3, MovesKeepRows DEF TypesInv

LEMMA AmountsNext ==
  ASSUME TypesInv, AmountsInv, [SettleNext]_settleVars
  PROVE  AmountsInv'
<1>1. release' = release \/ \E w \in Workers : Moves(w)
  <2>1. ASSUME NEW d \in Drainers, DrainStep(d) PROVE release' = release
    BY <2>1 DEF DrainStep, DrainTakes, ApplyRefund, DrainDies, Published
  <2>2. ASSUME NEW w \in Workers, ReleaseStep(w) PROVE Moves(w)
    BY <2>2, ReleaseMoves DEF TypesInv
  <2> QED
    BY <2>1, <2>2 DEF SettleNext, Capture, RefundRecorded, ApplyConfirmed, Published, ReleaseDue,
       RequestRelease, MoveEvent, LinkAccount, SettleTick, settleVars
<1>2. UNCHANGED vendorVars
      \/ \E w \in Workers : Holds(w) /\ paidOut' = release[w].row.net /\ basis' = release[w].of
  <2>1. ASSUME NEW d \in Drainers, DrainStep(d) PROVE UNCHANGED vendorVars
    BY <2>1 DEF DrainStep, DrainTakes, ApplyRefund, DrainDies, Published
  <2>2. ASSUME NEW w \in Workers, ReleaseStep(w)
        PROVE  \/ UNCHANGED vendorVars
               \/ Holds(w) /\ paidOut' = release[w].row.net /\ basis' = release[w].of
    BY <2>2 DEF ReleaseStep, Decide, Conclude, ReleaseBegin, ReleaseSkips, SettleZero,
       NoPayoutAccount, CallVendor, VendorPays, VendorFails, ReleasePaid, ReleaseFailed,
       Reenqueue, ReleaseDies, Others, Holds
  <2> QED
    BY <2>1, <2>2 DEF SettleNext, Capture, RefundRecorded, ApplyConfirmed, Published, ReleaseDue,
       RequestRelease, MoveEvent, LinkAccount, SettleTick, settleVars
<1>3. (\A p \in Payments : basis'[p] # "none" => pay'[p] # "none")
      /\ (paidOut' # 0 => paidOut' = NetGiven(delivered', basis'))
  <2>1. CASE UNCHANGED vendorVars
    BY <2>1, NetOutlasts DEF AmountsInv, Older, vendorVars
  <2>2. ASSUME NEW w \in Workers, Holds(w), paidOut' = release[w].row.net, basis' = release[w].of
        PROVE  <1>3!1 /\ <1>3!2
    BY <2>2, NetOutlasts DEF AmountsInv, Older
  <2> QED BY <1>2, <2>1, <2>2
<1> QED
  BY <1>1, <1>3, HeldAmounts DEF AmountsInv, Older

(* "The RIGHT amount": however long a payout takes, and whatever is        *)
(* captured, refunded or announced meanwhile, what leaves the platform is  *)
(* the net of the payment and refund records that the release read under   *)
(* its lock, also when a worker died and the vendor's idempotency key      *)
(* returned the payout of an earlier one.                                  *)
THEOREM PaysTheRightAmount == SettleSpec => []PaysTheRecords
<1>1. SettleInit => AmountsInv
  BY DEF SettleInit, AmountsInv, Older, Holds, Idle
<1>2. AmountsInv => PaysTheRecords
  BY NetIsGiven DEF AmountsInv, PaysTheRecords
<1>3. SettleSpec => []AmountsInv
  BY <1>1, TypesHold, AmountsNext, PTL DEF SettleSpec
<1> QED
  BY <1>2, <1>3, PTL

-----------------------------------------------------------------------------
(* The running totals.                                                     *)

(* Events are about what is on record, and only one drain handles each.    *)
EventsInv ==
  /\ \A p \in Payments : <<"confirmed", p>> \in outbox => p \in delivered
  /\ \A p \in delivered : pay[p] # "none"
  /\ \A p \in Payments : <<"refunded", p>> \in outbox => pay[p] = "refunded"
  /\ \A d \in Drainers : drain[d] # Idle => <<"refunded", drain[d].of>> \in outbox
  /\ \A c, d \in Drainers :
       drain[c] # Idle /\ drain[d] # Idle /\ drain[c].of = drain[d].of => c = d

(* No release before the first event, and none is over without an attempt. *)
StartedInv ==
  /\ settle.status = "none" =>
       /\ settle.gross = 0 /\ settle.refunds = 0 /\ settle.attempts = 0
       /\ ~tasks /\ \A w \in Workers : release[w] = Idle
  /\ \A w \in Workers : Holds(w) => release[w].row.status # "none"
  /\ settle.status = "paid" => settle.attempts > 0
  /\ \A d \in Drainers : drain[d] # Idle /\ drain[d].saw = "paid" => settle.attempts > 0

ConfirmedTotal == SumFunctionOnSet(Amount, delivered \cap Counted("confirmed"))

RefundedTotal == SumFunctionOnSet(Refunds, Refunded(pay) \cap Counted("refunded"))

TotalsAgree ==
  settle.attempts = 0 => settle.gross = ConfirmedTotal /\ settle.refunds = RefundedTotal

CountInv == EventsInv /\ StartedInv /\ TotalsAgree

(* The sums stay when events are added, and grow by the event published.   *)
LEMMA EqualRefunds ==
  ASSUME NEW S \in SUBSET Payments, \A p \in S : p \in delivered <=> p \in delivered'
  PROVE  SumFunctionOnSet(Refunds', S) = SumFunctionOnSet(Refunds, S)
<1>1. \A p \in S : Refunds'[p] = Refunds[p]
  BY DEF Refunds, RefundAmount
<1>2. IsFiniteSet(S)
  BY PaymentSums
<1> HIDE DEF Refunds
<1> QED
  BY <1>1, <1>2, SumEqual

LEMMA SameTotals ==
  ASSUME delivered' \cap Counted("confirmed")' = delivered \cap Counted("confirmed"),
         Refunded(pay)' \cap Counted("refunded")' = Refunded(pay) \cap Counted("refunded"),
         \A p \in Refunded(pay) : p \in delivered <=> p \in delivered'
  PROVE  ConfirmedTotal' = ConfirmedTotal /\ RefundedTotal' = RefundedTotal
<1> DEFINE S == Refunded(pay) \cap Counted("refunded")
<1>1. S \in SUBSET Payments
  BY DEF Refunded
<1>2. SumFunctionOnSet(Refunds', S) = SumFunctionOnSet(Refunds, S)
  BY <1>1, EqualRefunds
<1> QED
  BY <1>2 DEF ConfirmedTotal, RefundedTotal

LEMMA TotalsGrow ==
  ASSUME RecordType, EventsInv, NEW p \in Payments, UNCHANGED recordVars
  PROVE  /\ <<"confirmed", p>> \in outbox /\ outbox' = outbox \ {<<"confirmed", p>>} =>
              ConfirmedTotal' = ConfirmedTotal + Amount[p] /\ RefundedTotal' = RefundedTotal
         /\ <<"refunded", p>> \in outbox /\ outbox' = outbox \ {<<"refunded", p>>} =>
              ConfirmedTotal' = ConfirmedTotal /\ RefundedTotal' = RefundedTotal + RefundAmount(p)
<1> DEFINE S == delivered \cap Counted("confirmed")
           T == Refunded(pay) \cap Counted("refunded")
<1>1. S \in SUBSET Payments /\ T \in SUBSET Payments
  BY DEF Refunded, Counted
<1>2. \A q \in Payments : Amount[q] \in Int /\ Refunds[q] \in Int /\ Refunds[q] = RefundAmount(q)
  BY SettlementConstants DEF Refunds, RefundAmount
<1>3. Refunds' = Refunds /\ pay' = pay /\ delivered' = delivered
  BY DEF Refunds, RefundAmount, recordVars
<1>4. ASSUME <<"confirmed", p>> \in outbox, outbox' = outbox \ {<<"confirmed", p>>}
      PROVE  ConfirmedTotal' = ConfirmedTotal + Amount[p] /\ RefundedTotal' = RefundedTotal
  <2>1. Counted("confirmed")' = Counted("confirmed") \cup {p} /\ p \notin Counted("confirmed")
    BY <1>4 DEF Counted
  <2>2. Counted("refunded")' = Counted("refunded")
    BY <1>4 DEF Counted
  <2>3. p \in delivered
    BY <1>4 DEF EventsInv
  <2>4. delivered' \cap Counted("confirmed")' = S \cup {p} /\ p \notin S
    BY <1>3, <2>1, <2>3
  <2>5. IsFiniteSet(S) /\ SumFunctionOnSet(Amount, S) \in Int
    BY <1>1, PaymentSums
  <2>6. SumFunctionOnSet(Amount, S \cup {p}) = Amount[p] + SumFunctionOnSet(Amount, S)
    <3> HIDE DEF S
    <3>1. \A q \in S \cup {p} : Amount[q] \in Int
      BY <1>1, <1>2
    <3> QED BY <2>4, <2>5, <3>1, SumAdd
  <2>7. ConfirmedTotal' = ConfirmedTotal + Amount[p]
    <3>1. ConfirmedTotal' = SumFunctionOnSet(Amount, S \cup {p})
      BY <2>4 DEF ConfirmedTotal
    <3>2. ConfirmedTotal = SumFunctionOnSet(Amount, S)
      BY DEF ConfirmedTotal
    <3> HIDE DEF S
    <3> QED BY <1>2, <2>5, <2>6, <3>1, <3>2
  <2>8. RefundedTotal' = RefundedTotal
    BY <1>3, <2>2 DEF RefundedTotal, Refunded
  <2> QED BY <2>7, <2>8
<1>5. ASSUME <<"refunded", p>> \in outbox, outbox' = outbox \ {<<"refunded", p>>}
      PROVE  ConfirmedTotal' = ConfirmedTotal /\ RefundedTotal' = RefundedTotal + RefundAmount(p)
  <2>1. Counted("refunded")' = Counted("refunded") \cup {p} /\ p \notin Counted("refunded")
    BY <1>5 DEF Counted
  <2>2. Counted("confirmed")' = Counted("confirmed")
    BY <1>5 DEF Counted
  <2>3. p \in Refunded(pay)
    BY <1>5 DEF EventsInv, Refunded
  <2>4. Refunded(pay)' \cap Counted("refunded")' = T \cup {p} /\ p \notin T
    BY <1>3, <2>1, <2>3 DEF Refunded
  <2>5. IsFiniteSet(T) /\ SumFunctionOnSet(Refunds, T) \in Int
    BY <1>1, PaymentSums
  <2>6. SumFunctionOnSet(Refunds, T \cup {p}) = Refunds[p] + SumFunctionOnSet(Refunds, T)
    <3> HIDE DEF T
    <3>1. \A q \in T \cup {p} : Refunds[q] \in Int
      BY <1>1, <1>2
    <3> QED BY <2>4, <2>5, <3>1, SumAdd
  <2>7. RefundedTotal' = RefundedTotal + RefundAmount(p)
    <3>1. RefundedTotal' = SumFunctionOnSet(Refunds, T \cup {p})
      BY <1>3, <2>4 DEF RefundedTotal
    <3>2. RefundedTotal = SumFunctionOnSet(Refunds, T)
      BY DEF RefundedTotal
    <3> HIDE DEF T
    <3> QED BY <1>2, <2>5, <2>6, <3>1, <3>2
  <2>8. ConfirmedTotal' = ConfirmedTotal
    BY <1>3, <2>2 DEF ConfirmedTotal
  <2> QED BY <2>7, <2>8
<1> QED
  BY <1>4, <1>5

-----------------------------------------------------------------------------
LEMMA CaptureCounts ==
  ASSUME TypesInv, CountInv, NEW p \in Payments, Capture(p) \/ RefundRecorded(p)
  PROVE  CountInv'
<1>1. StartedInv'
  BY DEF CountInv, StartedInv, Capture, RefundRecorded, Holds, ledgerVars
<1>2. EventsInv'
  <2>1. CASE Capture(p)
    BY <2>1 DEF CountInv, EventsInv, Capture, TypesInv, RecordType
  <2>2. CASE RefundRecorded(p)
    BY <2>2 DEF CountInv, EventsInv, RefundRecorded, TypesInv, RecordType
  <2> QED BY <2>1, <2>2
<1>3. ConfirmedTotal' = ConfirmedTotal /\ RefundedTotal' = RefundedTotal
  <2>1. CASE Capture(p)
    <3>1. p \notin delivered /\ p \notin Refunded(pay) /\ <<"confirmed", p>> \notin outbox
          /\ <<"refunded", p>> \notin outbox
      BY <2>1 DEF Capture, CountInv, EventsInv, Refunded
    <3>2. delivered' \cap Counted("confirmed")' = delivered \cap Counted("confirmed")
      BY <2>1, <3>1 DEF Capture, Counted, TypesInv, RecordType
    <3>3. Refunded(pay)' = Refunded(pay)
      BY <2>1 DEF Capture, Refunded, TypesInv, RecordType
    <3>4. Counted("refunded")' = Counted("refunded")
      BY <2>1 DEF Capture, Counted
    <3>5. \A q \in Refunded(pay) : q \in delivered <=> q \in delivered'
      BY <2>1, <3>1 DEF Capture
    <3> QED BY <3>2, <3>3, <3>4, <3>5, SameTotals
  <2>2. CASE RefundRecorded(p)
    <3>1. Refunded(pay)' = Refunded(pay) \cup {p} /\ p \notin Counted("refunded")'
      BY <2>2 DEF RefundRecorded, Refunded, Counted, TypesInv, RecordType
    <3>2. p \notin Refunded(pay)
      BY <2>2 DEF RefundRecorded, Refunded
    <3>3. \A q \in Payments \ {p} : q \in Counted("refunded")' <=> q \in Counted("refunded")
      BY <2>2 DEF RefundRecorded, Counted
    <3>4. Refunded(pay)' \cap Counted("refunded")' = Refunded(pay) \cap Counted("refunded")
      BY <3>1, <3>2, <3>3 DEF Refunded
    <3>5. delivered' = delivered /\ Counted("confirmed")' = Counted("confirmed")
      BY <2>2 DEF RefundRecorded, Counted
    <3> QED BY <3>4, <3>5, SameTotals
  <2> QED BY <2>1, <2>2
<1>4. settle' = settle
  BY DEF Capture, RefundRecorded, ledgerVars
<1> QED
  BY <1>1, <1>2, <1>3, <1>4 DEF CountInv, TotalsAgree

(* The handler's step: the totals and the outbox move together.            *)
LEMMA ConfirmedCounts ==
  ASSUME TypesInv, CountInv, NEW p \in Payments, ApplyConfirmed(p)
  PROVE  CountInv'
<1>1. /\ outbox' = outbox \ {<<"confirmed", p>>} /\ UNCHANGED <<recordVars, drain, tasks, release>>
      /\ <<"confirmed", p>> \in outbox
  BY DEF ApplyConfirmed, Published
<1>2. EventsInv'
  BY <1>1 DEF CountInv, EventsInv, recordVars
<1>3. ConfirmedTotal' = ConfirmedTotal + Amount[p] /\ RefundedTotal' = RefundedTotal
  BY <1>1, TotalsGrow DEF TypesInv, CountInv
<1>4. /\ settle'.status = Ensured.status /\ settle'.attempts = Ensured.attempts
      /\ settle'.refunds = Ensured.refunds /\ settle'.gross = Ensured.gross + Amount[p]
  BY TotalsRow DEF ApplyConfirmed, TypesInv, MoneyType, ClockType
<1>5. /\ Ensured.status # "none"
      /\ settle.status # "none" => Ensured = settle
      /\ settle.status = "none" => Ensured.attempts = settle.attempts
                                   /\ Ensured.gross = settle.gross
                                   /\ Ensured.refunds = settle.refunds
  BY EnsuredRow DEF TypesInv, MoneyType, ClockType, CountInv, StartedInv
<1>6. settle'.attempts = settle.attempts /\ settle'.refunds = settle.refunds
      /\ settle'.gross = settle.gross + Amount[p]
  BY <1>4, <1>5
<1>7. settle'.status # "none" /\ (settle'.status = "paid" => settle.status = "paid")
  <2>1. settle.status = "none" => Ensured.status = "pending"
    BY DEF Ensured, NoRow
  <2> QED BY <1>4, <1>5, <2>1
<1>8. StartedInv'
  BY <1>1, <1>6, <1>7 DEF CountInv, StartedInv, Holds
<1> QED
  BY <1>2, <1>3, <1>6, <1>8 DEF CountInv, TotalsAgree

LEMMA RefundCounts ==
  ASSUME TypesInv, CountInv, NEW d \in Drainers, NEW p \in Payments, ApplyRefund(d, p)
  PROVE  CountInv'
<1>1. /\ outbox' = outbox \ {<<"refunded", p>>} /\ UNCHANGED <<recordVars, tasks, release>>
      /\ <<"refunded", p>> \in outbox /\ drain[d] # Idle /\ drain[d].of = p
      /\ drain' = [drain EXCEPT ![d] = Idle]
  BY DEF ApplyRefund, Published, CountInv, EventsInv
<1>2. EventsInv'
  <2>1. \A c \in Drainers : drain'[c] = IF c = d THEN Idle ELSE drain[c]
    BY <1>1 DEF TypesInv, RecordType
  <2>2. \A c \in Drainers : drain'[c] # Idle => <<"refunded", drain'[c].of>> \in outbox'
    BY <1>1, <2>1 DEF CountInv, EventsInv
  <2> QED BY <1>1, <2>1, <2>2 DEF CountInv, EventsInv, recordVars
<1>3. ConfirmedTotal' = ConfirmedTotal /\ RefundedTotal' = RefundedTotal + RefundAmount(p)
  BY <1>1, TotalsGrow DEF TypesInv, CountInv
<1>4. CASE drain[d].saw = "paid"
  <2>1. settle' = settle /\ settle.attempts > 0
    BY <1>1, <1>4 DEF ApplyRefund, CountInv, StartedInv
  <2>2. StartedInv'
    BY <1>1, <2>1 DEF CountInv, StartedInv, Holds, TypesInv, RecordType
  <2> QED BY <1>2, <2>1, <2>2 DEF CountInv, TotalsAgree, TypesInv, MoneyType, SettleRow
<1>5. CASE drain[d].saw # "paid"
  <2>1. /\ settle'.status = Ensured.status /\ settle'.attempts = Ensured.attempts
        /\ settle'.gross = Ensured.gross /\ settle'.refunds = Ensured.refunds + RefundAmount(p)
    BY <1>5, TotalsRow DEF ApplyRefund, TypesInv, MoneyType, ClockType
  <2>2. /\ Ensured.status # "none"
        /\ settle.status # "none" => Ensured = settle
        /\ settle.status = "none" => Ensured.attempts = settle.attempts
                                     /\ Ensured.gross = settle.gross
                                     /\ Ensured.refunds = settle.refunds
    BY EnsuredRow DEF TypesInv, MoneyType, ClockType, CountInv, StartedInv
  <2>3. settle'.attempts = settle.attempts /\ settle'.gross = settle.gross
        /\ settle'.refunds = settle.refunds + RefundAmount(p)
    BY <2>1, <2>2
  <2>4. settle'.status # "none" /\ (settle'.status = "paid" => settle.status = "paid")
    <3>1. settle.status = "none" => Ensured.status = "pending"
      BY DEF Ensured, NoRow
    <3> QED BY <2>1, <2>2, <3>1
  <2>5. StartedInv'
    BY <1>1, <2>3, <2>4 DEF CountInv, StartedInv, Holds, TypesInv, RecordType
  <2> QED
    BY <1>2, <1>3, <2>3, <2>5 DEF CountInv, TotalsAgree
<1> QED
  BY <1>4, <1>5

(* Steps that leave the records, the outbox and the drains alone.          *)
LEMMA TotalsStay ==
  ASSUME CountInv, UNCHANGED <<recordVars, outbox, drain>>
  PROVE  /\ EventsInv'
         /\ ConfirmedTotal' = ConfirmedTotal /\ RefundedTotal' = RefundedTotal
<1>1. EventsInv'
  BY DEF CountInv, EventsInv, recordVars
<1>2. ConfirmedTotal' = ConfirmedTotal /\ RefundedTotal' = RefundedTotal
  BY DEF ConfirmedTotal, RefundedTotal, Counted, Refunded, Refunds, RefundAmount, recordVars
<1> QED
  BY <1>1, <1>2

LEMMA DrainCounts ==
  ASSUME TypesInv, CountInv, NEW d \in Drainers, DrainStep(d)
  PROVE  CountInv'
<1>1. ASSUME \/ DrainDies(d)
             \/ \E p \in Payments : DrainTakes(d, p)
      PROVE  CountInv'
  <2>1. UNCHANGED <<recordVars, outbox, settle, tasks, release>>
    BY <1>1 DEF DrainDies, DrainTakes, ledgerVars
  <2>2. ConfirmedTotal' = ConfirmedTotal /\ RefundedTotal' = RefundedTotal
    BY <2>1 DEF ConfirmedTotal, RefundedTotal, Counted, Refunded, Refunds, RefundAmount, recordVars
  <2>3. CASE DrainDies(d)
    <3>1. \A c \in Drainers : drain'[c] = IF c = d THEN Idle ELSE drain[c]
      BY <2>3 DEF DrainDies, TypesInv, RecordType
    <3>2. EventsInv' /\ StartedInv'
      BY <2>1, <3>1 DEF CountInv, EventsInv, StartedInv, Holds, recordVars
    <3> QED BY <2>1, <2>2, <3>2 DEF CountInv, TotalsAgree
  <2>4. ASSUME NEW p \in Payments, DrainTakes(d, p) PROVE CountInv'
    <3> DEFINE x == [phase |-> "handling", of |-> p, saw |-> settle.status]
    <3>1. \A c \in Drainers : drain'[c] = IF c = d THEN x ELSE drain[c]
      BY <2>4 DEF DrainTakes, TypesInv, RecordType
    <3>2. x.of = p /\ x.saw = settle.status
      OBVIOUS
    <3>3. <<"refunded", p>> \in outbox /\ \A c \in Drainers : drain[c] # Idle => drain[c].of # p
      BY <2>4 DEF DrainTakes
    <3> HIDE DEF x
    <3>4. EventsInv'
      <4>1. \A c \in Drainers : drain'[c] # Idle => <<"refunded", drain'[c].of>> \in outbox'
        BY <2>1, <3>1, <3>2, <3>3 DEF CountInv, EventsInv
      <4>2. \A b, c \in Drainers :
              drain'[b] # Idle /\ drain'[c] # Idle /\ drain'[b].of = drain'[c].of => b = c
        BY <3>1, <3>2, <3>3 DEF CountInv, EventsInv
      <4> QED BY <2>1, <4>1, <4>2 DEF CountInv, EventsInv, recordVars
    <3>5. StartedInv'
      BY <2>1, <3>1, <3>2 DEF CountInv, StartedInv, Holds
    <3> QED BY <2>1, <2>2, <3>4, <3>5 DEF CountInv, TotalsAgree
  <2> QED BY <1>1, <2>3, <2>4
<1> QED
  BY <1>1, RefundCounts DEF DrainStep

LEMMA ReleaseCounts ==
  ASSUME TypesInv, CountInv, NEW w \in Workers, ReleaseStep(w)
  PROVE  CountInv'
<1>1. UNCHANGED <<recordVars, outbox, drain>>
  BY DEF ReleaseStep, Decide, Conclude, ReleaseBegin, ReleaseSkips, SettleZero, NoPayoutAccount,
     CallVendor, VendorPays, VendorFails, ReleasePaid, ReleaseFailed, Reenqueue, ReleaseDies, Others
<1>2. Moves(w)
  BY ReleaseMoves DEF TypesInv
<1>3. settle.status # "none"
  <2>1. tasks \/ release[w] # Idle
    BY HeldPhases DEF TypesInv, ReleaseStep, Decide, Conclude, ReleaseBegin, ReleaseSkips,
       SettleZero, NoPayoutAccount, CallVendor, MayRelease, Locks, VendorPays, VendorFails,
       ReleasePaid, ReleaseFailed, Reenqueue, ReleaseDies
  <2> QED BY <2>1 DEF CountInv, StartedInv
<1>4. \/ settle' = settle
      \/ settle'.attempts > 0 /\ settle'.status \in {"paid", "failed", CarriedStatus(w)}
  BY ReleaseWrites DEF TypesInv, Writes
<1>5. settle'.status # "none"
  BY <1>3, <1>4 DEF CarriedStatus, CountInv, StartedInv
<1>6. \A v \in Workers : Holds(v)' => release'[v].row.status # "none"
  <2> SUFFICES ASSUME NEW v \in Workers, Holds(v)' PROVE release'[v].row.status # "none"
    OBVIOUS
  <2>1. CASE Holds(v) /\ release'[v].row = release[v].row
    BY <2>1 DEF CountInv, StartedInv
  <2>2. CASE release'[v].row = Recomputed
    BY <1>3, <2>2, RecomputedRow DEF TypesInv, MoneyType
  <2> QED BY <1>2, <2>1, <2>2, MovesKeepRows DEF TypesInv
<1>7. StartedInv'
  BY <1>1, <1>4, <1>5, <1>6 DEF CountInv, StartedInv
<1>8. TotalsAgree'
  BY <1>1, <1>4, TotalsStay DEF CountInv, TotalsAgree
<1> QED
  BY <1>1, <1>7, <1>8, TotalsStay DEF CountInv

LEMMA CountNext ==
  ASSUME TypesInv, CountInv, [SettleNext]_settleVars
  PROVE  CountInv'
<1>1. ASSUME UNCHANGED <<recordVars, outbox, drain, settle, release>>,
             tasks' = tasks \/ settle.status # "none"
      PROVE  CountInv'
  BY <1>1, TotalsStay DEF CountInv, StartedInv, TotalsAgree, Holds
<1>2. CASE ReleaseDue \/ RequestRelease
  BY <1>1, <1>2 DEF ReleaseDue, RequestRelease, ledgerVars
<1>3. CASE LinkAccount \/ SettleTick \/ \E end \in 0 .. MaxTime : MoveEvent(end)
  BY <1>1, <1>3 DEF LinkAccount, SettleTick, MoveEvent, ledgerVars
<1>4. CASE UNCHANGED settleVars
  BY <1>1, <1>4 DEF settleVars, ledgerVars
<1> QED
  BY <1>2, <1>3, <1>4, CaptureCounts, ConfirmedCounts, DrainCounts, ReleaseCounts DEF SettleNext

(* Until a release rewrites the row, the totals are what the published     *)
(* events say, however many drains there are and however often one dies    *)
(* with an event in hand: each event is counted once, for its own amount.  *)
THEOREM TotalsAreExact == SettleSpec => []RunningTotalsAgree
<1>1. SettleInit => CountInv
  <2> SUFFICES ASSUME SettleInit PROVE CountInv
    OBVIOUS
  <2>1. EventsInv /\ StartedInv
    BY DEF SettleInit, EventsInv, StartedInv, NoRow, Holds, Idle
  <2>2. delivered \cap Counted("confirmed") = {} /\ Refunded(pay) \cap Counted("refunded") = {}
    BY DEF SettleInit, Refunded
  <2>3. ConfirmedTotal = 0 /\ RefundedTotal = 0
    BY <2>2, SumEmpty DEF ConfirmedTotal, RefundedTotal
  <2> QED BY <2>1, <2>3 DEF CountInv, TotalsAgree, SettleInit, NoRow
<1>2. CountInv => RunningTotalsAgree
  BY DEF CountInv, TotalsAgree, RunningTotalsAgree, ConfirmedTotal, RefundedTotal
<1>3. SettleSpec => []CountInv
  BY <1>1, TypesHold, CountNext, PTL DEF SettleSpec
<1> QED
  BY <1>2, <1>3, PTL

-----------------------------------------------------------------------------
(* The payout seen from outside.  A worker that has the vendor's answer    *)
(* will record it, so what it records must have been sent.                 *)
SentInv == \A w \in Workers : release[w].phase = "paid" => paidOut # 0

PayoutInv == TypesInv /\ OnceInv /\ SentInv

(* Neither money, nor a line on the books, nor the end of the debt.        *)
Quiet ==
  /\ UNCHANGED <<paidOut, paidRows>>
  /\ (settle.status = "paid") <=> (settle'.status = "paid")

(* A call of the vendor sends the carried amount, if none was sent.        *)
LEMMA VendorSends ==
  ASSUME PayoutInv, NEW w \in Workers, VendorPays(w)
  PROVE  /\ settle.status # "paid" /\ paidOut' \in Nat \ {0}
         /\ paidOut # 0 => paidOut' = paidOut
         /\ UNCHANGED <<settle, paidRows>>
<1>1. Holds(w)
  BY DEF VendorPays, Holds
<1>2. release[w].row.net \in Nat \ {0} /\ paidOut \in Nat
  BY <1>1, HeldPhases DEF PayoutInv, TypesInv, MoneyType
<1>3. settle.status # "paid"
  BY <1>1 DEF PayoutInv, OnceInv, LockInv
<1>4. UNCHANGED <<settle, paidRows>>
  BY DEF VendorPays, ledgerVars
<1>5. paidOut' = IF paidOut = 0 THEN release[w].row.net ELSE paidOut
  BY DEF VendorPays, vendorVars
<1> QED BY <1>2, <1>3, <1>4, <1>5

(* Every other step of a worker leaves the vendor alone.                   *)
LEMMA OnlyVendorPays ==
  ASSUME NEW w \in Workers, ReleaseStep(w), ~VendorPays(w)
  PROVE  UNCHANGED paidOut
  BY DEF ReleaseStep, Decide, Conclude, ReleaseBegin, ReleaseSkips, SettleZero, NoPayoutAccount,
     CallVendor, VendorFails, ReleasePaid, ReleaseFailed, Reenqueue, ReleaseDies, Others, vendorVars

LEMMA SentRelease ==
  ASSUME PayoutInv, NEW w \in Workers, ReleaseStep(w)
  PROVE  SentInv'
<1>1. paidOut # 0 => paidOut' # 0
  BY VendorSends, OnlyVendorPays
<1>2. \E x : release' = [release EXCEPT ![w] = x]
  <2>1. release = [v \in Workers |-> release[v]]
    BY DEF PayoutInv, OnceInv, LockInv
  <2>2. release = [release EXCEPT ![w] = release[w]]
    BY <2>1
  <2> QED BY <2>2, ReleaseMoves DEF PayoutInv, TypesInv, Moves, Done, Waits,
         Retries
<1>3. \A v \in Workers : v # w => release'[v] = release[v]
  BY <1>2 DEF PayoutInv, TypesInv, ReleaseType
<1>4. release'[w].phase = "paid" => paidOut' # 0
  <2>1. CASE VendorPays(w)
    BY <2>1, VendorSends
  <2>2. CASE UNCHANGED release
    BY <1>1, <2>2 DEF PayoutInv, SentInv
  <2>3. CASE ~VendorPays(w) /\ release' # release
    <3>1. \E x : x.phase # "paid" /\ release' = [release EXCEPT ![w] = x]
      <4>1. CASE Done(w) \/ Retries(w)
        BY <4>1 DEF Done, Retries, Idle
      <4>2. CASE ReleaseBegin(w)
        BY <2>3, <4>2 DEF ReleaseBegin
      <4>3. CASE CallVendor(w)
        BY <4>3 DEF CallVendor
      <4>4. CASE VendorFails(w)
        <5>1. [release[w] EXCEPT !.phase = "refused"].phase = "refused"
          <6>1. release[w] \in Held
            BY <4>4, HeldPhases DEF PayoutInv, TypesInv, VendorFails, Holds
          <6> QED BY <6>1 DEF Held
        <5> QED BY <4>4, <5>1 DEF VendorFails
      <4> QED
        BY <2>3, <4>1, <4>2, <4>3, <4>4 DEF ReleaseStep, Decide, Conclude, ReleaseSkips,
           SettleZero, NoPayoutAccount, ReleasePaid, ReleaseFailed, Reenqueue, ReleaseDies
    <3>2. release'[w].phase # "paid"
      BY <3>1 DEF PayoutInv, TypesInv, ReleaseType
    <3> QED BY <3>2
  <2> QED BY <2>1, <2>2, <2>3
<1> QED BY <1>1, <1>3, <1>4 DEF PayoutInv, SentInv

(* Outside a release nothing is paid: the totals keep the status.          *)
LEMMA OthersAreQuiet ==
  ASSUME PayoutInv, [SettleNext]_settleVars, ~\E w \in Workers : ReleaseStep(w)
  PROVE  Quiet /\ UNCHANGED release
<1>1. ASSUME NEW p \in Payments, Capture(p) \/ RefundRecorded(p) PROVE Quiet /\ UNCHANGED release
  BY <1>1 DEF Capture, RefundRecorded, ledgerVars, vendorVars, Quiet
<1>2. ASSUME NEW p \in Payments, ApplyConfirmed(p) PROVE Quiet /\ UNCHANGED release
  BY <1>2, TotalsKeepStatus DEF ApplyConfirmed, Published, vendorVars, Quiet, PayoutInv, OnceInv
<1>3. ASSUME NEW d \in Drainers, DrainStep(d) PROVE Quiet /\ UNCHANGED release
  <2>1. ASSUME NEW p \in Payments, ApplyRefund(d, p) PROVE Quiet /\ UNCHANGED release
    <3>1. (settle.status = "paid") <=> (settle'.status = "paid")
      BY <2>1, TotalsKeepStatus DEF ApplyRefund, PayoutInv, OnceInv
    <3> QED BY <2>1, <3>1 DEF ApplyRefund, Published, vendorVars, Quiet
  <2>2. ASSUME DrainDies(d) \/ (\E p \in Payments : DrainTakes(d, p))
        PROVE  Quiet /\ UNCHANGED release
    BY <2>2 DEF DrainDies, DrainTakes, ledgerVars, vendorVars, Quiet
  <2> QED BY <1>3, <2>1, <2>2 DEF DrainStep
<1>4. CASE ReleaseDue \/ RequestRelease \/ LinkAccount \/ SettleTick
  BY <1>4 DEF ReleaseDue, RequestRelease, LinkAccount, SettleTick, ledgerVars, vendorVars, Quiet
<1>5. ASSUME NEW end, MoveEvent(end) PROVE Quiet /\ UNCHANGED release
  BY <1>5 DEF MoveEvent, ledgerVars, vendorVars, Quiet
<1>6. CASE UNCHANGED settleVars
  BY <1>6 DEF settleVars, ledgerVars, vendorVars, Quiet
<1> QED BY <1>1, <1>2, <1>3, <1>4, <1>5, <1>6 DEF SettleNext

LEMMA PayoutNext ==
  ASSUME PayoutInv, [SettleNext]_settleVars
  PROVE  PayoutInv'
<1>1. TypesInv' /\ OnceInv'
  BY TypesNext, NextOnce DEF PayoutInv
<1>2. CASE \E w \in Workers : ReleaseStep(w)
  BY <1>1, <1>2, SentRelease DEF PayoutInv
<1>3. CASE ~\E w \in Workers : ReleaseStep(w)
  <2>1. UNCHANGED <<paidOut, release>>
    BY <1>3, OthersAreQuiet DEF Quiet
  <2> QED BY <1>1, <2>1 DEF PayoutInv, SentInv
<1> QED BY <1>2, <1>3

LEMMA QuietStutters ==
  ASSUME Quiet
  PROVE  UNCHANGED Books!payoutVars
  BY DEF Quiet, Books!payoutVars

(* The two ways to close a settlement write one line, of what was sent.    *)
LEMMA ReleaseCloses ==
  ASSUME PayoutInv, NEW w \in Workers, SettleZero(w) \/ ReleasePaid(w)
  PROVE  Books!Close
<1>1. /\ settle.status # "paid" /\ paidRows = <<>>
      /\ ReleasePaid(w) => release[w].row.net \in Nat /\ paidOut # 0 /\ IsRow(release[w].row)
  <2>1. CASE SettleZero(w)
    <3>1. release[w].phase = "waiting" /\ settle.status # "paid"
      BY <2>1 DEF SettleZero, MayRelease, Locks
    <3> QED BY <3>1 DEF ReleasePaid, PayoutInv, OnceInv, RowsInv
  <2>2. CASE ReleasePaid(w)
    <3>1. Holds(w) /\ release[w].phase = "paid"
      BY <2>2 DEF ReleasePaid, Holds
    <3>2. settle.status # "paid" /\ Carries(w)
      BY <3>1 DEF PayoutInv, OnceInv, LockInv
    <3>3. release[w].row.net \in Nat
      BY <3>1, HeldPhases DEF PayoutInv, TypesInv
    <3> QED BY <3>1, <3>2, <3>3 DEF PayoutInv, SentInv, OnceInv, RowsInv, Carries
  <2> QED BY <2>1, <2>2
<1>2. settle'.status = "paid"
  <2>1. IsRow(Recomputed)
    BY RowOperators DEF PayoutInv, OnceInv
  <2> QED BY <1>1, <2>1 DEF SettleZero, ReleasePaid, IsRow
<1>3. PICK x \in Nat : paidRows' = <<x>> /\ (x # 0 => paidOut # 0)
  BY <1>1 DEF SettleZero, ReleasePaid
<1>4. paidRows' \in Seq(Nat) /\ Len(paidRows') = 1 /\ (paidRows'[1] # 0 => paidOut # 0)
  BY <1>3
<1>5. UNCHANGED paidOut
  BY DEF SettleZero, ReleasePaid, Others, vendorVars
<1> QED BY <1>1, <1>2, <1>4, <1>5 DEF Books!Close

LEMMA ReleaseIsPayout ==
  ASSUME PayoutInv, NEW w \in Workers, ReleaseStep(w)
  PROVE  [Books!Next]_(Books!payoutVars)
<1>1. CASE SettleZero(w) \/ ReleasePaid(w)
  BY <1>1, ReleaseCloses DEF Books!Next
<1>2. CASE VendorPays(w)
  <2>1. CASE paidOut = 0
    BY <1>2, <2>1, VendorSends DEF Books!Next, Books!Send
  <2>2. CASE paidOut # 0
    BY <1>2, <2>2, VendorSends, QuietStutters DEF Quiet
  <2> QED BY <2>1, <2>2
<1>3. CASE NoPayoutAccount(w) \/ ReleaseFailed(w)
  <2>1. settle.status # "paid"
    <3>1. CASE NoPayoutAccount(w)
      BY <3>1 DEF NoPayoutAccount, MayRelease
    <3>2. CASE ReleaseFailed(w)
      BY <3>2 DEF ReleaseFailed, Holds, PayoutInv, OnceInv, LockInv
    <3> QED BY <1>3, <3>1, <3>2
  <2>2. settle'.status # "paid"
    <3>1. CASE NoPayoutAccount(w)
      BY <3>1, RowOperators DEF NoPayoutAccount, IsRow, PayoutInv, OnceInv
    <3>2. CASE ReleaseFailed(w)
      <4>1. Carries(w)
        BY <3>2 DEF ReleaseFailed, Holds, PayoutInv, OnceInv, LockInv
      <4> QED BY <3>2, <4>1 DEF ReleaseFailed, Carries, IsRow
    <3> QED BY <1>3, <3>1, <3>2
  <2>3. UNCHANGED <<paidOut, paidRows>>
    BY <1>3 DEF NoPayoutAccount, ReleaseFailed, Others, vendorVars
  <2> QED BY <2>1, <2>2, <2>3, QuietStutters DEF Quiet
<1>4. CASE ReleaseBegin(w) \/ ReleaseSkips(w) \/ CallVendor(w) \/ VendorFails(w) \/ Reenqueue(w)
           \/ ReleaseDies(w)
  <2>1. UNCHANGED <<settle, paidRows, paidOut>>
    BY <1>4 DEF ReleaseBegin, ReleaseSkips, CallVendor, VendorFails, Reenqueue, ReleaseDies, Others,
       ledgerVars, vendorVars
  <2> QED BY <2>1, QuietStutters DEF Quiet
<1> QED BY <1>1, <1>2, <1>3, <1>4 DEF ReleaseStep, Decide, Conclude

(* "EXACTLY ONCE, under a lock": with its workers, its lock, its retries   *)
(* and its crashes, a settlement implements a payout that sends money at   *)
(* most once and closes once, never for money that was not sent.           *)
THEOREM SettlesAsPayout == SettleSpec => ImplementsPayout
<1>1. SettleInit => PayoutInv
  <2>1. SettleInit => OnceInv
    BY DEF SettleInit, OnceInv, IsRow, NoRow, LockInv, RowsInv, Holds, Idle
  <2>2. SettleInit => SentInv
    BY DEF SettleInit, SentInv, Idle
  <2> QED BY <2>1, <2>2, TypesInit DEF PayoutInv
<1>2. PayoutInv /\ [SettleNext]_settleVars => PayoutInv'
  BY PayoutNext
<1>3. SettleInit => Books!Init
  BY DEF SettleInit, NoRow, Books!Init
<1>4. PayoutInv /\ [SettleNext]_settleVars => [Books!Next]_(Books!payoutVars)
  <2> SUFFICES ASSUME PayoutInv, [SettleNext]_settleVars
               PROVE  [Books!Next]_(Books!payoutVars)
    OBVIOUS
  <2>1. CASE \E w \in Workers : ReleaseStep(w)
    BY <2>1, ReleaseIsPayout
  <2>2. CASE ~\E w \in Workers : ReleaseStep(w)
    BY <2>2, OthersAreQuiet, QuietStutters
  <2> QED BY <2>1, <2>2
<1> QED BY <1>1, <1>2, <1>3, <1>4, PTL DEF SettleSpec, ImplementsPayout, Books!Spec
=============================================================================
