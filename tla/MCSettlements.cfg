\* Two payments, one of them refundable, a drain and two release workers.
SPECIFICATION SettleFairSpec
CONSTANTS
  p1 = p1  p2 = p2  d1 = d1  w1 = w1  w2 = w2
  Payments = {p1, p2}
  Refundable = {p2}
  Amount <- MCAmount
  Fee <- MCFee
  Donation <- MCDonation
  Drainers = {d1}
  Workers = {w1, w2}
  MaxAttempts = 2
  WindowEnds = 0
  MaxTime = 1
  MaxMoves = 1
  MaxReleases = 2
INVARIANTS SettleTypeOK PaysTheRecords RunningTotalsAgree
PROPERTIES ImplementsPayout SettlementEnds
CHECK_DEADLOCK FALSE
