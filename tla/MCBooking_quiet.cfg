\* No other request touches a row while its order call is open.
SPECIFICATION Spec
CONSTANTS
  t1 = t1  b1 = b1  b2 = b2  p1 = p1  p2 = p2  k1 = k1  g1 = g1  g2 = g2
  NoKey = NoKey  NoGateway = NoGateway
  Tiers = {t1}
  Bookings = {b1, b2}
  Workers = {p1, p2}
  Keys = {k1}
  Gateways = {g1}
  DefaultGateway = g1
  InitTier <- MCInitTier
  Price <- MCPrice
  Requests <- MCRequests
  Donations <- NoDonations
  FeeBps = 500
  CouponCap = 1
  CouponOff = 300
  HoldTime = 1
  ReplayTime = 1
  MaxTime = 2
  MaxOrders = 2
  Overlap = FALSE
SYMMETRY MCSymmetry
INVARIANTS SeatsConserved CouponLedgerMatchesRows
PROPERTY FinalStatusStays
