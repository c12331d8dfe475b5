\* A capture is delivered or refunded, webhooks lost or not.
SPECIFICATION PayFairSpec
CONSTANTS
  t1 = t1  b1 = b1  b2 = b2  p1 = p1  h1 = h1  h2 = h2  w1 = w1  w2 = w2
  k1 = k1  g1 = g1  g2 = g2
  NoKey = NoKey  NoGateway = NoGateway
  Tiers = {t1}
  Bookings = {b1}
  Workers = {p1}
  Keys = {k1}
  Gateways = {g1}
  DefaultGateway = g1
  InitTier <- MCInitTier
  Price <- MCPrice
  Requests <- MCRequests
  Donations <- NoDonations
  FeeBps = 500
  CouponCap = 0
  CouponOff = 300
  HoldTime = 1
  ReplayTime = 1
  MaxTime = 2
  MaxOrders = 1
  Overlap = TRUE
  Handlers = {h1}
  Refunders = {w1}
  MayMiscapture = TRUE
  HookLoss = FALSE
  MinAge = 1
  Grace = 2
PROPERTIES MoneyOrTicket LapsedHoldEnds
