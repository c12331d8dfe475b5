\* Two desks and one ticket, scanned twice, with a network that comes and goes.
SPECIFICATION DeskSpec
CONSTANTS
  t1 = t1  g1 = g1  g2 = g2  g3 = g3  d1 = d1  d2 = d2  e1 = e1  e2 = e2  o1 = o1
  NoTicket = NoTicket  NoCount = NoCount
  Tickets = {t1}
  Gates = {g1, g2, g3}
  Desks = {d1, d2}
  Events = {e1, e2}
  Orders = {o1}
  TicketEvent <- MCTicketEvent
  TicketOrder <- MCTicketOrder
  GateEvent <- MCGateEvent
  Opens <- MCOpens
  Closes <- MCCloses
  Link <- MCLink
  Watched = {}
  MaxTime = 1
  MaxScans = 2
SYMMETRY MCSymmetry
INVARIANTS DeskTypeOK GreenOnce OneRowPerScan NoEndlessCheck NothingLeftBehind
