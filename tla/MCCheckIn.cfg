\* Two gates of one event, two of its tickets and a stray one.
SPECIFICATION CheckFairSpec
CONSTANTS
  t1 = t1  t2 = t2  t3 = t3  g1 = g1  g2 = g2  e1 = e1  e2 = e2  o1 = o1  o2 = o2
  NoTicket = NoTicket  NoCount = NoCount
  Tickets = {t1, t2, t3}
  Gates = {g1, g2}
  Events = {e1, e2}
  Orders = {o1, o2}
  TicketEvent <- MCTicketEvent
  TicketOrder <- MCTicketOrder
  GateEvent <- MCGateEvent
  Opens <- MCOpens
  Closes <- MCCloses
  Watched = {e1}
  MaxTime = 1
  MaxScans = 3
INVARIANTS LedgerAgrees
PROPERTIES ImplementsDoor AttendanceHeals
