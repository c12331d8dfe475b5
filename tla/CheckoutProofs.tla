--------------------------- MODULE CheckoutProofs ---------------------------
(***************************************************************************)
(* Proofs about Checkout for every set of selections and every value of    *)
(* the bounds.  The invariant is a predicate of a tab, of the attempt      *)
(* numbers and of the bookings, so that it can be stated of the tab before *)
(* its effects have run: an action makes a tab ready, and Settle keeps     *)
(* what holds of a ready tab.                                              *)
(***************************************************************************)
EXTENDS Checkout, TLAPS

-----------------------------------------------------------------------------
(* Types.                                                                  *)

Tickets == Sels \cup {None}

Statuses == {"none", "reserved", "paid", "cancelled", "expired"}

BookingType == [id : Nat, for : Tickets, st : Statuses, order : Nat, old : BOOLEAN]

HoldType == [sel : Sels, att : Nat, st : Statuses, due : BOOLEAN, ver : Nat, order : Nat, cap : Nat]

RequestFields ==
  {"kind", "layout", "mount", "h", "what", "for", "sel", "att", "again", "since", "ans", "copy"}

IsRequest(r) ==
  /\ DOMAIN r = RequestFields
  /\ {r.layout, r.mount, r.h, r.att, r.since} \subseteq Nat
  /\ {r.for, r.sel} \subseteq Tickets /\ r.again \in BOOLEAN /\ r.copy \in BookingType

Fields ==
  {"at", "sel", "param", "ctx", "layout", "mount", "checked", "asked", "attempted", "retried", "silent",
   "timer", "err", "over", "clearing", "retrying", "releasing", "nonce", "seen", "pending", "paying",
   "fromList", "net", "back", "gone", "quit", "opened", "returned", "stray", "foreign", "crossed",
   "loose", "blind"}

IsTab(x) ==
  /\ DOMAIN x = Fields
  /\ x.at \in {"out", "picker", "review", "failed", "confirmation"}
  /\ x.sel \in Tickets /\ {x.param, x.layout, x.mount} \subseteq Nat /\ x.ctx \in BookingType
  /\ {x.checked, x.asked, x.attempted, x.retried, x.silent, x.timer, x.err, x.over, x.clearing,
      x.retrying, x.releasing, x.nonce, x.fromList, x.quit, x.opened, x.returned, x.stray, x.foreign,
      x.crossed, x.blind} \subseteq BOOLEAN
  /\ x.paying \in Nat \X Nat /\ x.back \in Tickets \X Nat
  /\ (\A r \in x.net : IsRequest(r)) /\ x.gone \subseteq Nat

(* What a step leaves alone.                                               *)
SamePlace(x, y) ==
  /\ y.at = x.at /\ y.sel = x.sel /\ y.param = x.param /\ y.mount = x.mount /\ y.layout = x.layout
  /\ y.fromList = x.fromList

SameGate(x, y) ==
  /\ y.checked = x.checked /\ y.asked = x.asked /\ y.attempted = x.attempted /\ y.seen = x.seen
  /\ y.clearing = x.clearing

SameFace(x, y) ==
  /\ y.timer = x.timer /\ y.err = x.err /\ y.over = x.over /\ y.retried = x.retried
  /\ y.silent = x.silent /\ y.nonce = x.nonce /\ y.retrying = x.retrying

SameMoney(x, y) == y.pending = x.pending /\ y.paying = x.paying /\ y.crossed = x.crossed

SamePast(x, y) ==
  /\ y.quit = x.quit /\ y.opened = x.opened /\ y.returned = x.returned
  /\ y.foreign = x.foreign /\ y.loose = x.loose /\ y.blind = x.blind

-----------------------------------------------------------------------------
(* The effects.                                                            *)

LEMMA RequestFacts ==
  ASSUME holds \in Seq(HoldType), NEW x, IsTab(x), NEW kind, NEW h \in Nat, NEW what
  PROVE  LET r == Request(x, kind, h, what)
         IN  /\ IsRequest(r)
             /\ r.kind = kind /\ r.layout = x.layout /\ r.mount = x.mount /\ r.h = h /\ r.what = what
             /\ r.for = x.ctx.for /\ r.sel = x.sel /\ r.att = 0 /\ r.again = x.retried
             /\ r.since = Len(holds) /\ r.ans = "sent" /\ r.copy = NoBooking
<1>1. NoBooking \in BookingType
  BY DEF NoBooking, BookingType, Tickets, Statuses
<1>2. Len(holds) \in Nat
  OBVIOUS
<1>3. x.ctx.for \in Tickets
  BY DEF IsTab, Fields, BookingType
<1> QED
  BY <1>1, <1>2, <1>3 DEF Request, IsRequest, RequestFields, IsTab, Fields

(* The hold in the URL is asked for, unless a booking is in context.       *)
Asks(x) == x.param # 0 /\ ~x.asked /\ x.ctx.id = 0

Opens(x) == x.param # 0 /\ ~x.asked /\ x.ctx.id # 0

LEMMA CheckHoldFacts ==
  ASSUME holds \in Seq(HoldType), NEW x, IsTab(x)
  PROVE  LET y == CheckHold(x)
         IN  /\ IsTab(y) /\ SamePlace(x, y) /\ SameFace(x, y) /\ SameMoney(x, y) /\ SamePast(x, y)
             /\ y.ctx = x.ctx /\ y.back = x.back /\ y.releasing = x.releasing /\ y.gone = x.gone
             /\ y.stray = x.stray /\ y.attempted = x.attempted /\ y.seen = x.seen /\ y.clearing = x.clearing
             /\ (y.asked <=> x.asked \/ x.param # 0)
             /\ (y.checked <=> x.checked \/ Opens(x))
             /\ y.net = x.net \cup (IF Asks(x) THEN {Request(x, "check", x.param, "none")} ELSE {})
<1> DEFINE y == CheckHold(x)
<1>1. PICK q : q = Request(x, "check", x.param, "none")
  OBVIOUS
<1>2. IsRequest(q)
  BY <1>1, RequestFacts DEF IsTab
<1>3. CASE Asks(x)
  <2>1. y = [x EXCEPT !.net = @ \cup {q}, !.asked = TRUE]
    BY <1>1, <1>3 DEF CheckHold, Send, Asks, IsTab, Fields
  <2> HIDE DEF y
  <2>2. IsTab(y)
    BY <2>1, <1>2 DEF IsTab, Fields
  <2>3. SamePlace(x, y) /\ SameFace(x, y) /\ SameMoney(x, y) /\ SamePast(x, y)
    BY <2>1 DEF IsTab, Fields, SamePlace, SameFace, SameMoney, SamePast
  <2>4. /\ y.ctx = x.ctx /\ y.back = x.back /\ y.releasing = x.releasing /\ y.gone = x.gone
        /\ y.stray = x.stray /\ y.attempted = x.attempted /\ y.seen = x.seen /\ y.clearing = x.clearing
        /\ y.asked = TRUE /\ y.checked = x.checked /\ y.net = x.net \cup {q}
    BY <2>1 DEF IsTab, Fields
  <2>5. ~Opens(x) /\ x.param # 0
    BY <1>3 DEF Asks, Opens
  <2> QED
    BY <1>1, <1>3, <2>2, <2>3, <2>4, <2>5 DEF y
<1>4. CASE Opens(x)
  <2>1. y = [x EXCEPT !.asked = TRUE, !.checked = TRUE]
    BY <1>4 DEF CheckHold, Opens
  <2> HIDE DEF y
  <2>2. IsTab(y)
    BY <2>1 DEF IsTab, Fields
  <2>3. SamePlace(x, y) /\ SameFace(x, y) /\ SameMoney(x, y) /\ SamePast(x, y)
    BY <2>1 DEF IsTab, Fields, SamePlace, SameFace, SameMoney, SamePast
  <2>4. /\ y.ctx = x.ctx /\ y.back = x.back /\ y.releasing = x.releasing /\ y.gone = x.gone
        /\ y.stray = x.stray /\ y.attempted = x.attempted /\ y.seen = x.seen /\ y.clearing = x.clearing
        /\ y.asked = TRUE /\ y.checked = TRUE /\ y.net = x.net
    BY <2>1 DEF IsTab, Fields
  <2>5. ~Asks(x) /\ x.param # 0
    BY <1>4 DEF Asks, Opens
  <2> QED
    BY <1>4, <2>2, <2>3, <2>4, <2>5 DEF y
<1>5. CASE ~Asks(x) /\ ~Opens(x)
  <2>1. y = x /\ (x.param # 0 => x.asked)
    BY <1>5 DEF CheckHold, Asks, Opens
  <2> HIDE DEF y
  <2> QED
    BY <1>5, <2>1 DEF y, SamePlace, SameFace, SameMoney, SamePast
<1> QED
  BY <1>3, <1>4, <1>5

LEMMA ClearStaleFacts ==
  ASSUME holds \in Seq(HoldType), NEW x, IsTab(x)
  PROVE  LET y == ClearStale(x)
         IN  /\ IsTab(y) /\ SamePlace(x, y) /\ SameFace(x, y) /\ SameMoney(x, y) /\ SamePast(x, y)
             /\ y.ctx = x.ctx /\ y.back = x.back /\ y.releasing = x.releasing /\ y.stray = x.stray
             /\ y.attempted = x.attempted /\ y.seen = x.seen /\ y.asked = x.asked /\ y.checked = x.checked
             /\ (staleBooking(x) => y.clearing)
             /\ (staleBooking(x) \/ (y.clearing = x.clearing /\ y.net = x.net /\ y.gone = x.gone))
             /\ x.gone \subseteq y.gone /\ x.net \subseteq y.net
             /\ \A r \in y.net \ x.net :
                  /\ r.kind = "cancel" /\ r.what = "clear" /\ r.h = x.ctx.id /\ r.h # 0
                  /\ r.mount = x.mount /\ r.layout = x.layout
             /\ y.gone \subseteq x.gone \cup {x.ctx.id}
<1> DEFINE y == ClearStale(x)
<1>1. PICK q : q = Request(x, "cancel", x.ctx.id, "clear")
  OBVIOUS
<1>2. x.ctx.id \in Nat
  BY DEF IsTab, BookingType
<1>3. /\ IsRequest(q) /\ q.kind = "cancel" /\ q.what = "clear" /\ q.h = x.ctx.id
      /\ q.mount = x.mount /\ q.layout = x.layout
  BY <1>1, <1>2, RequestFacts
<1>4. CASE staleBooking(x) /\ ~x.clearing
  <2>1. y = [x EXCEPT !.net = @ \cup {q}, !.gone = @ \cup {x.ctx.id}, !.clearing = TRUE]
    BY <1>1, <1>4 DEF ClearStale, SendCancel, Send, IsTab, Fields
  <2> HIDE DEF y
  <2>2. IsTab(y)
    BY <2>1, <1>2, <1>3 DEF IsTab, Fields
  <2>3. SamePlace(x, y) /\ SameFace(x, y) /\ SameMoney(x, y) /\ SamePast(x, y)
    BY <2>1 DEF IsTab, Fields, SamePlace, SameFace, SameMoney, SamePast
  <2>4. /\ y.ctx = x.ctx /\ y.back = x.back /\ y.releasing = x.releasing /\ y.stray = x.stray
        /\ y.attempted = x.attempted /\ y.seen = x.seen /\ y.asked = x.asked /\ y.checked = x.checked
        /\ y.clearing = TRUE /\ y.net = x.net \cup {q} /\ y.gone = x.gone \cup {x.ctx.id}
    BY <2>1 DEF IsTab, Fields
  <2>5. x.ctx.id # 0
    BY <1>4 DEF staleBooking
  <2> QED
    BY <1>3, <1>4, <2>2, <2>3, <2>4, <2>5 DEF y
<1>5. CASE ~(staleBooking(x) /\ ~x.clearing)
  <2>1. y = x /\ (staleBooking(x) => x.clearing)
    BY <1>5 DEF ClearStale
  <2> HIDE DEF y
  <2> QED
    BY <2>1 DEF y, SamePlace, SameFace, SameMoney, SamePast
<1> QED
  BY <1>4, <1>5

(* The reserve effect fires.                                               *)
Fires(x) ==
  /\ <<x.checked, x.ctx.id # 0, x.nonce>> # x.seen
  /\ x.checked /\ x.ctx.id = 0 /\ ~x.attempted

LEMMA ReserveFacts ==
  ASSUME holds \in Seq(HoldType), NEW a \in [Sels -> Nat], NEW x, IsTab(x), x.sel \in Sels
  PROVE  LET y == Reserve(x, a)
         IN  /\ IsTab(y) /\ SamePlace(x, y) /\ SameFace(x, y) /\ SameMoney(x, y) /\ SamePast(x, y)
             /\ y.ctx = x.ctx /\ y.back = x.back /\ y.releasing = x.releasing
             /\ y.asked = x.asked /\ y.checked = x.checked /\ y.gone = x.gone /\ y.clearing = x.clearing
             /\ y.seen = <<x.checked, x.ctx.id # 0, x.nonce>>
             /\ (y.attempted <=> x.attempted \/ Fires(x))
             /\ (y.stray <=> x.stray \/ (Fires(x) /\ x.over))
             /\ x.net \subseteq y.net
             /\ ~Fires(x) => y.net = x.net
             /\ Fires(x) => \E r \in y.net : y.net = x.net \cup {r}
                              /\ r.kind = "create" /\ r.ans = "sent" /\ r.h = 0 /\ r.sel = x.sel
                              /\ r.att = attemptIn(a, x.sel) /\ r.mount = x.mount /\ r.layout = x.layout
                              /\ r.again = x.retried
<1> DEFINE y == Reserve(x, a)
<1>1. PICK d : d = <<x.checked, x.ctx.id # 0, x.nonce>>
  OBVIOUS
<1>2. PICK z : z = [x EXCEPT !.seen = d]
  OBVIOUS
<1>3. /\ IsTab(z) /\ SamePlace(x, z) /\ SameFace(x, z) /\ SameMoney(x, z) /\ SamePast(x, z)
  <2>1. IsTab(z)
    BY <1>2 DEF IsTab, Fields
  <2> QED
    BY <2>1, <1>2 DEF IsTab, Fields, SamePlace, SameFace, SameMoney, SamePast
<1>4. /\ z.ctx = x.ctx /\ z.back = x.back /\ z.releasing = x.releasing /\ z.attempted = x.attempted
      /\ z.asked = x.asked /\ z.checked = x.checked /\ z.gone = x.gone /\ z.clearing = x.clearing
      /\ z.seen = d /\ z.net = x.net /\ z.stray = x.stray /\ z.mount = x.mount /\ z.layout = x.layout
      /\ z.sel = x.sel /\ z.retried = x.retried
  BY <1>2 DEF IsTab, Fields
<1>5. CASE Fires(x)
  <2>1. PICK p : p = Request(z, "create", 0, "none")
    OBVIOUS
  <2>2. IsRequest(p) /\ p.kind = "create" /\ p.h = 0 /\ p.ans = "sent" /\ p.sel = x.sel
        /\ p.mount = x.mount /\ p.layout = x.layout /\ p.again = x.retried
    <3>1. 0 \in Nat /\ IsTab(z)
      BY <1>3
    <3> QED
      BY <2>1, <3>1, <1>4, RequestFacts
  <2>3. PICK n : n = attemptIn(a, x.sel)
    OBVIOUS
  <2>4. n \in Nat
    BY <2>3 DEF attemptIn
  <2>5. PICK q : q = [p EXCEPT !.att = n]
    OBVIOUS
  <2>6. IsRequest(q) /\ q.kind = "create" /\ q.h = 0 /\ q.ans = "sent" /\ q.sel = x.sel
        /\ q.mount = x.mount /\ q.layout = x.layout /\ q.again = x.retried /\ q.att = n
    BY <2>2, <2>4, <2>5 DEF IsRequest, RequestFields
  <2>7. PICK w : w = Send(z, q)
    OBVIOUS
  <2>8. y = [w EXCEPT !.attempted = TRUE, !.stray = @ \/ x.over]
    BY <1>1, <1>2, <1>4, <1>5, <2>1, <2>3, <2>5, <2>7 DEF Reserve, Fires
  <2> HIDE DEF y
  <2>9. w = [z EXCEPT !.net = @ \cup {q}]
    BY <2>7 DEF Send
  <2>10. y = [z EXCEPT !.net = @ \cup {q}, !.attempted = TRUE, !.stray = @ \/ x.over]
    BY <2>8, <2>9, <1>3 DEF IsTab, Fields
  <2>11. IsTab(y)
    <3>1. IsTab(z) /\ IsRequest(q)
      BY <1>3, <2>6
    <3> QED
      BY ONLY <2>10, <3>1 DEF IsTab, Fields
  <2>12. SamePlace(z, y) /\ SameFace(z, y) /\ SameMoney(z, y) /\ SamePast(z, y)
    BY <2>10, <1>3 DEF IsTab, Fields, SamePlace, SameFace, SameMoney, SamePast
  <2>13. /\ y.ctx = z.ctx /\ y.back = z.back /\ y.releasing = z.releasing
         /\ y.asked = z.asked /\ y.checked = z.checked /\ y.gone = z.gone /\ y.clearing = z.clearing
         /\ y.seen = d /\ y.attempted = TRUE /\ (y.stray <=> z.stray \/ x.over) /\ y.net = z.net \cup {q}
    BY <2>10, <1>3, <1>4 DEF IsTab, Fields
  <2>14. SamePlace(x, y) /\ SameFace(x, y) /\ SameMoney(x, y) /\ SamePast(x, y)
    BY <2>12, <1>3 DEF SamePlace, SameFace, SameMoney, SamePast
  <2>15. /\ y.ctx = x.ctx /\ y.back = x.back /\ y.releasing = x.releasing
         /\ y.asked = x.asked /\ y.checked = x.checked /\ y.gone = x.gone /\ y.clearing = x.clearing
         /\ y.seen = <<x.checked, x.ctx.id # 0, x.nonce>> /\ y.attempted /\ (y.stray <=> x.stray \/ x.over)
         /\ y.net = x.net \cup {q}
    BY <2>13, <1>4, <1>1
  <2>16. \E r \in y.net : y.net = x.net \cup {r}
                              /\ r.kind = "create" /\ r.ans = "sent" /\ r.h = 0 /\ r.sel = x.sel
                              /\ r.att = attemptIn(a, x.sel) /\ r.mount = x.mount /\ r.layout = x.layout
                              /\ r.again = x.retried
    BY <2>15, <2>6, <2>3
  <2> QED
    BY <1>5, <2>11, <2>14, <2>15, <2>16 DEF y
<1>6. CASE ~Fires(x)
  <2>1. y = z
    BY <1>1, <1>2, <1>6 DEF Reserve, Fires
  <2> HIDE DEF y
  <2> QED
    BY <1>1, <1>3, <1>4, <1>6, <2>1 DEF y
<1> QED
  BY <1>5, <1>6

(* What the three effects of the review screen do together.                *)
LEMMA ReviewSettles ==
  ASSUME holds \in Seq(HoldType), NEW a \in [Sels -> Nat], NEW x, IsTab(x), x.at = "review", x.sel \in Sels,
         NEW y, y = Settle(x, a)
  PROVE  /\ IsTab(y) /\ SamePlace(x, y) /\ SameFace(x, y) /\ SameMoney(x, y) /\ SamePast(x, y)
         /\ y.ctx = x.ctx /\ y.back = <<x.sel, x.param>> /\ y.releasing = x.releasing
         /\ (y.asked <=> x.asked \/ x.param # 0)
         /\ (y.checked <=> x.checked \/ Opens(x))
         /\ (staleBooking(x) => y.clearing)
         /\ (staleBooking(x) \/ (y.clearing = x.clearing /\ y.gone = x.gone))
         /\ y.seen = <<y.checked, x.ctx.id # 0, x.nonce>>
         /\ x.gone \subseteq y.gone /\ y.gone \subseteq x.gone \cup {x.ctx.id}
         /\ x.net \subseteq y.net
         /\ \E fires \in BOOLEAN :
              /\ fires <=> y.seen # x.seen /\ y.checked /\ x.ctx.id = 0 /\ ~x.attempted
              /\ (y.attempted <=> x.attempted \/ fires)
              /\ (y.stray <=> x.stray \/ (fires /\ x.over))
              /\ fires => \E r \in y.net : r.kind = "create" /\ r.mount = x.mount
              /\ \A r \in y.net \ x.net :
                   /\ r.mount = x.mount /\ r.layout = x.layout
                   /\ \/ /\ r.kind = "check" /\ Asks(x) /\ r.h = x.param /\ r.sel = x.sel
                      \/ /\ r.kind = "cancel" /\ r.what = "clear" /\ r.h = x.ctx.id /\ r.h # 0 /\ staleBooking(x)
                      \/ /\ r.kind = "create" /\ fires /\ r.ans = "sent" /\ r.h = 0 /\ r.sel = x.sel
                         /\ r.att = attemptIn(a, x.sel) /\ r.again = x.retried
              /\ \A q, r \in y.net \ x.net : q.kind = r.kind => q = r \/ q.kind = "cancel"
         /\ Asks(x) => \E r \in y.net : r.kind = "check" /\ r.mount = x.mount
<1>1. PICK u : u = CheckHold(x)
  OBVIOUS
<1>2. PICK v : v = ClearStale(u)
  OBVIOUS
<1>3. PICK w : w = Reserve(v, a)
  OBVIOUS
<1>4. y = [w EXCEPT !.back = <<w.sel, w.param>>]
  <2>1. x.sel # None
    BY CheckoutConstants
  <2> QED
    BY <2>1, <1>1, <1>2, <1>3 DEF Settle
<1>5. PICK q : q = Request(x, "check", x.param, "none")
  OBVIOUS
<1>6. IsRequest(q) /\ q.kind = "check" /\ q.h = x.param /\ q.sel = x.sel /\ q.mount = x.mount /\ q.layout = x.layout
  <2>1. x.param \in Nat
    BY DEF IsTab
  <2> QED
    BY <2>1, <1>5, RequestFacts
<1>u. /\ IsTab(u) /\ SamePlace(x, u) /\ SameFace(x, u) /\ SameMoney(x, u) /\ SamePast(x, u)
      /\ u.ctx = x.ctx /\ u.back = x.back /\ u.releasing = x.releasing /\ u.gone = x.gone
      /\ u.stray = x.stray /\ u.attempted = x.attempted /\ u.seen = x.seen /\ u.clearing = x.clearing
      /\ (u.asked <=> x.asked \/ x.param # 0)
      /\ (u.checked <=> x.checked \/ Opens(x))
      /\ u.net = x.net \cup (IF Asks(x) THEN {q} ELSE {})
  BY <1>1, <1>5, CheckHoldFacts
<1>s. staleBooking(u) <=> staleBooking(x)
  BY <1>u DEF staleBooking, SamePlace
<1>v. /\ IsTab(v) /\ SamePlace(u, v) /\ SameFace(u, v) /\ SameMoney(u, v) /\ SamePast(u, v)
      /\ v.ctx = u.ctx /\ v.back = u.back /\ v.releasing = u.releasing /\ v.stray = u.stray
      /\ v.attempted = u.attempted /\ v.seen = u.seen /\ v.asked = u.asked /\ v.checked = u.checked
      /\ (staleBooking(u) => v.clearing)
      /\ (staleBooking(u) \/ (v.clearing = u.clearing /\ v.net = u.net /\ v.gone = u.gone))
      /\ u.gone \subseteq v.gone /\ u.net \subseteq v.net
      /\ \A r \in v.net \ u.net :
           /\ r.kind = "cancel" /\ r.what = "clear" /\ r.h = u.ctx.id /\ r.h # 0
           /\ r.mount = u.mount /\ r.layout = u.layout
      /\ v.gone \subseteq u.gone \cup {u.ctx.id}
  BY <1>u, <1>2, ClearStaleFacts
<1>7. v.sel \in Sels /\ v.sel = x.sel /\ v.mount = x.mount /\ v.layout = x.layout /\ v.param = x.param
      /\ u.mount = x.mount /\ u.layout = x.layout /\ v.retried = x.retried /\ v.over = x.over
      /\ v.nonce = x.nonce
  BY <1>u, <1>v DEF SamePlace, SameFace
<1>w. /\ IsTab(w) /\ SamePlace(v, w) /\ SameFace(v, w) /\ SameMoney(v, w) /\ SamePast(v, w)
      /\ w.ctx = v.ctx /\ w.back = v.back /\ w.releasing = v.releasing
      /\ w.asked = v.asked /\ w.checked = v.checked /\ w.gone = v.gone /\ w.clearing = v.clearing
      /\ w.seen = <<v.checked, v.ctx.id # 0, v.nonce>>
      /\ (w.attempted <=> v.attempted \/ Fires(v))
      /\ (w.stray <=> v.stray \/ (Fires(v) /\ v.over))
      /\ v.net \subseteq w.net
      /\ ~Fires(v) => w.net = v.net
      /\ Fires(v) => \E r \in w.net : w.net = v.net \cup {r}
                       /\ r.kind = "create" /\ r.ans = "sent" /\ r.h = 0 /\ r.sel = v.sel
                       /\ r.att = attemptIn(a, v.sel) /\ r.mount = v.mount /\ r.layout = v.layout
                       /\ r.again = v.retried
  BY <1>v, <1>7, <1>3, ReserveFacts
<1>y. /\ SamePlace(w, y) /\ SameFace(w, y) /\ SameMoney(w, y) /\ SamePast(w, y)
      /\ y.ctx = w.ctx /\ y.back = <<w.sel, w.param>> /\ y.releasing = w.releasing
      /\ y.asked = w.asked /\ y.checked = w.checked /\ y.gone = w.gone /\ y.clearing = w.clearing
      /\ y.seen = w.seen /\ y.attempted = w.attempted /\ y.stray = w.stray /\ y.net = w.net
  BY <1>4, <1>w DEF IsTab, Fields, SamePlace, SameFace, SameMoney, SamePast
<1>8. IsTab(y)
  <2>1. IsTab(w)
    BY <1>w
  <2> QED
    BY ONLY <1>4, <2>1 DEF IsTab, Fields
<1>9. SamePlace(x, y) /\ SameFace(x, y) /\ SameMoney(x, y) /\ SamePast(x, y)
  BY <1>u, <1>v, <1>w, <1>y DEF SamePlace, SameFace, SameMoney, SamePast
<1>10. Fires(v) <=> y.seen # x.seen /\ y.checked /\ x.ctx.id = 0 /\ ~x.attempted
  BY <1>u, <1>v, <1>w, <1>y DEF Fires
<1>11. \A r \in y.net \ x.net :
         /\ r.mount = x.mount /\ r.layout = x.layout
         /\ \/ /\ r.kind = "check" /\ Asks(x) /\ r.h = x.param /\ r.sel = x.sel
            \/ /\ r.kind = "cancel" /\ r.what = "clear" /\ r.h = x.ctx.id /\ r.h # 0 /\ staleBooking(x)
            \/ /\ r.kind = "create" /\ Fires(v) /\ r.ans = "sent" /\ r.h = 0 /\ r.sel = x.sel
               /\ r.att = attemptIn(a, x.sel) /\ r.again = x.retried
  <2> TAKE r \in y.net \ x.net
  <2>1. CASE r \in u.net
    BY <2>1, <1>u, <1>6
  <2>2. CASE r \in v.net \ u.net
    BY <2>2, <1>u, <1>v, <1>7, <1>s
  <2>3. CASE r \in w.net \ v.net
    BY <2>3, <1>w, <1>7
  <2> QED
    BY <2>1, <2>2, <2>3, <1>y
<1>12. \A p, r \in y.net \ x.net : p.kind = r.kind => p = r \/ p.kind = "cancel"
  <2> SUFFICES ASSUME NEW p \in y.net \ x.net, NEW r \in y.net \ x.net, p.kind = r.kind, p.kind # "cancel"
               PROVE  p = r
    OBVIOUS
  <2>1. CASE p.kind = "check"
    <3>1. \A t \in w.net \ v.net : t.kind = "create"
      BY <1>w
    <3>2. \A t \in v.net \ u.net : t.kind = "cancel"
      BY <1>v
    <3>3. p \in w.net /\ r \in w.net /\ p.kind = "check" /\ r.kind = "check"
      BY <2>1, <1>y
    <3>4. p \in u.net /\ r \in u.net
      BY ONLY <3>1, <3>2, <3>3
    <3> QED
      BY <3>4, <1>u
  <2>2. CASE p.kind = "create"
    <3>1. p \notin v.net /\ r \notin v.net
      BY <2>2, <1>u, <1>v, <1>w, <1>6
    <3> QED
      BY <3>1, <1>w, <1>y
  <2> QED
    BY <2>1, <2>2, <1>11
<1>13. /\ y.ctx = x.ctx /\ y.back = <<x.sel, x.param>> /\ y.releasing = x.releasing
       /\ (y.asked <=> x.asked \/ x.param # 0)
       /\ (y.checked <=> x.checked \/ Opens(x))
       /\ (staleBooking(x) => y.clearing)
       /\ (staleBooking(x) \/ (y.clearing = x.clearing /\ y.gone = x.gone))
       /\ x.gone \subseteq y.gone /\ y.gone \subseteq x.gone \cup {x.ctx.id}
       /\ x.net \subseteq y.net
  BY <1>u, <1>v, <1>w, <1>y, <1>s, <1>7 DEF SamePlace
<1>14. y.seen = <<y.checked, x.ctx.id # 0, x.nonce>>
  BY <1>u, <1>v, <1>w, <1>y, <1>7
<1>15. /\ (y.attempted <=> x.attempted \/ Fires(v))
       /\ (y.stray <=> x.stray \/ (Fires(v) /\ x.over))
       /\ Fires(v) => \E r \in y.net : r.kind = "create" /\ r.mount = x.mount
  BY <1>u, <1>v, <1>w, <1>y, <1>7
<1>16. Asks(x) => \E r \in y.net : r.kind = "check" /\ r.mount = x.mount
  BY <1>u, <1>v, <1>w, <1>y, <1>6
<1>17. Fires(v) \in BOOLEAN
  BY DEF Fires
<1> QED
  BY <1>8, <1>9, <1>10, <1>11, <1>12, <1>13, <1>14, <1>15, <1>16, <1>17

-----------------------------------------------------------------------------
(* THE INVARIANT, of a tab x, attempt numbers a and bookings hs.           *)

Live(hs, h) == hs[h].st = "reserved" /\ ~hs[h].due

Own(x) == {r \in x.net : Mine(x, r)}

Creates(x) == {r \in x.net : r.kind = "create"}

Writing(x) == {r \in x.net : r.kind = "write"}

(* The review screen proper: it has tickets to show.                       *)
Reviewing(x) == x.at = "review" /\ x.sel # None

(* The review screen that Back leads to, or that is open.                  *)
Anchor(x) == IF Reviewing(x) THEN <<x.sel, x.param>> ELSE x.back

(* Requests speak of bookings that exist, under numbers that were given    *)
(* out; a number never has two live bookings.                              *)
RequestFine(r, x, a, hs) ==
  /\ r.kind \in {"create", "check", "write", "cancel"} /\ r.mount <= x.mount
  /\ Reviewing(x) /\ r.mount = x.mount => r.layout = x.layout
  /\ r.kind # "create" => r.h \in DOMAIN hs
  /\ r.kind = "create" =>
       /\ r.sel \in Sels /\ r.att <= attemptIn(a, r.sel)
       /\ r.ans = "ok" =>
            /\ r.h \in DOMAIN hs /\ hs[r.h].sel = r.sel /\ hs[r.h].att = r.att
            /\ r.copy.id = r.h /\ r.copy.for = r.sel /\ r.copy.st \in {"reserved", "paid"}
            /\ r.copy.st = "paid" => hs[r.h].st = "paid"
       /\ r.ans # "ok" => r.h = 0
  /\ r.kind = "write" =>
       /\ r.what \in Writes
       /\ r.ans = "ok" => r.copy.id = r.h /\ r.copy.st # "paid" /\ ~r.copy.old

HoldFine(h, a, hs) ==
  /\ hs[h].att <= attemptIn(a, hs[h].sel)
  /\ hs[h].st = "reserved" => ~hs[h].due
  /\ hs[h].ver >= 1

OneLive(hs) ==
  \A g, h \in DOMAIN hs :
    Live(hs, g) /\ Live(hs, h) /\ hs[g].sel = hs[h].sel /\ hs[g].att = hs[h].att => g = h

Facts(x, a, hs) ==
  /\ IsTab(x) /\ a \in [Sels -> Nat] /\ hs \in Seq(HoldType)
  /\ \A r \in x.net : RequestFine(r, x, a, hs)
  /\ \A h \in DOMAIN hs : HoldFine(h, a, hs)
  /\ OneLive(hs)
  /\ x.gone \subseteq DOMAIN hs
  /\ {x.ctx.id, x.param, x.paying[1], x.back[2]} \subseteq 0 .. Len(hs)
  /\ x.at \in {"failed", "confirmation"} => x.param # 0
  /\ x.paying # NoPay => x.paying[1] # 0
  /\ x.back[2] # 0 => x.back[1] # None
  /\ x.at = "review" => x.mount # 0

(* A screen of the provider's, and what is behind it.                      *)
AfterPay(x) == x.at = "failed" \/ (x.at = "confirmation" /\ (~x.fromList \/ x.paying # NoPay))

(* Without late answers: where the booking in context comes from.          *)
Places(x, hs) ==
  ~x.stray =>
    /\ ~x.foreign
    /\ x.back[2] # 0 => hs[x.back[2]].sel = x.back[1]
    /\ x.at = "out" => x.ctx.id = 0 /\ x.paying = NoPay
    /\ x.at = "picker" => x.param = 0 /\ x.paying = NoPay
    /\ x.at = "review" => x.paying = NoPay \/ x.sel # None
    /\ x.paying # NoPay => x.paying[1] = Anchor(x)[2]
    /\ AfterPay(x) =>
         /\ x.param = x.back[2]
         /\ x.ctx.id # 0 => x.ctx.id = x.back[2] /\ x.ctx.for \in {None, x.back[1]}
    /\ Reviewing(x) =>
         /\ x.ctx.id # 0 => x.ctx.id = x.param /\ x.ctx.for \in {None, x.sel}
         /\ x.param # 0 => hs[x.param].sel = x.sel
         /\ x.paying # NoPay => x.ctx.id # 0 \/ x.over
         /\ ~x.clearing /\ ~x.retrying

(* Without late answers: what the flags of the review screen say of the    *)
(* requests it has in flight.                                              *)
Screen(x) ==
  ~x.stray /\ Reviewing(x) =>
    /\ \A r \in Own(x) :
         /\ r.kind = "check" =>
              /\ x.asked /\ ~x.checked /\ ~x.attempted /\ x.ctx.id = 0 /\ x.paying = NoPay
              /\ r.h = x.param /\ r.sel = x.sel
         /\ r.kind = "create" =>
              /\ x.attempted /\ x.checked /\ x.ctx.id = 0 /\ ~x.timer /\ ~x.err /\ ~x.over
              /\ r.sel = x.sel /\ r.again = x.retried
         /\ r.kind = "cancel" => r.what = "none"
         /\ r.kind = "write" => r.h = x.ctx.id \/ r.h \in x.gone
    /\ \A q, r \in Own(x) : {q.kind, r.kind} \subseteq {"check", "create"} => q = r
    /\ x.err => x.ctx.id = 0 /\ ~x.timer /\ x.attempted /\ x.checked
    /\ x.timer => x.ctx.id = 0 /\ ~x.over /\ x.attempted /\ x.checked
    /\ x.over => x.ctx.id = 0 /\ x.checked

(* ... before and after its effects have run.                              *)
Unsettled(x) == x.seen # <<TRUE, FALSE, x.nonce>>

Waits(x) ==
  x.checked /\ x.attempted /\ x.ctx.id = 0 /\ ~x.err /\ ~x.over
    => x.timer \/ \E r \in Own(x) : r.kind = "create"

ScreenReady(x) ==
  /\ ~x.stray /\ x.at = "picker" => x.ctx.id = 0 \/ ~x.releasing
  /\ ~x.stray /\ Reviewing(x) =>
       /\ x.ctx.id # 0 /\ ~x.checked => x.param # 0 /\ ~x.asked
       /\ ~x.checked => (x.param # 0 /\ ~x.asked) \/ \E r \in Own(x) : r.kind = "check"
       /\ Asks(x) => ~x.checked /\ ~x.attempted /\ x.paying = NoPay
       /\ x.over /\ ~x.attempted => Unsettled(x)
       /\ x.checked /\ ~x.attempted /\ x.ctx.id = 0 => x.retried \/ Unsettled(x)
       /\ Waits(x)

ScreenSettled(x) ==
  /\ x.at = "review" => /\ x.sel # None /\ x.back = <<x.sel, x.param>>
                        /\ x.seen = <<x.checked, x.ctx.id # 0, x.nonce>>
  /\ ~x.stray /\ x.at = "picker" => x.ctx.id = 0
  /\ ~x.stray /\ Reviewing(x) =>
       /\ x.ctx.id # 0 => x.checked
       /\ x.param # 0 => x.asked
       /\ ~x.checked => \E r \in Own(x) : r.kind = "check"
       /\ x.over => x.attempted
       /\ x.checked /\ ~x.attempted /\ x.ctx.id = 0 => x.retried
       /\ Waits(x)

(* Whoever gave up a live hold has no reserve under way.                   *)
Quit(x) ==
  x.quit /\ ~x.stray =>
    /\ Anchor(x)[2] # 0
    /\ Reviewing(x) /\ ~x.opened =>
         /\ ~x.timer /\ (~x.checked \/ x.attempted \/ x.ctx.id # 0 \/ x.over)
         /\ \A r \in Own(x) : r.kind # "create"

(* Numbers.  A reserve is under the number of its tickets, a live hold     *)
(* that nobody gave up too; one whose reserve was heard of is the one that *)
(* Back leads to; and a screen that failed knows of none.                  *)
Key(r) == <<r.sel, r.att>>

Heard(x, hs, h) == Key(hs[h]) \notin x.loose /\ \A r \in Creates(x) : Key(r) # Key(hs[h])

Pending(x, hs, h) == Key(hs[h]) \in x.loose \/ \E r \in Creates(x) : r.ans = "ok" /\ r.h = h

Held(x, hs, h) == Live(hs, h) /\ h \notin x.gone

Numbers(x, a, hs) ==
  ~x.stray /\ ~x.blind =>
    /\ \A r \in Creates(x) : r.att = attemptIn(a, r.sel)
    /\ \A h \in DOMAIN hs : Held(x, hs, h) => hs[h].att = attemptIn(a, hs[h].sel)
    /\ \A h \in DOMAIN hs :
         Held(x, hs, h) /\ Heard(x, hs, h) /\ hs[h].sel = Anchor(x)[1] => Anchor(x)[2] \in {0, h}
    /\ \A r \in Own(x) : r.kind = "create" /\ r.ans # "sent" =>
         \A h \in DOMAIN hs : Live(hs, h) /\ Key(hs[h]) = Key(r) => h = r.h \/ Pending(x, hs, h)
    /\ Reviewing(x) /\ (x.err \/ x.over) =>
         \A h \in DOMAIN hs :
           Held(x, hs, h) /\ Key(hs[h]) = <<x.sel, attemptIn(a, x.sel)>> => Pending(x, hs, h)

(* What the booking in context, and the writes on it, were reserved for.   *)
Tags(x, hs) ==
  ~x.foreign =>
    /\ x.ctx.id # 0 /\ x.ctx.for # None => hs[x.ctx.id].sel = x.ctx.for
    /\ \A r \in Writing(x) : r.for # None => hs[r.h].sel = r.for

Clears(x, hs) ==
  x.at = "review" /\ x.ctx.id # 0 /\ ~x.clearing
    => x.sel = IF x.ctx.for # None THEN x.ctx.for ELSE hs[x.ctx.id].sel

(* Totals: one write at a time, and the order in context is the booking's  *)
(* unless a write that changed it has still to be answered; and a booking  *)
(* that is known to be paid is only shown to who comes back to it.         *)
Totals(x, hs) ==
  ~x.stray /\ ~x.crossed =>
    /\ \A q, r \in Writing(x) : q = r
    /\ x.paying # NoPay \/ x.at = "failed" => Writing(x) = {}
    /\ \A r \in Writing(x) :
         /\ Reviewing(x) => Mine(x, r) /\ x.pending = {r.what} /\ (r.h = x.ctx.id \/ hs[r.h].due)
         /\ Reviewing(x) /\ r.what = "order" /\ r.h = x.ctx.id => x.ctx.order = 0
         /\ r.ans = "ok" => r.copy.order = hs[r.h].order /\ r.copy.order # 0
    /\ Reviewing(x) => \A r \in Own(x) : r.kind = "create" /\ r.ans = "ok" =>
         r.copy.order = hs[r.h].order /\ (Live(hs, r.h) => r.copy.order # 0)
    /\ Reviewing(x) /\ x.ctx.id # 0 /\ x.ctx.order # 0 /\ ~x.ctx.old =>
         x.ctx.order = hs[x.ctx.id].order
           \/ \E r \in Writing(x) : r.ans \in {"ok", "failed", "reread"} /\ r.h = x.ctx.id
    /\ AfterPay(x) =>
         /\ \A r \in Writing(x) : hs[r.h].due
         /\ x.ctx.id # 0 /\ x.ctx.order # 0 /\ ~x.ctx.old => x.ctx.order = hs[x.ctx.id].order
    /\ Reviewing(x) => x.ctx.st # "paid" \/ x.returned

Common(x, a, hs) ==
  Facts(x, a, hs) /\ Places(x, hs) /\ Screen(x) /\ Quit(x) /\ Numbers(x, a, hs) /\ Tags(x, hs) /\ Totals(x, hs)

(* A tab whose effects have still to run, and one whose effects have run.  *)
Ready(x, a, hs) == Common(x, a, hs) /\ ScreenReady(x)

Good(x, a, hs) == Common(x, a, hs) /\ ScreenSettled(x) /\ Clears(x, hs)

(* The bookings are the same, whatever became of them.                     *)
SameHolds(hs) ==
  hs \in Seq(HoldType) /\ Len(hs) = Len(holds) /\ \A h \in DOMAIN holds : hs[h].sel = holds[h].sel

-----------------------------------------------------------------------------
(* The picker gives back what it finds.                                    *)
LEMMA QuietSettles ==
  ASSUME holds \in Seq(HoldType), NEW a, NEW x, IsTab(x), ~Reviewing(x), NEW y, y = Settle(x, a)
  PROVE  /\ IsTab(y) /\ SameFace(x, y) /\ SameMoney(x, y) /\ SamePast(x, y) /\ SameGate(x, y)
         /\ y.sel = x.sel /\ y.mount = x.mount /\ y.layout = x.layout /\ y.fromList = x.fromList
         /\ y.back = x.back /\ y.stray = x.stray
         /\ y.at = IF x.at = "review" THEN "picker" ELSE x.at
         /\ y.param = IF x.at = "review" THEN 0 ELSE x.param
         /\ \/ y.ctx = x.ctx /\ y.net = x.net /\ y.gone = x.gone /\ (y.at = "picker" => x.ctx.id = 0 \/ (x.releasing /\ x.at = "picker"))
            \/ /\ x.ctx.id # 0 /\ y.ctx = NoBooking /\ y.gone = x.gone \cup {x.ctx.id} /\ y.at = "picker"
               /\ x.net \subseteq y.net
               /\ \A r \in y.net \ x.net : r.kind = "cancel" /\ r.h = x.ctx.id /\ r.mount = x.mount /\ r.layout = x.layout
<1>1. CASE x.at \notin {"picker", "review"}
  <2>1. y = x
    BY <1>1 DEF Settle
  <2> QED
    BY <2>1, <1>1 DEF SameFace, SameMoney, SamePast, SameGate
<1>2. CASE x.at \in {"picker", "review"}
  <2>1. PICK z : z = IF x.at = "review" THEN [x EXCEPT !.at = "picker", !.param = 0, !.releasing = FALSE] ELSE x
    OBVIOUS
  <2>2. y = Release(z)
    BY <1>2, <2>1 DEF Settle, Reviewing
  <2>3. /\ IsTab(z) /\ SameFace(x, z) /\ SameMoney(x, z) /\ SamePast(x, z) /\ SameGate(x, z)
        /\ z.sel = x.sel /\ z.mount = x.mount /\ z.layout = x.layout /\ z.fromList = x.fromList
        /\ z.back = x.back /\ z.stray = x.stray /\ z.at = "picker"
        /\ z.param = (IF x.at = "review" THEN 0 ELSE x.param)
        /\ z.ctx = x.ctx /\ z.net = x.net /\ z.gone = x.gone
        /\ (z.releasing <=> x.releasing /\ x.at = "picker")
    <3>1. CASE x.at = "review"
      <4>1. z = [x EXCEPT !.at = "picker", !.param = 0, !.releasing = FALSE]
        BY <3>1, <2>1
      <4>2. IsTab(z)
        BY <4>1 DEF IsTab, Fields
      <4>3. SameFace(x, z) /\ SameMoney(x, z) /\ SamePast(x, z) /\ SameGate(x, z)
        BY <4>1 DEF IsTab, Fields, SameFace, SameMoney, SamePast, SameGate
      <4> QED
        BY <3>1, <4>1, <4>2, <4>3 DEF IsTab, Fields
    <3>2. CASE x.at = "picker"
      BY <3>2, <2>1 DEF SameFace, SameMoney, SamePast, SameGate
    <3> QED
      BY <3>1, <3>2, <1>2
  <2>4. PICK q : q = Request(z, "cancel", z.ctx.id, "picker")
    OBVIOUS
  <2>5. z.ctx.id \in Nat /\ NoBooking \in BookingType
    BY <2>3 DEF IsTab, BookingType, NoBooking, Statuses, Tickets
  <2>6. IsRequest(q) /\ q.kind = "cancel" /\ q.h = z.ctx.id /\ q.mount = z.mount /\ q.layout = z.layout
    BY <2>3, <2>4, <2>5, RequestFacts
  <2>7. CASE z.ctx.id = 0 \/ z.releasing
    <3>1. y = z
      BY <2>2, <2>7 DEF Release
    <3> QED
      BY <3>1, <2>3, <2>7, <1>2
  <2>8. CASE ~(z.ctx.id = 0 \/ z.releasing)
    <3>1. y = [z EXCEPT !.net = @ \cup {q}, !.gone = @ \cup {z.ctx.id}, !.releasing = TRUE, !.ctx = NoBooking]
      BY <2>2, <2>3, <2>4, <2>8 DEF Release, SendCancel, Send, IsTab, Fields
    <3>2. IsTab(y)
      BY <3>1, <2>3, <2>5, <2>6 DEF IsTab, Fields
    <3>3. SameFace(z, y) /\ SameMoney(z, y) /\ SamePast(z, y) /\ SameGate(z, y)
      BY <3>1, <2>3 DEF IsTab, Fields, SameFace, SameMoney, SamePast, SameGate
    <3>4. SameFace(x, y) /\ SameMoney(x, y) /\ SamePast(x, y) /\ SameGate(x, y)
      BY <3>3, <2>3 DEF SameFace, SameMoney, SamePast, SameGate
    <3>5. /\ y.sel = z.sel /\ y.mount = z.mount /\ y.layout = z.layout /\ y.fromList = z.fromList
          /\ y.back = z.back /\ y.stray = z.stray /\ y.at = z.at /\ y.param = z.param
          /\ y.ctx = NoBooking /\ y.gone = z.gone \cup {z.ctx.id} /\ y.net = z.net \cup {q}
      BY <3>1, <2>3 DEF IsTab, Fields
    <3> QED
      BY <3>2, <3>4, <3>5, <2>3, <2>6, <2>8, <1>2
  <2> QED
    BY <2>7, <2>8
<1> QED
  BY <1>1, <1>2

-----------------------------------------------------------------------------
(* THE EFFECTS KEEP THE INVARIANT: a ready tab settles into a good one.    *)

LEMMA SettleFacts ==
  ASSUME holds \in Seq(HoldType), NEW a, NEW x, NEW hs, SameHolds(hs), Facts(x, a, hs), NEW y, y = Settle(x, a)
  PROVE  Facts(y, a, hs)
<1>0. IsTab(x) /\ a \in [Sels -> Nat] /\ Len(hs) \in Nat /\ DOMAIN hs = 1 .. Len(hs) /\ x.ctx.id \in Nat /\ x.param \in Nat
  BY DEF Facts, IsTab, BookingType
<1>1. CASE Reviewing(x)
  <2>1. x.sel \in Sels /\ x.at = "review"
    BY <1>0, <1>1 DEF Reviewing, IsTab, Tickets
  <2>2. PICK fires \in BOOLEAN :
          \A r \in y.net \ x.net :
                   /\ r.mount = x.mount /\ r.layout = x.layout
                   /\ \/ /\ r.kind = "check" /\ Asks(x) /\ r.h = x.param /\ r.sel = x.sel
                      \/ /\ r.kind = "cancel" /\ r.what = "clear" /\ r.h = x.ctx.id /\ r.h # 0 /\ staleBooking(x)
                      \/ /\ r.kind = "create" /\ fires /\ r.ans = "sent" /\ r.h = 0 /\ r.sel = x.sel
                         /\ r.att = attemptIn(a, x.sel) /\ r.again = x.retried
    BY <1>0, <2>1, ReviewSettles
  <2>3. /\ IsTab(y) /\ SamePlace(x, y) /\ SameMoney(x, y) /\ y.ctx = x.ctx /\ y.back = <<x.sel, x.param>>
        /\ y.gone \subseteq x.gone \cup {x.ctx.id} /\ (staleBooking(x) \/ y.gone = x.gone)
    BY <1>0, <2>1, ReviewSettles
  <2>4. \A r \in y.net : RequestFine(r, y, a, hs)
    <3> TAKE r \in y.net
    <3>1. CASE r \in x.net
      BY <3>1, <2>3, <1>1 DEF Facts, RequestFine, SamePlace, Reviewing
    <3>2. CASE r \notin x.net
      <4>1. attemptIn(a, x.sel) \in Nat
        BY <1>0, <2>1 DEF attemptIn
      <4>2. r.mount = y.mount /\ r.layout = y.layout
        BY <3>2, <2>2, <2>3 DEF SamePlace
      <4>3. CASE r.kind = "check" /\ Asks(x) /\ r.h = x.param
        BY <4>2, <4>3, <1>0, <2>3 DEF Facts, RequestFine, Asks, IsTab
      <4>4. CASE r.kind = "cancel" /\ r.h = x.ctx.id /\ r.h # 0
        <5>1. x.ctx.id \in 0 .. Len(hs) /\ r.mount <= y.mount
          BY <4>2, <1>0, <2>3 DEF Facts, IsTab
        <5> QED
          BY <5>1, <4>2, <4>4, <1>0 DEF RequestFine
      <4>5. CASE r.kind = "create" /\ r.ans = "sent" /\ r.h = 0 /\ r.sel = x.sel /\ r.att = attemptIn(a, x.sel)
        BY <4>1, <4>2, <4>5, <2>1, <2>3 DEF RequestFine, IsTab
      <4> QED
        BY <3>2, <2>2, <4>3, <4>4, <4>5
    <3> QED
      BY <3>1, <3>2
  <2>5. y.gone \subseteq DOMAIN hs
    BY <2>3, <1>0 DEF Facts, staleBooking
  <2> QED
    BY <1>0, <2>1, <2>3, <2>4, <2>5, CheckoutConstants DEF Facts, SamePlace, SameMoney
<1>2. CASE ~Reviewing(x)
  <2>1. /\ IsTab(y) /\ SameMoney(x, y) /\ y.sel = x.sel /\ y.mount = x.mount /\ y.layout = x.layout
        /\ y.back = x.back
        /\ y.at = (IF x.at = "review" THEN "picker" ELSE x.at)
        /\ y.param = (IF x.at = "review" THEN 0 ELSE x.param)
    BY <1>0, <1>2, QuietSettles
  <2>2. \/ y.ctx = x.ctx /\ y.net = x.net /\ y.gone = x.gone
        \/ /\ x.ctx.id # 0 /\ y.ctx = NoBooking /\ y.gone = x.gone \cup {x.ctx.id} /\ y.at = "picker"
           /\ \A r \in y.net \ x.net : r.kind = "cancel" /\ r.h = x.ctx.id /\ r.mount = x.mount /\ r.layout = x.layout
    BY <1>0, <1>2, QuietSettles
  <2>3. ~Reviewing(y)
    BY <2>1, <1>2 DEF Reviewing
  <2>4. \A r \in y.net : RequestFine(r, y, a, hs)
    <3> TAKE r \in y.net
    <3>1. y.mount = x.mount /\ x.mount \in Nat /\ hs \in Seq(HoldType) /\ x.ctx.id \in 0 .. Len(hs)
      BY <1>0, <2>1 DEF Facts, IsTab
    <3>2. CASE r \in x.net
      <4>1. RequestFine(r, x, a, hs)
        BY <1>0, <3>2 DEF Facts
      <4> QED
        BY ONLY <2>3, <3>1, <4>1 DEF RequestFine
    <3>3. CASE r \notin x.net
      <4>1. r.kind = "cancel" /\ r.h = x.ctx.id /\ r.mount = x.mount /\ x.ctx.id # 0
        BY <2>2, <3>3
      <4> QED
        BY ONLY <2>3, <3>1, <4>1 DEF RequestFine
    <3> QED
      BY <3>2, <3>3
  <2>5. y.gone \subseteq DOMAIN hs /\ y.ctx.id \in 0 .. Len(hs)
    BY <2>2, <1>0 DEF Facts, NoBooking
  <2> QED
    BY <1>0, <2>1, <2>4, <2>5 DEF Facts, SameMoney
<1> QED
  BY <1>1, <1>2

LEMMA SettlePlaces ==
  ASSUME holds \in Seq(HoldType), NEW a, NEW x, NEW hs, SameHolds(hs), Facts(x, a, hs), Places(x, hs),
         ScreenReady(x), NEW y, y = Settle(x, a)
  PROVE  Places(y, hs)
<1>0. IsTab(x) /\ a \in [Sels -> Nat] /\ x.ctx.id \in Nat /\ x.param \in Nat /\ x.ctx.id \in 0 .. Len(hs)
  BY DEF Facts, IsTab, BookingType
<1>1. CASE Reviewing(x)
  <2>1. x.sel \in Sels /\ x.at = "review" /\ x.sel # None
    BY <1>0, <1>1 DEF Reviewing, IsTab, Tickets
  <2>2. /\ SamePlace(x, y) /\ SameMoney(x, y) /\ SamePast(x, y) /\ SameFace(x, y) /\ y.ctx = x.ctx
        /\ y.back = <<x.sel, x.param>> /\ (staleBooking(x) \/ y.clearing = x.clearing)
    BY <1>0, <2>1, ReviewSettles
  <2>3. x.stray => y.stray
    BY <1>0, <2>1, ReviewSettles
  <2>4. ~x.stray => ~staleBooking(x)
    BY <1>0, <1>1 DEF Places, staleBooking, SameHolds
  <2>5. Reviewing(y) /\ Anchor(y) = Anchor(x) /\ ~AfterPay(y)
    BY <1>1, <2>2 DEF Reviewing, Anchor, SamePlace, AfterPay
  <2> QED
    BY <1>1, <2>1, <2>2, <2>3, <2>4, <2>5 DEF Places, SamePlace, SameMoney, SamePast, SameFace, Reviewing
<1>2. CASE ~Reviewing(x)
  <2>1. /\ SameMoney(x, y) /\ SamePast(x, y) /\ y.sel = x.sel /\ y.fromList = x.fromList
        /\ y.back = x.back /\ y.stray = x.stray
        /\ y.at = (IF x.at = "review" THEN "picker" ELSE x.at)
        /\ y.param = (IF x.at = "review" THEN 0 ELSE x.param)
    BY <1>0, <1>2, QuietSettles
  <2>2. y.at # "picker" => y.ctx = x.ctx
    BY <1>0, <1>2, QuietSettles
  <2>3. ~Reviewing(y) /\ Anchor(y) = Anchor(x) /\ (AfterPay(y) => AfterPay(x))
    BY <1>2, <2>1 DEF Reviewing, Anchor, AfterPay, SameMoney
  <2>4. CASE x.at = "review"
    BY <1>2, <2>1, <2>3, <2>4 DEF Places, SameMoney, SamePast, Reviewing, AfterPay
  <2>5. CASE x.at # "review"
    <3>1. y.at = x.at /\ y.param = x.param
      BY <2>1, <2>5
    <3> QED
      BY <3>1, <1>2, <2>1, <2>2, <2>3, <2>5 DEF Places, SameMoney, SamePast, Reviewing, AfterPay
  <2> QED
    BY <2>4, <2>5
<1> QED
  BY <1>1, <1>2

(* The effects of the review screen, for the proofs below: which of them   *)
(* fire, and what they send.                                               *)
Sends(x, y, a, fires) ==
  /\ SamePlace(x, y) /\ SameFace(x, y) /\ SameMoney(x, y) /\ SamePast(x, y)
  /\ y.ctx = x.ctx /\ y.back = <<x.sel, x.param>>
  /\ (y.asked <=> x.asked \/ x.param # 0)
  /\ (y.checked <=> x.checked \/ Opens(x))
  /\ y.clearing = x.clearing /\ y.gone = x.gone
  /\ y.seen = <<y.checked, x.ctx.id # 0, x.nonce>>
  /\ x.net \subseteq y.net
  /\ fires <=> y.seen # x.seen /\ y.checked /\ x.ctx.id = 0 /\ ~x.attempted
  /\ (y.attempted <=> x.attempted \/ fires)
  /\ (y.stray <=> x.stray \/ (fires /\ x.over))
  /\ fires => \E r \in y.net : r.kind = "create" /\ r.mount = x.mount
  /\ Asks(x) => \E r \in y.net : r.kind = "check" /\ r.mount = x.mount
  /\ \A r \in y.net \ x.net :
       /\ r.mount = x.mount /\ r.layout = x.layout
       /\ \/ r.kind = "check" /\ Asks(x) /\ r.h = x.param /\ r.sel = x.sel
          \/ /\ r.kind = "create" /\ fires /\ r.ans = "sent" /\ r.h = 0 /\ r.sel = x.sel
             /\ r.att = attemptIn(a, x.sel) /\ r.again = x.retried
  /\ \A q, r \in y.net \ x.net : q.kind = r.kind => q = r

LEMMA ReviewSends ==
  ASSUME holds \in Seq(HoldType), NEW a, NEW x, NEW hs, SameHolds(hs), Facts(x, a, hs), Places(x, hs),
         Reviewing(x), ~x.stray, NEW y, y = Settle(x, a)
  PROVE  \E fires \in BOOLEAN : Sends(x, y, a, fires)
<1>0. IsTab(x) /\ a \in [Sels -> Nat] /\ x.ctx.id \in 0 .. Len(hs)
  BY DEF Facts
<1>1. x.sel \in Sels /\ x.at = "review"
  BY <1>0 DEF Reviewing, IsTab, Tickets
<1>2. ~staleBooking(x)
  BY <1>0 DEF Places, staleBooking, SameHolds
<1>3. PICK fires \in BOOLEAN :
              /\ fires <=> y.seen # x.seen /\ y.checked /\ x.ctx.id = 0 /\ ~x.attempted
              /\ (y.attempted <=> x.attempted \/ fires)
              /\ (y.stray <=> x.stray \/ (fires /\ x.over))
              /\ fires => \E r \in y.net : r.kind = "create" /\ r.mount = x.mount
              /\ \A r \in y.net \ x.net :
                   /\ r.mount = x.mount /\ r.layout = x.layout
                   /\ \/ /\ r.kind = "check" /\ Asks(x) /\ r.h = x.param /\ r.sel = x.sel
                      \/ /\ r.kind = "cancel" /\ r.what = "clear" /\ r.h = x.ctx.id /\ r.h # 0 /\ staleBooking(x)
                      \/ /\ r.kind = "create" /\ fires /\ r.ans = "sent" /\ r.h = 0 /\ r.sel = x.sel
                         /\ r.att = attemptIn(a, x.sel) /\ r.again = x.retried
              /\ \A q, r \in y.net \ x.net : q.kind = r.kind => q = r \/ q.kind = "cancel"
  <2>1. /\ holds \in Seq(HoldType) /\ a \in [Sels -> Nat] /\ IsTab(x) /\ x.at = "review" /\ x.sel \in Sels
        /\ y = Settle(x, a)
    BY <1>0, <1>1
  <2> QED
    BY ONLY <2>1, ReviewSettles
<1>4. \A r \in y.net \ x.net : r.kind # "cancel"
  BY <1>2, <1>3
<1>5. /\ SamePlace(x, y) /\ SameFace(x, y) /\ SameMoney(x, y) /\ SamePast(x, y)
      /\ y.ctx = x.ctx /\ y.back = <<x.sel, x.param>>
      /\ (y.asked <=> x.asked \/ x.param # 0)
      /\ (y.checked <=> x.checked \/ Opens(x))
      /\ (staleBooking(x) \/ (y.clearing = x.clearing /\ y.gone = x.gone))
      /\ y.seen = <<y.checked, x.ctx.id # 0, x.nonce>>
      /\ x.net \subseteq y.net
      /\ Asks(x) => \E r \in y.net : r.kind = "check" /\ r.mount = x.mount
  BY <1>0, <1>1, ReviewSettles
<1>6. \A q, r \in y.net \ x.net : q.kind = r.kind => q = r
  BY <1>3, <1>4
<1>7. Sends(x, y, a, fires)
  BY <1>2, <1>3, <1>5, <1>6 DEF Sends
<1> QED
  BY <1>7

LEMMA SettleScreen ==
  ASSUME holds \in Seq(HoldType), NEW a, NEW x, NEW hs, SameHolds(hs), Facts(x, a, hs), Places(x, hs),
         Screen(x), ScreenReady(x), NEW y, y = Settle(x, a)
  PROVE  Screen(y)
<1>0. IsTab(x) /\ a \in [Sels -> Nat]
  BY DEF Facts
<1>1. CASE Reviewing(x) /\ ~x.stray
  <2>1. PICK fires \in BOOLEAN : Sends(x, y, a, fires)
    BY <1>1, ReviewSends
  <2> SUFFICES ASSUME ~y.stray PROVE Screen(y)
    BY DEF Screen
  <2>2. /\ Reviewing(y) /\ \A r \in y.net : Mine(y, r) <=> r.mount = x.mount
    BY <1>1, <2>1 DEF Sends, SamePlace, Reviewing, Mine
  <2>3. \A r \in x.net : Mine(x, r) <=> r.mount = x.mount
    BY <1>1 DEF Reviewing, Mine
  <2>4. \A r \in Own(y) :
         /\ r.kind = "check" =>
              /\ y.asked /\ ~y.checked /\ ~y.attempted /\ y.ctx.id = 0 /\ y.paying = NoPay
              /\ r.h = y.param /\ r.sel = y.sel
         /\ r.kind = "create" =>
              /\ y.attempted /\ y.checked /\ y.ctx.id = 0 /\ ~y.timer /\ ~y.err /\ ~y.over
              /\ r.sel = y.sel /\ r.again = y.retried
         /\ r.kind = "cancel" => r.what = "none"
         /\ r.kind = "write" => r.h = y.ctx.id \/ r.h \in y.gone
    <3> TAKE r \in Own(y)
    <3>1. CASE r \in x.net
      BY <3>1, <1>1, <2>1, <2>2, <2>3 DEF Own, Screen, Sends, SamePlace, SameFace, SameMoney, Opens
    <3>2. CASE r \notin x.net
      <4>1. r \in y.net \ x.net
        BY <3>2 DEF Own
      <4>2. CASE r.kind = "check" /\ Asks(x) /\ r.h = x.param /\ r.sel = x.sel
        BY <4>2, <1>1, <2>1 DEF Screen, ScreenReady, Sends, SamePlace, SameFace, SameMoney, Opens, Asks
      <4>3. CASE r.kind = "create" /\ fires /\ r.sel = x.sel /\ r.again = x.retried
        BY <4>3, <1>1, <2>1 DEF Screen, ScreenReady, Sends, SamePlace, SameFace
      <4> QED
        BY <4>1, <4>2, <4>3, <2>1 DEF Sends
    <3> QED
      BY <3>1, <3>2
  <2>5. \A q, r \in Own(y) : {q.kind, r.kind} \subseteq {"check", "create"} => q = r
    <3> SUFFICES ASSUME NEW q \in Own(y), NEW r \in Own(y), {q.kind, r.kind} \subseteq {"check", "create"}
                 PROVE  q = r
      OBVIOUS
    <3>1. q \in y.net /\ r \in y.net /\ q.mount = x.mount /\ r.mount = x.mount
      BY <2>2 DEF Own
    <3>2. CASE q \in x.net /\ r \in x.net
      BY <3>1, <3>2, <2>3, <1>1 DEF Screen, Own
    <3>3. \A p \in Own(x) : p.kind \in {"check", "create"} => ~Asks(x) /\ ~fires
      BY <1>1, <2>1 DEF Screen, ScreenReady, Sends, Asks, Opens
    <3>4. \A p \in y.net \ x.net : p.kind \in {"check", "create"} => Asks(x) \/ fires
      BY <2>1 DEF Sends
    <3>5. CASE q \notin x.net /\ r \notin x.net
      <4>1. ~(Asks(x) /\ fires)
        BY <1>1, <2>1 DEF ScreenReady, Sends, Asks, Opens
      <4> QED
        BY <3>1, <3>5, <4>1, <2>1 DEF Sends
    <3> QED
      BY <3>1, <3>2, <3>3, <3>4, <3>5, <2>3 DEF Own
  <2>6. /\ y.err => y.ctx.id = 0 /\ ~y.timer /\ y.attempted /\ y.checked
        /\ y.timer => y.ctx.id = 0 /\ ~y.over /\ y.attempted /\ y.checked
        /\ y.over => y.ctx.id = 0 /\ y.checked
    BY <1>1, <2>1 DEF Screen, Sends, SameFace
  <2> QED
    BY <2>4, <2>5, <2>6 DEF Screen
<1>2. CASE Reviewing(x) /\ x.stray
  <2>1. x.sel \in Sels /\ x.at = "review"
    BY <1>0, <1>2 DEF Reviewing, IsTab, Tickets
  <2>2. y.stray
    BY <1>0, <1>2, <2>1, ReviewSettles
  <2> QED
    BY <2>2 DEF Screen
<1>3. CASE ~Reviewing(x)
  <2>1. ~Reviewing(y)
    <3>1. y.sel = x.sel /\ y.at = (IF x.at = "review" THEN "picker" ELSE x.at)
      BY <1>0, <1>3, QuietSettles
    <3> QED
      BY <3>1, <1>3 DEF Reviewing
  <2> QED
    BY <2>1 DEF Screen
<1> QED
  BY <1>1, <1>2, <1>3

LEMMA SettleScreenSettled ==
  ASSUME holds \in Seq(HoldType), NEW a, NEW x, NEW hs, SameHolds(hs), Facts(x, a, hs), Places(x, hs),
         Screen(x), ScreenReady(x), NEW y, y = Settle(x, a)
  PROVE  ScreenSettled(y)
<1>0. IsTab(x) /\ a \in [Sels -> Nat]
  BY DEF Facts
<1>1. CASE Reviewing(x) /\ ~x.stray
  <2>1. PICK fires \in BOOLEAN : Sends(x, y, a, fires)
    BY <1>1, ReviewSends
  <2>2. /\ Reviewing(y) /\ \A r \in y.net : Mine(y, r) <=> r.mount = x.mount
    BY <1>1, <2>1 DEF Sends, SamePlace, Reviewing, Mine
  <2>3. \A r \in x.net : Mine(x, r) <=> r.mount = x.mount
    BY <1>1 DEF Reviewing, Mine
  <2>4. y.sel # None /\ y.back = <<y.sel, y.param>> /\ y.seen = <<y.checked, y.ctx.id # 0, y.nonce>>
    BY <2>1, <2>2 DEF Sends, SamePlace, SameFace, Reviewing
  <2>5. /\ y.ctx.id # 0 => y.checked
        /\ y.param # 0 => y.asked
    BY <2>1, <1>1 DEF Sends, SamePlace, ScreenReady, Opens
  <2>6. ~y.checked => \E r \in Own(y) : r.kind = "check"
    BY <2>1, <2>2, <2>3, <1>1 DEF Sends, ScreenReady, Opens, Asks, Own
  <2>7. y.over => y.attempted
    <3> SUFFICES ASSUME y.over, ~x.attempted PROVE fires
      BY <2>1 DEF Sends
    <3>1. x.over /\ x.ctx.id = 0 /\ x.checked
      BY <2>1, <1>1 DEF Sends, SameFace, Screen
    <3> QED
      BY <3>1, <2>1, <1>1 DEF Sends, ScreenReady, Unsettled
  <2>8. y.checked /\ ~y.attempted /\ y.ctx.id = 0 => y.retried
    <3> SUFFICES ASSUME y.checked, ~x.attempted, x.ctx.id = 0, ~x.retried PROVE fires
      BY <2>1 DEF Sends, SameFace
    <3>1. x.checked
      BY <2>1 DEF Sends, Opens
    <3> QED
      BY <3>1, <2>1, <1>1 DEF Sends, ScreenReady, Unsettled
  <2>9. Waits(y)
    <3> SUFFICES ASSUME y.checked, y.attempted, y.ctx.id = 0, ~y.err, ~y.over, ~y.timer
                 PROVE  \E r \in Own(y) : r.kind = "create"
      BY DEF Waits
    <3>1. CASE fires
      BY <3>1, <2>1, <2>2 DEF Sends, Own
    <3>2. CASE ~fires
      <4>1. x.checked /\ x.attempted /\ x.ctx.id = 0 /\ ~x.err /\ ~x.over /\ ~x.timer
        BY <3>2, <2>1 DEF Sends, Opens, SameFace
      <4>2. PICK r \in Own(x) : r.kind = "create"
        BY <4>1, <1>1 DEF ScreenReady, Waits
      <4> QED
        BY <4>2, <2>1, <2>2, <2>3 DEF Own, Sends
    <3> QED
      BY <3>1, <3>2
  <2> QED
    BY <2>2, <2>4, <2>5, <2>6, <2>7, <2>8, <2>9 DEF ScreenSettled, Reviewing
<1>2. CASE Reviewing(x) /\ x.stray
  <2>1. x.sel \in Sels /\ x.at = "review" /\ x.sel # None
    BY <1>0, <1>2 DEF Reviewing, IsTab, Tickets
  <2>2. y.stray
    BY <1>0, <1>2, <2>1, ReviewSettles
  <2>3. SamePlace(x, y) /\ y.back = <<x.sel, x.param>> /\ y.seen = <<y.checked, x.ctx.id # 0, x.nonce>>
        /\ y.ctx = x.ctx /\ SameFace(x, y)
    BY <1>0, <1>2, <2>1, ReviewSettles
  <2> QED
    BY <2>1, <2>2, <2>3 DEF ScreenSettled, SamePlace, SameFace
<1>3. CASE ~Reviewing(x)
  <2>1. y.sel = x.sel /\ y.at = (IF x.at = "review" THEN "picker" ELSE x.at) /\ y.stray = x.stray
    BY <1>0, <1>3, QuietSettles
  <2>2. y.at # "review"
    BY <2>1
  <2>3. ~y.stray /\ y.at = "picker" => y.ctx.id = 0
    <3> SUFFICES ASSUME ~y.stray, y.at = "picker" PROVE y.ctx.id = 0
      OBVIOUS
    <3>1. \/ y.ctx = x.ctx /\ (x.ctx.id = 0 \/ (x.releasing /\ x.at = "picker"))
          \/ y.ctx = NoBooking
      BY <1>0, <1>3, QuietSettles
    <3>2. x.at = "picker" => x.ctx.id = 0 \/ ~x.releasing
      BY <2>1 DEF ScreenReady
    <3> QED
      BY <3>1, <3>2 DEF NoBooking
  <2> QED
    BY <2>2, <2>3 DEF ScreenSettled, Reviewing
<1> QED
  BY <1>1, <1>2, <1>3

LEMMA SettleQuit ==
  ASSUME holds \in Seq(HoldType), NEW a, NEW x, NEW hs, SameHolds(hs), Facts(x, a, hs), Places(x, hs),
         ScreenReady(x), Quit(x), NEW y, y = Settle(x, a)
  PROVE  Quit(y)
<1>0. IsTab(x) /\ a \in [Sels -> Nat]
  BY DEF Facts
<1>1. CASE Reviewing(x) /\ ~x.stray
  <2>1. PICK fires \in BOOLEAN : Sends(x, y, a, fires)
    BY <1>1, ReviewSends
  <2> SUFFICES ASSUME ~y.stray, y.quit PROVE Quit(y)
    BY DEF Quit
  <2>2. /\ Reviewing(y) /\ \A r \in y.net : Mine(y, r) <=> r.mount = x.mount
    BY <1>1, <2>1 DEF Sends, SamePlace, Reviewing, Mine
  <2>3. \A r \in x.net : Mine(x, r) <=> r.mount = x.mount
    BY <1>1 DEF Reviewing, Mine
  <2>4. x.quit /\ Anchor(y) = Anchor(x)
    BY <1>1, <2>1, <2>2 DEF Sends, SamePast, SamePlace, Anchor
  <2>9. Anchor(x)[2] # 0 /\ y.opened = x.opened
    BY <1>1, <2>1, <2>4 DEF Quit, Sends, SamePast
  <2> SUFFICES ASSUME ~x.opened PROVE Quit(y)
    BY <2>4, <2>9 DEF Quit
  <2>5. /\ ~x.timer /\ (~x.checked \/ x.attempted \/ x.ctx.id # 0 \/ x.over)
        /\ \A r \in Own(x) : r.kind # "create"
    BY <1>1, <2>4 DEF Quit
  <2>6. ~fires
    BY <2>1, <2>5 DEF Sends, Opens
  <2>7. \A r \in Own(y) : r.kind # "create"
    BY <2>1, <2>2, <2>3, <2>5, <2>6 DEF Sends, Own
  <2>8. ~y.timer /\ (~y.checked \/ y.attempted \/ y.ctx.id # 0 \/ y.over)
    BY <2>1, <2>5 DEF Sends, SameFace, Opens
  <2> QED
    BY <2>4, <2>7, <2>8, <2>9 DEF Quit
<1>2. CASE Reviewing(x) /\ x.stray
  <2>1. x.sel \in Sels /\ x.at = "review"
    BY <1>0, <1>2 DEF Reviewing, IsTab, Tickets
  <2>2. y.stray
    BY <1>0, <1>2, <2>1, ReviewSettles
  <2> QED
    BY <2>2 DEF Quit
<1>3. CASE ~Reviewing(x)
  <2>1. /\ y.sel = x.sel /\ y.at = (IF x.at = "review" THEN "picker" ELSE x.at) /\ y.stray = x.stray
        /\ y.back = x.back /\ SamePast(x, y)
    BY <1>0, <1>3, QuietSettles
  <2>2. ~Reviewing(y) /\ Anchor(y) = Anchor(x)
    BY <2>1, <1>3 DEF Reviewing, Anchor
  <2> QED
    BY <1>3, <2>1, <2>2 DEF Quit, SamePast
<1> QED
  BY <1>1, <1>2, <1>3

LEMMA SettleNumbers ==
  ASSUME holds \in Seq(HoldType), NEW a, NEW x, NEW hs, SameHolds(hs), Facts(x, a, hs), Places(x, hs),
         Numbers(x, a, hs), NEW y, y = Settle(x, a)
  PROVE  Numbers(y, a, hs)
<1>0. IsTab(x) /\ a \in [Sels -> Nat]
  BY DEF Facts
<1>1. CASE Reviewing(x) /\ ~x.stray
  <2>1. PICK fires \in BOOLEAN : Sends(x, y, a, fires)
    BY <1>1, ReviewSends
  <2> SUFFICES ASSUME ~y.stray, ~y.blind PROVE Numbers(y, a, hs)
    BY DEF Numbers
  <2>2. /\ Reviewing(y) /\ Anchor(y) = Anchor(x) /\ \A r \in y.net : Mine(y, r) <=> r.mount = x.mount
    BY <1>1, <2>1 DEF Sends, SamePlace, Reviewing, Mine, Anchor
  <2>3. \A r \in x.net : Mine(x, r) <=> r.mount = x.mount
    BY <1>1 DEF Reviewing, Mine
  <2>4. ~x.blind /\ y.loose = x.loose /\ y.gone = x.gone /\ y.sel = x.sel /\ Reviewing(x)
        /\ x.net \subseteq y.net /\ (y.err \/ y.over => x.err \/ x.over)
        /\ \A r \in y.net \ x.net : r.ans = "sent" \/ r.kind # "create"
    BY <1>1, <2>1 DEF Sends, SamePast, SamePlace, SameFace
  <2>5. \A r \in Creates(y) : r.att = attemptIn(a, r.sel)
    <3> TAKE r \in Creates(y)
    <3>1. CASE r \in x.net
      BY <3>1, <2>4, <1>1 DEF Numbers, Creates
    <3>2. CASE r \notin x.net
      BY <3>2, <2>1 DEF Sends, Creates
    <3> QED
      BY <3>1, <3>2
  <2>6. \A h \in DOMAIN hs : (Held(y, hs, h) <=> Held(x, hs, h)) /\ (Heard(y, hs, h) => Heard(x, hs, h))
                             /\ (Pending(x, hs, h) => Pending(y, hs, h))
    BY <2>4 DEF Held, Heard, Pending, Creates
  <2>7. \A r \in Own(y) : r.kind = "create" /\ r.ans # "sent" => r \in Own(x)
    BY <2>2, <2>3, <2>4 DEF Own
  <2> QED
    BY <1>1, <2>2, <2>4, <2>5, <2>6, <2>7 DEF Numbers
<1>2. CASE Reviewing(x) /\ x.stray
  <2>1. x.sel \in Sels /\ x.at = "review"
    BY <1>0, <1>2 DEF Reviewing, IsTab, Tickets
  <2>2. y.stray
    BY <1>0, <1>2, <2>1, ReviewSettles
  <2> QED
    BY <2>2 DEF Numbers
<1>3. CASE ~Reviewing(x)
  <2>1. /\ y.sel = x.sel /\ y.at = (IF x.at = "review" THEN "picker" ELSE x.at) /\ y.stray = x.stray
        /\ y.back = x.back /\ SamePast(x, y)
    BY <1>0, <1>3, QuietSettles
  <2>2. y.at # "review" /\ Own(y) = {} /\ ~Reviewing(y) /\ Anchor(y) = Anchor(x)
    BY <2>1, <1>3 DEF Reviewing, Anchor, Own, Mine
  <2>3. x.gone \subseteq y.gone /\ Creates(y) = Creates(x)
    <3>1. \/ y.net = x.net /\ y.gone = x.gone
          \/ y.gone = x.gone \cup {x.ctx.id} /\ x.net \subseteq y.net /\ \A r \in y.net \ x.net : r.kind = "cancel"
      BY <1>0, <1>3, QuietSettles
    <3> QED
      BY <3>1 DEF Creates
  <2>4. \A h \in DOMAIN hs : (Held(y, hs, h) => Held(x, hs, h)) /\ (Heard(y, hs, h) => Heard(x, hs, h))
    BY <2>1, <2>3 DEF Held, Heard, SamePast
  <2> QED
    BY <2>1, <2>2, <2>3, <2>4 DEF Numbers, SamePast
<1> QED
  BY <1>1, <1>2, <1>3

LEMMA SettleTags ==
  ASSUME holds \in Seq(HoldType), NEW a, NEW x, NEW hs, SameHolds(hs), Facts(x, a, hs), Tags(x, hs),
         NEW y, y = Settle(x, a)
  PROVE  Tags(y, hs)
<1>0. IsTab(x) /\ a \in [Sels -> Nat]
  BY DEF Facts
<1>1. CASE Reviewing(x)
  <2>1. x.sel \in Sels /\ x.at = "review"
    BY <1>0, <1>1 DEF Reviewing, IsTab, Tickets
  <2>2. y.ctx = x.ctx /\ SamePast(x, y)
    BY <1>0, <2>1, ReviewSettles
  <2>3. \A r \in y.net \ x.net : r.kind # "write"
    BY <1>0, <2>1, ReviewSettles
  <2> QED
    BY <2>2, <2>3 DEF Tags, SamePast, Writing
<1>2. CASE ~Reviewing(x)
  <2>1. SamePast(x, y)
    BY <1>0, <1>2, QuietSettles
  <2>2. \/ y.ctx = x.ctx /\ y.net = x.net
        \/ y.ctx = NoBooking /\ \A r \in y.net \ x.net : r.kind = "cancel"
    BY <1>0, <1>2, QuietSettles
  <2> QED
    BY <2>1, <2>2 DEF Tags, SamePast, Writing, NoBooking
<1> QED
  BY <1>1, <1>2

LEMMA SettleClears ==
  ASSUME holds \in Seq(HoldType), NEW a, NEW x, NEW hs, SameHolds(hs), Facts(x, a, hs), NEW y, y = Settle(x, a)
  PROVE  Clears(y, hs)
<1>0. IsTab(x) /\ a \in [Sels -> Nat]
  BY DEF Facts
<1>1. CASE Reviewing(x)
  <2>1. x.sel \in Sels /\ x.at = "review"
    BY <1>0, <1>1 DEF Reviewing, IsTab, Tickets
  <2>2. y.ctx = x.ctx /\ SamePlace(x, y) /\ (staleBooking(x) => y.clearing)
    BY <1>0, <2>1, ReviewSettles
  <2>3. x.ctx.id \in 0 .. Len(hs)
    BY DEF Facts
  <2> QED
    BY <2>2, <2>3 DEF Clears, staleBooking, SamePlace, SameHolds
<1>2. CASE ~Reviewing(x)
  <2>1. y.at = (IF x.at = "review" THEN "picker" ELSE x.at)
    BY <1>0, <1>2, QuietSettles
  <2> QED
    BY <2>1 DEF Clears
<1> QED
  BY <1>1, <1>2

LEMMA SettleTotals ==
  ASSUME holds \in Seq(HoldType), NEW a, NEW x, NEW hs, SameHolds(hs), Facts(x, a, hs), Places(x, hs),
         Totals(x, hs), NEW y, y = Settle(x, a)
  PROVE  Totals(y, hs)
<1>0. IsTab(x) /\ a \in [Sels -> Nat]
  BY DEF Facts
<1>1. CASE Reviewing(x) /\ ~x.stray
  <2>1. PICK fires \in BOOLEAN : Sends(x, y, a, fires)
    BY <1>1, ReviewSends
  <2>2. /\ Reviewing(y) /\ ~AfterPay(y) /\ \A r \in y.net : Mine(y, r) <=> r.mount = x.mount
    BY <1>1, <2>1 DEF Sends, SamePlace, Reviewing, Mine, AfterPay
  <2>3. \A r \in x.net : Mine(x, r) <=> r.mount = x.mount
    BY <1>1 DEF Reviewing, Mine
  <2>4. Writing(y) = Writing(x)
    BY <2>1 DEF Sends, Writing
  <2>5. \A r \in Own(y) : r.kind = "create" /\ r.ans = "ok" => r \in Own(x)
    BY <2>1, <2>2, <2>3 DEF Own, Sends
  <2>6. /\ y.pending = x.pending /\ (x.crossed => y.crossed) /\ y.ctx = x.ctx
        /\ y.paying = x.paying /\ y.at = x.at /\ y.returned = x.returned
    BY <2>1 DEF Sends, SameMoney, SamePlace, SamePast
  <2>7. \A r \in Writing(x) : Mine(y, r) <=> Mine(x, r)
    BY <2>1, <2>2, <2>3 DEF Writing, Sends
  <2> QED
    BY <1>1, <2>2, <2>4, <2>5, <2>6, <2>7 DEF Totals
<1>2. CASE Reviewing(x) /\ x.stray
  <2>1. x.sel \in Sels /\ x.at = "review"
    BY <1>0, <1>2 DEF Reviewing, IsTab, Tickets
  <2>2. y.stray
    BY <1>0, <1>2, <2>1, ReviewSettles
  <2> QED
    BY <2>2 DEF Totals
<1>3. CASE ~Reviewing(x)
  <2>1. /\ y.sel = x.sel /\ y.at = (IF x.at = "review" THEN "picker" ELSE x.at) /\ y.stray = x.stray
        /\ y.back = x.back /\ SameMoney(x, y) /\ y.layout = x.layout /\ y.fromList = x.fromList
    BY <1>0, <1>3, QuietSettles
  <2>2. ~Reviewing(y) /\ (AfterPay(y) => AfterPay(x))
    BY <2>1, <1>3 DEF Reviewing, AfterPay, SameMoney
  <2>3. Writing(y) = Writing(x) /\ (AfterPay(y) => y.ctx = x.ctx)
    <3>1. \/ y.net = x.net /\ y.ctx = x.ctx
          \/ y.at = "picker" /\ x.net \subseteq y.net /\ \A r \in y.net \ x.net : r.kind = "cancel"
      BY <1>0, <1>3, QuietSettles
    <3> QED
      BY <3>1 DEF Writing, AfterPay
  <2> QED
    BY <2>1, <2>2, <2>3 DEF Totals, SameMoney
<1> QED
  BY <1>1, <1>2, <1>3

LEMMA SettleGood ==
  ASSUME holds \in Seq(HoldType), NEW a, NEW x, NEW hs, SameHolds(hs), Ready(x, a, hs)
  PROVE  Good(Settle(x, a), a, hs) /\ Settle(x, a).paying = x.paying
<1>1. PICK y : y = Settle(x, a)
  OBVIOUS
<1>2. Facts(x, a, hs) /\ Places(x, hs) /\ Screen(x) /\ Quit(x) /\ Numbers(x, a, hs) /\ Tags(x, hs)
      /\ Totals(x, hs) /\ ScreenReady(x)
  BY DEF Ready, Common
<1>3. Facts(y, a, hs) /\ Places(y, hs)
  BY <1>1, <1>2, SettleFacts, SettlePlaces
<1>4. Screen(y) /\ ScreenSettled(y)
  BY <1>1, <1>2, SettleScreen, SettleScreenSettled
<1>5. Quit(y) /\ Numbers(y, a, hs)
  BY <1>1, <1>2, SettleQuit, SettleNumbers
<1>6. Tags(y, hs) /\ Clears(y, hs) /\ Totals(y, hs)
  BY <1>1, <1>2, SettleTags, SettleClears, SettleTotals
<1>7. y.paying = x.paying
  <2>1. IsTab(x) /\ a \in [Sels -> Nat]
    BY <1>2 DEF Facts
  <2>2. CASE Reviewing(x)
    <3>1. x.sel \in Sels /\ x.at = "review"
      BY <2>1, <2>2 DEF Reviewing, IsTab, Tickets
    <3>2. SameMoney(x, y)
      BY <2>1, <3>1, <1>1, ReviewSettles
    <3> QED
      BY <3>2 DEF SameMoney
  <2>3. CASE ~Reviewing(x)
    BY <2>1, <2>3, <1>1, QuietSettles DEF SameMoney
  <2> QED
    BY <2>2, <2>3
<1> QED
  BY <1>1, <1>3, <1>4, <1>5, <1>6, <1>7 DEF Good, Common

-----------------------------------------------------------------------------
(* What the actions have in common.                                        *)

(* Pay opens the order that the booking has.                               *)
PaysRight ==
  c'.paying # c.paying /\ c'.paying # NoPay =>
    \/ c.crossed \/ c.stray \/ c.ctx.old \/ "gateway" \in c.pending
    \/ /\ holds[c'.paying[1]].order = c'.paying[2]
       /\ c.at = "review" => c.ctx.st # "paid" \/ c.returned

(* What every action does to a good tab.                                   *)
Kept == Good(c', attempts', holds') /\ PaysRight

LEMMA Finish ==
  ASSUME holds \in Seq(HoldType), NEW x, c' = Settle(x, attempts'), SameHolds(holds'), Ready(x, attempts', holds'),
         x.paying \in {c.paying, NoPay}
  PROVE  Kept
<1>1. PICK a : a = attempts'
  OBVIOUS
<1>2. PICK hs : hs = holds'
  OBVIOUS
<1>3. Good(Settle(x, a), a, hs) /\ Settle(x, a).paying = x.paying
  BY <1>1, <1>2, SettleGood
<1> QED
  BY <1>1, <1>2, <1>3 DEF Kept, PaysRight

LEMMA GoodIsReady ==
  ASSUME NEW x, NEW a, NEW hs, Good(x, a, hs)
  PROVE  Ready(x, a, hs)
BY DEF Good, Ready, ScreenSettled, ScreenReady, Reviewing, Asks

(* After a late answer only what does not depend on the screen is left.    *)
LEMMA StrayIsReady ==
  ASSUME NEW x, NEW a, NEW hs, Facts(x, a, hs), Tags(x, hs), x.stray
  PROVE  Ready(x, a, hs)
BY DEF Ready, Common, Places, Screen, Quit, Numbers, Totals, ScreenReady

LEMMA GoodFacts ==
  ASSUME NEW x, NEW a, NEW hs, Good(x, a, hs)
  PROVE  /\ Facts(x, a, hs) /\ Places(x, hs) /\ Screen(x) /\ ScreenSettled(x) /\ Quit(x) /\ Numbers(x, a, hs)
         /\ Tags(x, hs) /\ Clears(x, hs) /\ Totals(x, hs)
         /\ IsTab(x) /\ a \in [Sels -> Nat] /\ hs \in Seq(HoldType)
         /\ (x.at = "review" => Reviewing(x) /\ x.sel \in Sels)
BY DEF Good, Common, Facts, ScreenSettled, Reviewing, IsTab, Tickets

LEMMA AnsweredFacts ==
  ASSUME IsTab(c), NEW r \in c.net, NEW x, x = Answered(r)
  PROVE  /\ IsTab(x) /\ SamePlace(c, x) /\ SameGate(c, x) /\ SameFace(c, x) /\ SameMoney(c, x)
         /\ x.ctx = c.ctx /\ x.back = c.back /\ x.releasing = c.releasing /\ x.gone = c.gone
         /\ x.stray = c.stray
         /\ x.quit = c.quit /\ x.opened = c.opened /\ x.returned = c.returned /\ x.foreign = c.foreign
         /\ x.blind = c.blind
         /\ x.net = c.net \ {r}
         /\ x.loose = IF r.kind = "create" /\ ~Mine(c, r) THEN c.loose \cup {Key(r)} ELSE c.loose
<1>1. PICK l : l = IF r.kind = "create" /\ ~Mine(c, r) THEN c.loose \cup {Key(r)} ELSE c.loose
  OBVIOUS
<1>2. x = [c EXCEPT !.net = @ \ {r}, !.loose = l]
  BY <1>1 DEF Answered, Key, IsTab, Fields
<1>3. IsTab(x)
  BY <1>2 DEF IsTab, Fields
<1>4. SamePlace(c, x) /\ SameGate(c, x) /\ SameFace(c, x) /\ SameMoney(c, x)
  BY <1>2 DEF IsTab, Fields, SamePlace, SameGate, SameFace, SameMoney
<1> QED
  BY <1>1, <1>2, <1>3, <1>4 DEF IsTab, Fields

LEMMA SetBookingFacts ==
  ASSUME NEW x, IsTab(x), NEW r, NEW b \in BookingType, NEW y, y = setBooking(x, r, b)
  PROVE  /\ IsTab(y) /\ SamePlace(x, y) /\ SameGate(x, y) /\ SameFace(x, y) /\ SameMoney(x, y) /\ SamePast(x, y)
         /\ y.back = x.back /\ y.releasing = x.releasing /\ y.gone = x.gone /\ y.net = x.net
         /\ y.ctx = IF Provided(x, r) THEN b ELSE x.ctx
         /\ y.stray <=> x.stray \/ (Provided(x, r) /\ Stray(x, r))
<1>1. CASE Provided(x, r)
  <2>1. PICK s \in BOOLEAN : s <=> Stray(x, r)
    BY DEF Stray, Mine
  <2>2. y = [x EXCEPT !.ctx = b, !.stray = @ \/ Stray(x, r)]
    BY <1>1 DEF setBooking
  <2>3. IsTab(y)
    BY <2>2 DEF IsTab, Fields, Stray, Mine
  <2>4. SamePlace(x, y) /\ SameGate(x, y) /\ SameFace(x, y) /\ SameMoney(x, y) /\ SamePast(x, y)
    BY <2>2 DEF IsTab, Fields, SamePlace, SameGate, SameFace, SameMoney, SamePast
  <2> QED
    BY <1>1, <2>2, <2>3, <2>4 DEF IsTab, Fields
<1>2. CASE ~Provided(x, r)
  BY <1>2 DEF setBooking, SamePlace, SameGate, SameFace, SameMoney, SamePast
<1> QED
  BY <1>1, <1>2

(* An answer that no screen waits for changes nothing.                     *)
LEMMA AnsweredIsGood ==
  ASSUME Good(c, attempts, holds), NEW r \in c.net, ~Mine(c, r) \/ r.kind = "cancel", NEW x, x = Answered(r)
  PROVE  Good(x, attempts, holds)
<1>1. /\ Facts(c, attempts, holds) /\ Places(c, holds) /\ Screen(c) /\ ScreenSettled(c) /\ Quit(c)
      /\ Numbers(c, attempts, holds) /\ Tags(c, holds) /\ Clears(c, holds) /\ Totals(c, holds) /\ IsTab(c)
  BY GoodFacts
<1>2. /\ IsTab(x) /\ SamePlace(c, x) /\ SameGate(c, x) /\ SameFace(c, x) /\ SameMoney(c, x)
      /\ x.ctx = c.ctx /\ x.back = c.back /\ x.releasing = c.releasing /\ x.gone = c.gone /\ x.stray = c.stray
      /\ x.quit = c.quit /\ x.opened = c.opened /\ x.returned = c.returned /\ x.foreign = c.foreign
      /\ x.blind = c.blind
      /\ x.net = c.net \ {r}
      /\ x.loose = IF r.kind = "create" /\ ~Mine(c, r) THEN c.loose \cup {Key(r)} ELSE c.loose
  BY <1>1, AnsweredFacts
<1>3. /\ Reviewing(x) <=> Reviewing(c)
      /\ Anchor(x) = Anchor(c) /\ (AfterPay(x) <=> AfterPay(c))
      /\ \A q : Mine(x, q) <=> Mine(c, q)
  BY <1>2 DEF Reviewing, Anchor, AfterPay, Mine, SamePlace, SameMoney
<1>4. /\ Own(x) \subseteq Own(c) /\ \A q \in Own(c) : q.kind # "cancel" => q \in Own(x)
  BY <1>2, <1>3 DEF Own
<1>5. Facts(x, attempts, holds)
  BY <1>1, <1>2, <1>3 DEF Facts, RequestFine, SamePlace, SameMoney
<1>6. Places(x, holds)
  BY <1>1, <1>2, <1>3 DEF Places, SamePlace, SameMoney, SameGate, SameFace
<1>7. Screen(x)
  BY <1>1, <1>2, <1>3, <1>4 DEF Screen, SamePlace, SameMoney, SameGate, SameFace
<1>8. ScreenSettled(x)
  BY <1>1, <1>2, <1>3, <1>4 DEF ScreenSettled, SamePlace, SameGate, SameFace, Waits
<1>9. Quit(x)
  BY <1>1, <1>2, <1>3, <1>4 DEF Quit, SameGate, SameFace
<1>10. Numbers(x, attempts, holds)
  <2> SUFFICES ASSUME ~x.stray, ~x.blind PROVE Numbers(x, attempts, holds)
    BY DEF Numbers
  <2>1. Creates(x) \subseteq Creates(c) /\ x.sel = c.sel /\ x.err = c.err /\ x.over = c.over
    BY <1>2 DEF Creates, SamePlace, SameFace
  <2>2. \A h \in DOMAIN holds : (Held(x, holds, h) <=> Held(c, holds, h)) /\ (Heard(x, holds, h) => Heard(c, holds, h))
    BY <1>2 DEF Held, Heard, Creates
  <2>3. \A h \in DOMAIN holds : Pending(c, holds, h) => Pending(x, holds, h)
    <3> SUFFICES ASSUME NEW h \in DOMAIN holds, Pending(c, holds, h) PROVE Pending(x, holds, h)
      OBVIOUS
    <3>1. CASE r.kind = "create" /\ r.ans = "ok" /\ r.h = h
      <4>1. Key(holds[h]) = Key(r)
        BY <3>1, <1>1 DEF Facts, RequestFine, Key
      <4> QED
        BY <4>1, <3>1, <1>2 DEF Pending
    <3>2. CASE ~(r.kind = "create" /\ r.ans = "ok" /\ r.h = h)
      BY <3>2, <1>2 DEF Pending, Creates
    <3> QED
      BY <3>1, <3>2
  <2> QED
    BY <1>1, <1>2, <1>3, <1>4, <2>1, <2>2, <2>3 DEF Numbers
<1>11. Tags(x, holds)
  BY <1>1, <1>2 DEF Tags, Writing
<1>12. Clears(x, holds)
  BY <1>1, <1>2 DEF Clears, SamePlace, SameGate
<1>13. Totals(x, holds)
  <2> SUFFICES ASSUME ~x.stray, ~x.crossed PROVE Totals(x, holds)
    BY DEF Totals
  <2>1. Writing(x) = Writing(c) \ {r} /\ ~c.stray /\ ~c.crossed
    BY <1>2 DEF Writing, SameMoney
  <2>2. Reviewing(c) => Writing(x) = Writing(c)
    BY <1>1, <2>1 DEF Totals, Writing
  <2> QED
    BY <1>1, <1>2, <1>3, <1>4, <2>1, <2>2 DEF Totals, SameMoney, SamePlace
<1> QED
  BY <1>5, <1>6, <1>7, <1>8, <1>9, <1>10, <1>11, <1>12, <1>13 DEF Good, Common

(* Bookings that end, and whatever else changes neither an order nor what  *)
(* was paid.                                                               *)
Dims(hs, ht) ==
  /\ ht \in Seq(HoldType) /\ Len(ht) = Len(hs)
  /\ \A h \in DOMAIN hs :
       /\ ht[h].sel = hs[h].sel /\ ht[h].att = hs[h].att /\ ht[h].ver = hs[h].ver
       /\ ht[h].order = hs[h].order /\ (Live(ht, h) => Live(hs, h)) /\ (hs[h].due => ht[h].due)
       /\ hs[h].st = "paid" => ht[h].st = "paid"
       /\ ht[h].st = "reserved" => ~ht[h].due

LEMMA DimsIsGood ==
  ASSUME NEW x, NEW a, NEW hs, NEW ht, Good(x, a, hs), Dims(hs, ht)
  PROVE  Good(x, a, ht)
<1>1. /\ Facts(x, a, hs) /\ Places(x, hs) /\ Screen(x) /\ ScreenSettled(x) /\ Quit(x)
      /\ Numbers(x, a, hs) /\ Tags(x, hs) /\ Clears(x, hs) /\ Totals(x, hs) /\ IsTab(x) /\ hs \in Seq(HoldType)
  BY GoodFacts
<1>2. DOMAIN ht = DOMAIN hs /\ DOMAIN hs = 1 .. Len(hs) /\ Len(hs) \in Nat /\ Len(ht) = Len(hs)
  BY <1>1 DEF Dims
<1>3. Facts(x, a, ht)
  <2>1. OneLive(ht)
    BY <1>1, <1>2 DEF Dims, Facts, OneLive
  <2>2. \A h \in DOMAIN ht : HoldFine(h, a, ht)
    BY <1>1, <1>2 DEF Dims, Facts, HoldFine
  <2>3. \A r \in x.net : RequestFine(r, x, a, ht)
    <3> TAKE r \in x.net
    <3>1. RequestFine(r, x, a, hs)
      BY <1>1 DEF Facts
    <3>2. r.h \in DOMAIN hs => /\ ht[r.h].sel = hs[r.h].sel /\ ht[r.h].att = hs[r.h].att
                               /\ hs[r.h].st = "paid" => ht[r.h].st = "paid"
      BY DEF Dims
    <3> QED
      BY ONLY <1>2, <3>1, <3>2 DEF RequestFine
  <2> QED
    BY <1>1, <1>2, <2>1, <2>2, <2>3 DEF Facts, Dims
<1>4. {x.ctx.id, x.param, x.paying[1], x.back[2]} \subseteq 0 .. Len(hs)
  BY <1>1 DEF Facts
<1>5. Places(x, ht)
  BY <1>1, <1>2, <1>4 DEF Places, Dims
<1>6. Numbers(x, a, ht)
  <2>1. \A h \in DOMAIN hs : /\ Held(x, ht, h) => Held(x, hs, h)
                             /\ Heard(x, ht, h) <=> Heard(x, hs, h)
                             /\ Pending(x, ht, h) <=> Pending(x, hs, h)
                             /\ Key(ht[h]) = Key(hs[h])
    BY DEF Dims, Held, Heard, Pending, Key
  <2> QED
    BY <1>1, <1>2, <2>1 DEF Numbers, Dims
<1>7. Tags(x, ht)
  BY <1>1, <1>2, <1>4 DEF Tags, Dims, Facts, RequestFine, Writing
<1>8. Clears(x, ht)
  BY <1>1, <1>2, <1>4 DEF Clears, Dims
<1>9. Totals(x, ht)
  <2>0. Totals(x, hs)
    BY <1>1
  <2>1. \A h \in DOMAIN hs :
          ht[h].order = hs[h].order /\ (Live(ht, h) => Live(hs, h)) /\ (hs[h].due => ht[h].due)
    BY DEF Dims
  <2>2. \A r \in x.net : r.kind = "write" \/ (r.kind = "create" /\ r.ans = "ok") => r.h \in DOMAIN hs
    BY <1>1 DEF Facts, RequestFine
  <2>3. x.ctx.id # 0 => x.ctx.id \in DOMAIN hs
    BY <1>2, <1>4
  <2> QED
    BY ONLY <2>0, <2>1, <2>2, <2>3 DEF Totals, Writing, Own
<1> QED
  BY <1>1, <1>3, <1>5, <1>6, <1>7, <1>8, <1>9 DEF Good, Common

-----------------------------------------------------------------------------
(* Attempt numbers.                                                        *)

LEMMA BumpFacts ==
  ASSUME attempts \in [Sels -> Nat], NEW s \in Sels, NEW b, b = bumpAttempt(s)
  PROVE  /\ b \in [Sels -> Nat]
         /\ attemptIn(b, s) = attemptIn(attempts, s) + 1 /\ attemptIn(attempts, s) \in Nat
         /\ \A t \in Sels \ {s} : attemptIn(b, t) = attemptIn(attempts, t)
         /\ \A t \in Sels : attemptIn(attempts, t) <= attemptIn(b, t)
BY DEF bumpAttempt, attemptFor, attemptIn

(* Numbers only grow, and what was given out stays below them.             *)
Later(b) == b \in [Sels -> Nat] /\ \A t \in Sels : attemptIn(attempts, t) <= attemptIn(b, t)

LEMMA BumpIsLater ==
  ASSUME attempts \in [Sels -> Nat], NEW s \in Sels
  PROVE  Later(bumpAttempt(s)) /\ Later(attempts)
BY BumpFacts DEF Later, attemptIn

LEMMA LaterIsFine ==
  ASSUME NEW b, Later(b), attempts \in [Sels -> Nat], NEW t \in Sels, NEW n \in Nat, n <= attemptIn(attempts, t)
  PROVE  n <= attemptIn(b, t)
BY DEF Later, attemptIn

LEMMA CopyFacts ==
  ASSUME holds \in Seq(HoldType), NEW h \in DOMAIN holds, NEW f \in Tickets
  PROVE  /\ Copy(h, f) \in BookingType /\ Copy(h, f).id = h /\ Copy(h, f).for = f
         /\ Copy(h, f).order = holds[h].order /\ Copy(h, f).st = holds[h].st
<1>1. holds[h] \in HoldType /\ h \in Nat
  OBVIOUS
<1> QED
  BY <1>1 DEF Copy, BookingType, HoldType

LEMMA NoBookingFacts == NoBooking \in BookingType /\ NoBooking.id = 0 /\ NoBooking.st = "none" /\ NoBooking.order = 0
BY DEF NoBooking, BookingType, Tickets, Statuses

(* What is kept of the types when nothing is sent and no booking changes.  *)
LEMMA FactsKept ==
  ASSUME NEW hs, Facts(c, attempts, hs), NEW x, IsTab(x), NEW b, Later(b),
         x.net \subseteq c.net, x.gone \subseteq c.gone, x.mount = c.mount,
         Reviewing(x) => Reviewing(c) /\ x.layout = c.layout,
         {x.ctx.id, x.param, x.paying[1]} \subseteq 0 .. Len(hs), x.back = c.back,
         x.at \in {"failed", "confirmation"} => x.param # 0,
         x.paying # NoPay => x.paying[1] # 0,
         x.at = "review" => x.mount # 0
  PROVE  Facts(x, b, hs)
<1>0. attempts \in [Sels -> Nat] /\ hs \in Seq(HoldType) /\ IsTab(c) /\ b \in [Sels -> Nat]
  BY DEF Facts, Later
<1>1. \A r \in x.net : RequestFine(r, x, b, hs)
  <2> TAKE r \in x.net
  <2>1. RequestFine(r, c, attempts, hs) /\ r.att \in Nat
    BY DEF Facts, IsTab, IsRequest
  <2>2. r.kind = "create" => r.att <= attemptIn(b, r.sel)
    BY <1>0, <2>1, LaterIsFine DEF RequestFine
  <2> QED
    BY <2>1, <2>2 DEF RequestFine
<1>2. \A h \in DOMAIN hs : HoldFine(h, b, hs)
  <2> TAKE h \in DOMAIN hs
  <2>1. HoldFine(h, attempts, hs) /\ hs[h] \in HoldType
    BY <1>0 DEF Facts
  <2>2. hs[h].att \in Nat /\ hs[h].sel \in Sels
    BY <2>1 DEF HoldType
  <2>3. hs[h].att <= attemptIn(b, hs[h].sel)
    BY <1>0, <2>1, <2>2, LaterIsFine DEF HoldFine
  <2> QED
    BY <2>1, <2>3 DEF HoldFine
<1> QED
  BY <1>0, <1>1, <1>2 DEF Facts

(* ... and when requests are sent, or a screen opens.                      *)
LEMMA FactsGrow ==
  ASSUME NEW hs, Facts(c, attempts, hs), NEW x, IsTab(x), NEW b, Later(b),
         \A r \in x.net \ c.net : RequestFine(r, x, b, hs),
         \A r \in c.net : r.mount <= x.mount /\ (Reviewing(x) /\ r.mount = x.mount => r.layout = x.layout),
         x.gone \subseteq DOMAIN hs,
         {x.ctx.id, x.param, x.paying[1]} \subseteq 0 .. Len(hs), x.back = c.back,
         x.at \in {"failed", "confirmation"} => x.param # 0,
         x.paying # NoPay => x.paying[1] # 0,
         x.at = "review" => x.mount # 0
  PROVE  Facts(x, b, hs)
<1>0. attempts \in [Sels -> Nat] /\ hs \in Seq(HoldType) /\ IsTab(c) /\ b \in [Sels -> Nat]
  BY DEF Facts, Later
<1>1. \A r \in x.net : RequestFine(r, x, b, hs)
  <2> TAKE r \in x.net
  <2>1. CASE r \in c.net
    <3>1. RequestFine(r, c, attempts, hs) /\ r.att \in Nat
      BY <2>1 DEF Facts, IsTab, IsRequest
    <3>2. r.kind = "create" => r.att <= attemptIn(b, r.sel)
      BY <1>0, <3>1, LaterIsFine DEF RequestFine
    <3> QED
      BY <2>1, <3>1, <3>2 DEF RequestFine
  <2> QED
    BY <2>1
<1>2. \A h \in DOMAIN hs : HoldFine(h, b, hs)
  <2> TAKE h \in DOMAIN hs
  <2>1. HoldFine(h, attempts, hs) /\ hs[h] \in HoldType
    BY <1>0 DEF Facts
  <2>2. hs[h].att \in Nat /\ hs[h].sel \in Sels
    BY <2>1 DEF HoldType
  <2>3. hs[h].att <= attemptIn(b, hs[h].sel)
    BY <1>0, <2>1, <2>2, LaterIsFine DEF HoldFine
  <2> QED
    BY <2>1, <2>3 DEF HoldFine
<1> QED
  BY <1>0, <1>1, <1>2 DEF Facts

-----------------------------------------------------------------------------
(* Answers to a reserve.                                                   *)

LEMMA OwnCreate ==
  ASSUME Good(c, attempts, holds), NEW r \in c.net, r.kind = "create", Mine(c, r), ~c.stray
  PROVE  /\ Reviewing(c) /\ c.at = "review" /\ r.sel = c.sel /\ c.sel \in Sels /\ c.ctx.id = 0
         /\ c.attempted /\ c.checked /\ ~c.timer /\ ~c.err /\ ~c.over /\ c.paying = NoPay /\ (c.quit => c.opened)
         /\ r.again = c.retried /\ c.seen = <<TRUE, FALSE, c.nonce>> /\ c.back = <<c.sel, c.param>>
         /\ r \in Own(c) /\ ~c.foreign /\ ~c.clearing /\ ~c.retrying
         /\ \A q \in Own(c) : q.kind \in {"check", "create"} => q = r
         /\ \A w \in Own(c) : w.kind = "write" => w.h \in c.gone
         /\ ~c.crossed => \A w \in Writing(c) : holds[w.h].due
<1>1. /\ Facts(c, attempts, holds) /\ Places(c, holds) /\ Screen(c) /\ ScreenSettled(c) /\ Quit(c)
      /\ Totals(c, holds) /\ IsTab(c) /\ (c.at = "review" => Reviewing(c) /\ c.sel \in Sels)
  BY GoodFacts
<1>2. Reviewing(c) /\ c.at = "review" /\ c.sel \in Sels /\ r \in Own(c)
  BY <1>1 DEF Mine, Own
<1>3. /\ c.attempted /\ c.checked /\ c.ctx.id = 0 /\ ~c.timer /\ ~c.err /\ ~c.over
      /\ r.sel = c.sel /\ r.again = c.retried
  BY <1>1, <1>2 DEF Screen
<1>4. c.seen = <<TRUE, FALSE, c.nonce>> /\ c.back = <<c.sel, c.param>>
  <2>1. (c.ctx.id # 0) = FALSE /\ c.checked = TRUE
    BY <1>1, <1>3 DEF IsTab
  <2> QED
    BY <1>1, <1>2, <2>1 DEF ScreenSettled
<1>5. c.paying = NoPay /\ ~c.foreign /\ ~c.clearing /\ ~c.retrying
  BY <1>1, <1>2, <1>3 DEF Places
<1>6. c.quit => c.opened
  BY <1>1, <1>2 DEF Quit
<1>7. \A q \in Own(c) : q.kind \in {"check", "create"} => q = r
  BY <1>1, <1>2 DEF Screen
<1>8. \A w \in Own(c) : w.kind = "write" => w.h \in c.gone
  <2> SUFFICES ASSUME NEW w \in Own(c), w.kind = "write" PROVE w.h # 0
    BY <1>1, <1>2, <1>3 DEF Screen
  <2>1. w.h \in DOMAIN holds /\ holds \in Seq(HoldType)
    BY <1>1 DEF Facts, RequestFine, Own
  <2> QED
    BY <2>1
<1>9. ~c.crossed => \A w \in Writing(c) : holds[w.h].due
  <2> SUFFICES ASSUME ~c.crossed, NEW w \in Writing(c) PROVE holds[w.h].due
    OBVIOUS
  <2>1. w.h \in DOMAIN holds /\ holds \in Seq(HoldType)
    BY <1>1 DEF Facts, RequestFine, Writing
  <2> QED
    BY <2>1, <1>1, <1>2, <1>3 DEF Totals
<1> QED
  BY <1>2, <1>3, <1>4, <1>5, <1>6, <1>7, <1>8, <1>9

(* Whatever holds seats under the number of a reserve that was answered is *)
(* the booking of the answer, or of another reserve.                       *)
LEMMA OwnCreateNumbers ==
  ASSUME Good(c, attempts, holds), NEW r \in c.net, r.kind = "create", Mine(c, r), ~c.stray, ~c.blind
  PROVE  /\ r.att = attemptIn(attempts, c.sel)
         /\ \A h \in DOMAIN holds :
              Held(c, holds, h) /\ holds[h].sel = c.sel =>
                /\ Key(holds[h]) = Key(r)
                /\ r.ans # "sent" => \/ h = r.h /\ r.ans = "ok"
                                     \/ Key(r) \in c.loose
                                     \/ \E q \in Creates(c) \ {r} : q.ans = "ok" /\ q.h = h /\ Key(q) = Key(r)
<1>1. Facts(c, attempts, holds) /\ Numbers(c, attempts, holds) /\ IsTab(c) /\ holds \in Seq(HoldType)
  BY GoodFacts
<1>2. r.sel = c.sel /\ r \in Own(c)
  BY OwnCreate
<1>3. r.att = attemptIn(attempts, c.sel)
  BY <1>1, <1>2 DEF Numbers, Creates
<1>4. ASSUME NEW h \in DOMAIN holds, Held(c, holds, h), holds[h].sel = c.sel
      PROVE  Key(holds[h]) = Key(r)
  BY <1>1, <1>2, <1>3, <1>4 DEF Numbers, Key
<1>5. ASSUME NEW h \in DOMAIN holds, Held(c, holds, h), holds[h].sel = c.sel, r.ans # "sent"
      PROVE  \/ h = r.h /\ r.ans = "ok"
             \/ Key(r) \in c.loose
             \/ \E q \in Creates(c) \ {r} : q.ans = "ok" /\ q.h = h /\ Key(q) = Key(r)
  <2>1. Key(holds[h]) = Key(r)
    BY <1>4, <1>5
  <2>2. h = r.h \/ Pending(c, holds, h)
    BY <1>1, <1>2, <1>5, <2>1 DEF Numbers, Held
  <2>3. h = r.h => r.ans = "ok"
    BY <1>1, <1>5 DEF Facts, RequestFine
  <2>4. \A q \in Creates(c) : q.ans = "ok" /\ q.h = h => Key(q) = Key(r)
    BY <1>1, <2>1 DEF Facts, RequestFine, Creates, Key
  <2> QED
    BY <2>1, <2>2, <2>3, <2>4 DEF Pending
<1> QED
  BY <1>3, <1>4, <1>5

(* The reserve did not give the screen a booking.                          *)
LEMMA OwnCreateFails ==
  ASSUME Good(c, attempts, holds), NEW r \in c.net, r.kind = "create", Mine(c, r),
         NEW b, Later(b), NEW x, IsTab(x), SamePlace(c, x), SameMoney(c, x),
         x.ctx \in {c.ctx, NoBooking}, x.back = c.back, x.gone = c.gone, x.stray = c.stray, x.quit = c.quit, x.opened = c.opened, x.returned = c.returned,
         x.foreign = c.foreign, x.net = c.net \ {r}, x.checked = c.checked, x.asked = c.asked,
         x.clearing = c.clearing, x.retrying = c.retrying, x.over = c.over, x.seen = c.seen,
         ~c.stray => /\ x.err => ~x.timer /\ x.attempted
                     /\ x.timer => x.attempted
                     /\ x.attempted => x.err \/ x.timer
                     /\ ~x.attempted => x.retried \/ x.nonce # c.nonce
  PROVE  Facts(x, b, holds) /\ Places(x, holds) /\ Screen(x) /\ Quit(x) /\ Tags(x, holds) /\ Totals(x, holds)
         /\ ScreenReady(x)
<1>1. /\ Facts(c, attempts, holds) /\ Places(c, holds) /\ Screen(c) /\ ScreenSettled(c) /\ Quit(c)
      /\ Tags(c, holds) /\ Totals(c, holds) /\ IsTab(c)
      /\ (c.at = "review" => Reviewing(c) /\ c.sel \in Sels)
  BY GoodFacts
<1>2. Facts(x, b, holds)
  <2>1. x.ctx.id \in 0 .. Len(holds) /\ x.param \in 0 .. Len(holds) /\ x.paying[1] \in 0 .. Len(holds)
    BY <1>1, NoBookingFacts DEF Facts, SamePlace, SameMoney
  <2>2. /\ x.net \subseteq c.net /\ x.gone \subseteq c.gone /\ x.mount = c.mount
        /\ (Reviewing(x) => Reviewing(c) /\ x.layout = c.layout)
        /\ (x.at \in {"failed", "confirmation"} => x.param # 0)
        /\ (x.paying # NoPay => x.paying[1] # 0)
        /\ (x.at = "review" => x.mount # 0)
    BY <1>1 DEF Facts, SamePlace, SameMoney, Reviewing
  <2> QED
    BY <1>1, <2>1, <2>2, FactsKept
<1>3. Tags(x, holds)
  BY <1>1, NoBookingFacts DEF Tags, Writing
<1>4. CASE ~c.stray
  <2>1. /\ Reviewing(c) /\ c.at = "review" /\ r.sel = c.sel /\ c.sel \in Sels /\ c.ctx.id = 0
         /\ c.checked /\ ~c.over /\ c.paying = NoPay /\ (c.quit => c.opened)
         /\ c.seen = <<TRUE, FALSE, c.nonce>>
         /\ ~c.foreign /\ ~c.clearing /\ ~c.retrying
         /\ \A q \in Own(c) : q.kind \in {"check", "create"} => q = r
         /\ \A w \in Own(c) : w.kind = "write" => w.h \in c.gone
    BY <1>4, OwnCreate
  <2>2. /\ Reviewing(x) /\ Anchor(x) = Anchor(c) /\ ~AfterPay(x) /\ x.ctx.id = 0
        /\ \A q : Mine(x, q) <=> Mine(c, q)
    BY <2>1, NoBookingFacts DEF SamePlace, Reviewing, Anchor, AfterPay, Mine
  <2>3. Own(x) = Own(c) \ {r} /\ \A q \in Own(x) : q.kind \notin {"check", "create"}
    BY <2>1, <2>2 DEF Own
  <2>4. Places(x, holds)
    BY <1>1, <1>4, <2>1, <2>2 DEF Places, SamePlace, SameMoney, Reviewing
  <2>5. Screen(x)
    BY <1>1, <1>4, <2>1, <2>2, <2>3 DEF Screen
  <2>6. Quit(x)
    BY <1>1, <1>4, <2>1, <2>2 DEF Quit
  <2>7. Totals(x, holds)
    <3>1. Writing(x) = Writing(c)
      BY DEF Writing
    <3>2. /\ x.pending = c.pending /\ x.crossed = c.crossed /\ x.paying = c.paying /\ x.at = c.at
          /\ (x.ctx.order = 0 /\ x.ctx.st = "none") \/ x.ctx = c.ctx
          /\ x.returned = c.returned
      BY DEF SameMoney, SamePlace, NoBooking
    <3> QED
      BY <1>1, <1>4, <2>1, <2>2, <2>3, <3>1, <3>2 DEF Totals
  <2>8. ScreenReady(x)
    <3>1. ~x.attempted => x.retried \/ Unsettled(x)
      BY <1>4, <2>1 DEF Unsettled
    <3>2. ~Asks(x)
      BY <1>1, <1>4, <2>1 DEF Asks, ScreenSettled, SamePlace
    <3> QED
      BY <1>4, <2>1, <2>2, <3>1, <3>2 DEF ScreenReady, Waits, Reviewing
  <2> QED
    BY <1>2, <1>3, <2>4, <2>5, <2>6, <2>7, <2>8
<1>5. CASE c.stray
  <2>1. Ready(x, b, holds)
    BY <1>2, <1>3, <1>5, StrayIsReady
  <2> QED
    BY <2>1 DEF Ready, Common
<1> QED
  BY <1>4, <1>5

LEMMA SameHoldsFacts ==
  ASSUME holds \in Seq(HoldType)
  PROVE  SameHolds(holds)
BY DEF SameHolds

LEMMA NumbersOwnCreate ==
  ASSUME Good(c, attempts, holds), NEW r \in c.net, r.kind = "create", Mine(c, r),
         NEW x, SamePlace(c, x), x.net = c.net \ {r}, x.gone = c.gone, x.stray = c.stray, x.back = c.back,
         x.loose \in {c.loose, c.loose \cup {Key(r)}}, x.blind = c.blind,
         (r.ans # "sent" /\ ~(r.ans = "ok" /\ Live(holds, r.h))) \/ Key(r) \in x.loose
  PROVE  Numbers(x, attempts, holds)
<1> SUFFICES ASSUME ~c.stray, ~c.blind PROVE Numbers(x, attempts, holds)
  BY DEF Numbers
<1>1. Numbers(c, attempts, holds)
  BY GoodFacts
<1>2. /\ Reviewing(c) /\ c.at = "review" /\ r.sel = c.sel
      /\ \A q \in Own(c) : q.kind \in {"check", "create"} => q = r
  BY OwnCreate
<1>3. /\ Reviewing(x) /\ Anchor(x) = Anchor(c) /\ Anchor(c)[1] = c.sel /\ x.sel = c.sel
      /\ \A q : Mine(x, q) <=> Mine(c, q)
  BY <1>2 DEF SamePlace, Reviewing, Anchor, Mine
<1>4. Creates(x) = Creates(c) \ {r} /\ \A q \in Own(x) : q.kind # "create"
  BY <1>2, <1>3 DEF Creates, Own
<1>5. \A h \in DOMAIN holds : Held(x, holds, h) <=> Held(c, holds, h)
  BY DEF Held
<1>6. \A h \in DOMAIN holds :
        Held(c, holds, h) /\ holds[h].sel = c.sel =>
          \/ Key(holds[h]) \in x.loose
          \/ \E q \in Creates(x) : q.ans = "ok" /\ q.h = h /\ Key(q) = Key(holds[h])
  <2> SUFFICES ASSUME NEW h \in DOMAIN holds, Held(c, holds, h), holds[h].sel = c.sel
               PROVE  \/ Key(holds[h]) \in x.loose
                      \/ \E q \in Creates(x) : q.ans = "ok" /\ q.h = h /\ Key(q) = Key(holds[h])
    OBVIOUS
  <2>1. /\ Key(holds[h]) = Key(r)
        /\ r.ans # "sent" => \/ h = r.h /\ r.ans = "ok"
                             \/ Key(r) \in c.loose
                             \/ \E q \in Creates(c) \ {r} : q.ans = "ok" /\ q.h = h /\ Key(q) = Key(r)
    BY OwnCreateNumbers
  <2> QED
    BY <2>1, <1>4 DEF Held
<1>7. \A h \in DOMAIN holds : Key(holds[h]) = <<x.sel, attemptIn(attempts, x.sel)>> => holds[h].sel = c.sel
  BY <1>3 DEF Key
<1> QED
  BY <1>1, <1>3, <1>4, <1>5, <1>6, <1>7 DEF Numbers, Heard, Pending

(* Nobody heard from a reserve under the number of the selection.          *)
Silent(x, s) ==
  Key([sel |-> s, att |-> attemptIn(attempts, s)]) \notin x.loose
  /\ \A q \in Creates(x) : ~(q.sel = s /\ q.att = attemptIn(attempts, s))

LEMMA MovesOnFacts ==
  ASSUME NEW x, IsTab(x), NEW s, NEW y, y = MovesOn(x, s)
  PROVE  \E p \in BOOLEAN : y = [x EXCEPT !.blind = p] /\ (~p => ~x.blind /\ Silent(x, s))
<1>1. PICK p \in BOOLEAN : p <=> x.blind \/ Unheard(x, s)
  BY DEF Unheard
<1>2. y = [x EXCEPT !.blind = p]
  BY <1>1 DEF MovesOn, IsTab, Fields, Unheard
<1>3. ~Unheard(x, s) => Silent(x, s)
  BY DEF Unheard, Silent, attemptFor, Key, Creates
<1> QED
  BY <1>1, <1>2, <1>3

(* A number is moved on and no seats are held under the old one.           *)
LEMMA NumbersMoveOn ==
  ASSUME Facts(c, attempts, holds), Numbers(c, attempts, holds), NEW s \in Sels,
         NEW b, \A t \in Sels \ {s} : attemptIn(b, t) = attemptIn(attempts, t),
         NEW x, x.loose = c.loose, Creates(x) \subseteq Creates(c), c.gone \subseteq x.gone,
         ~x.stray => ~c.stray, ~x.blind => ~c.blind /\ Silent(x, s),
         \A q \in Creates(c) \ Creates(x) : q.sel = s,
         ~x.stray /\ ~x.blind =>
           /\ Anchor(x) = Anchor(c)
           /\ \A q \in Own(x) : q.kind # "create"
           /\ \A h \in DOMAIN holds : Held(x, holds, h) => holds[h].sel # s
           /\ Reviewing(x) /\ (x.err \/ x.over) => x.sel = s
  PROVE  Numbers(x, b, holds)
<1> SUFFICES ASSUME ~x.stray, ~x.blind PROVE Numbers(x, b, holds)
  BY DEF Numbers
<1>2. \A t \in Sels \ {s} : attemptIn(b, t) = attemptIn(attempts, t)
  OBVIOUS
<1>3. \A q \in Creates(x) : q.sel \in Sels \ {s}
  BY DEF Facts, RequestFine, Silent, Creates, Numbers
<1>4. \A h \in DOMAIN holds : holds[h].sel \in Sels
  <2> TAKE h \in DOMAIN holds
  <2>1. holds \in Seq(HoldType)
    BY DEF Facts
  <2>2. holds[h] \in HoldType
    BY <2>1
  <2> QED
    BY <2>2 DEF HoldType
<1>5. \A h \in DOMAIN holds : Held(x, holds, h) => Held(c, holds, h) /\ holds[h].sel \in Sels \ {s}
  BY <1>4 DEF Held
<1>6. \A h \in DOMAIN holds : Held(x, holds, h) /\ Heard(x, holds, h) => Heard(c, holds, h)
  <2> SUFFICES ASSUME NEW h \in DOMAIN holds, Held(x, holds, h), Heard(x, holds, h) PROVE Heard(c, holds, h)
    OBVIOUS
  <2>1. \A q \in Creates(c) \ Creates(x) : Key(q) # Key(holds[h])
    BY <1>5 DEF Key
  <2> QED
    BY <2>1 DEF Heard
<1>7. \A r \in Creates(x) : r.att = attemptIn(b, r.sel)
  BY <1>2, <1>3 DEF Numbers
<1>8. \A h \in DOMAIN holds : Held(x, holds, h) => holds[h].att = attemptIn(b, holds[h].sel)
  BY <1>2, <1>5 DEF Numbers
<1>9. \A h \in DOMAIN holds :
         Held(x, holds, h) /\ Heard(x, holds, h) /\ holds[h].sel = Anchor(x)[1] => Anchor(x)[2] \in {0, h}
  BY <1>5, <1>6 DEF Numbers
<1>10. Reviewing(x) /\ (x.err \/ x.over) =>
         \A h \in DOMAIN holds : Held(x, holds, h) => Key(holds[h]) # <<x.sel, attemptIn(b, x.sel)>>
  BY <1>5 DEF Key
<1> QED
  BY <1>7, <1>8, <1>9, <1>10 DEF Numbers

(* Nothing that numbers depend on has changed.                             *)
LEMMA NumbersStay ==
  ASSUME Facts(c, attempts, holds), Numbers(c, attempts, holds),
         NEW b, \A t \in Sels : attemptIn(b, t) = attemptIn(attempts, t),
         NEW x, x.loose = c.loose, Creates(x) = Creates(c), c.gone \subseteq x.gone,
         ~x.stray => ~c.stray, ~x.blind => ~c.blind,
         ~x.stray /\ ~x.blind =>
           /\ Anchor(x) = Anchor(c)
           /\ \A q \in Own(x) : q.kind = "create" => q \in Own(c)
           /\ Reviewing(x) /\ (x.err \/ x.over) => Reviewing(c) /\ (c.err \/ c.over) /\ x.sel = c.sel
  PROVE  Numbers(x, b, holds)
<1> SUFFICES ASSUME ~x.stray, ~x.blind PROVE Numbers(x, b, holds)
  BY DEF Numbers
<1>1. \A h \in DOMAIN holds : holds[h].sel \in Sels
  <2> TAKE h \in DOMAIN holds
  <2>1. holds \in Seq(HoldType)
    BY DEF Facts
  <2>2. holds[h] \in HoldType
    BY <2>1
  <2> QED
    BY <2>2 DEF HoldType
<1>2. \A q \in Creates(x) : q.sel \in Sels
  BY DEF Facts, RequestFine, Creates
<1>3. \A h \in DOMAIN holds : /\ Held(x, holds, h) => Held(c, holds, h)
                              /\ Heard(x, holds, h) <=> Heard(c, holds, h)
                              /\ Pending(x, holds, h) <=> Pending(c, holds, h)
  BY DEF Held, Heard, Pending
<1>4. \A r \in Creates(x) : r.att = attemptIn(b, r.sel)
  BY <1>2 DEF Numbers
<1>5. \A h \in DOMAIN holds : Held(x, holds, h) => holds[h].att = attemptIn(b, holds[h].sel)
  BY <1>1, <1>3 DEF Numbers
<1>6. \A h \in DOMAIN holds :
         Held(x, holds, h) /\ Heard(x, holds, h) /\ holds[h].sel = Anchor(x)[1] => Anchor(x)[2] \in {0, h}
  BY <1>3 DEF Numbers
<1>7. \A r \in Own(x) : r.kind = "create" /\ r.ans # "sent" =>
         \A h \in DOMAIN holds : Live(holds, h) /\ Key(holds[h]) = Key(r) => h = r.h \/ Pending(x, holds, h)
  BY <1>3 DEF Numbers
<1>8. Reviewing(x) /\ (x.err \/ x.over) =>
         \A h \in DOMAIN holds :
           Held(x, holds, h) /\ Key(holds[h]) = <<x.sel, attemptIn(b, x.sel)>> => Pending(x, holds, h)
  <2> SUFFICES ASSUME Reviewing(x), x.err \/ x.over, NEW h \in DOMAIN holds, Held(x, holds, h),
                      Key(holds[h]) = <<x.sel, attemptIn(b, x.sel)>>
               PROVE  Pending(x, holds, h)
    OBVIOUS
  <2>1. Reviewing(c) /\ (c.err \/ c.over) /\ x.sel = c.sel /\ c.sel \in Sels
    BY <1>1 DEF Key
  <2>2. Key(holds[h]) = <<c.sel, attemptIn(attempts, c.sel)>>
    BY <2>1
  <2> QED
    BY <1>3, <2>1, <2>2 DEF Numbers
<1> QED
  BY <1>4, <1>5, <1>6, <1>7, <1>8 DEF Numbers

LEMMA ReserveFailedKept ==
  ASSUME Good(c, attempts, holds), NEW r \in c.net, r.kind = "create", NEW z,
         z = Answered(r) \/ z = [Answered(r) EXCEPT !.loose = @ \cup {Key(r)}],
         r.ans \notin {"ok", "sent"} \/ Key(r) \in z.loose,
         NEW transient \in BOOLEAN, ReserveFailed(z, r, transient), UNCHANGED holds
  PROVE  Kept
<1>1. /\ IsTab(c) /\ holds \in Seq(HoldType) /\ attempts \in [Sels -> Nat] /\ Facts(c, attempts, holds)
      /\ SameHolds(holds) /\ Later(attempts)
  BY GoodFacts, SameHoldsFacts DEF Later, attemptIn
<1>2. attempts' = attempts /\ holds' = holds
  BY DEF ReserveFailed
<1>3. PICK u : u = Answered(r)
  OBVIOUS
<1>4. /\ IsTab(u) /\ SamePlace(c, u) /\ SameGate(c, u) /\ SameFace(c, u) /\ SameMoney(c, u)
      /\ u.ctx = c.ctx /\ u.back = c.back /\ u.releasing = c.releasing /\ u.gone = c.gone /\ u.stray = c.stray
      /\ u.quit = c.quit /\ u.opened = c.opened /\ u.returned = c.returned /\ u.foreign = c.foreign
      /\ u.blind = c.blind
      /\ u.net = c.net \ {r}
      /\ u.loose = IF r.kind = "create" /\ ~Mine(c, r) THEN c.loose \cup {Key(r)} ELSE c.loose
  BY <1>1, <1>3, AnsweredFacts
<1>5. CASE ~Mine(c, r)
  <2>1. u.loose = u.loose \cup {Key(r)}
    BY <1>4, <1>5
  <2>2. z = u
    <3>1. u = [c EXCEPT !.net = @ \ {r}, !.loose = @ \cup {Key(r)}]
      BY <1>3, <1>5 DEF Answered, Key
    <3>2. CASE z = [u EXCEPT !.loose = @ \cup {Key(r)}]
      <4>1. z = [u EXCEPT !.loose = u.loose]
        BY <2>1, <3>2
      <4> QED
        BY <3>1, <4>1
    <3> QED
      BY <1>3, <3>2
  <2>3. Good(u, attempts, holds)
    BY <1>3, <1>5, AnsweredIsGood
  <2>4. c' = Settle(u, attempts')
    BY <1>2, <1>5, <2>2 DEF ReserveFailed, Become
  <2>5. Ready(u, attempts', holds') /\ SameHolds(holds')
    BY <1>1, <1>2, <2>3, GoodIsReady
  <2> QED
    BY <1>1, <1>4, <2>4, <2>5, Finish DEF SameMoney
<1>6. CASE Mine(c, r)
  <2>1. /\ IsTab(z) /\ SamePlace(u, z) /\ SameMoney(u, z) /\ SameGate(u, z) /\ SameFace(u, z)
        /\ z.ctx = u.ctx /\ z.back = u.back /\ z.gone = u.gone /\ z.stray = u.stray /\ z.quit = u.quit
        /\ z.opened = u.opened /\ z.returned = u.returned
        /\ z.foreign = u.foreign /\ z.net = u.net /\ z.blind = u.blind
        /\ z.loose \in {c.loose, c.loose \cup {Key(r)}}
    <3>1. CASE z = u
      BY <3>1, <1>4, <1>6 DEF SamePlace, SameMoney, SameGate, SameFace
    <3>2. CASE z = [u EXCEPT !.loose = @ \cup {Key(r)}]
      <4>1. IsTab(z)
        BY <3>2, <1>4 DEF IsTab, Fields
      <4>2. SamePlace(u, z) /\ SameMoney(u, z) /\ SameGate(u, z) /\ SameFace(u, z)
        BY <3>2, <1>4 DEF IsTab, Fields, SamePlace, SameMoney, SameGate, SameFace
      <4> QED
        BY <4>1, <4>2, <3>2, <1>4, <1>6 DEF IsTab, Fields
    <3> QED
      BY <1>3, <3>1, <3>2
  <2>2. PICK q \in BOOLEAN : q <=> transient /\ ~z.silent
    OBVIOUS
  <2>3. PICK x : x = IF q THEN [z EXCEPT !.silent = TRUE, !.timer = TRUE] ELSE [z EXCEPT !.err = TRUE]
    OBVIOUS
  <2>4. c' = Settle(x, attempts')
    BY <1>2, <1>6, <2>2, <2>3 DEF ReserveFailed, Become
  <2>5. /\ IsTab(x) /\ SamePlace(z, x) /\ SameMoney(z, x) /\ SameGate(z, x)
    <3>1. CASE q
      <4>1. x = [z EXCEPT !.silent = TRUE, !.timer = TRUE]
        BY <3>1, <2>3
      <4> QED
        BY <4>1, <2>1 DEF IsTab, Fields, SamePlace, SameMoney, SameGate
    <3>2. CASE ~q
      <4>1. x = [z EXCEPT !.err = TRUE]
        BY <3>2, <2>3
      <4> QED
        BY <4>1, <2>1 DEF IsTab, Fields, SamePlace, SameMoney, SameGate
    <3> QED
      BY <3>1, <3>2
  <2>6. /\ x.ctx = z.ctx /\ x.back = z.back /\ x.gone = z.gone /\ x.stray = z.stray /\ x.quit = z.quit
        /\ x.opened = z.opened /\ x.returned = z.returned
        /\ x.foreign = z.foreign /\ x.net = z.net /\ x.retrying = z.retrying /\ x.over = z.over
        /\ x.blind = z.blind /\ x.loose = z.loose
        /\ IF q THEN x.timer /\ x.err = z.err ELSE x.err /\ x.timer = z.timer
    BY <2>1, <2>3 DEF IsTab, Fields
  <2>7. SamePlace(c, x) /\ SameMoney(c, x) /\ SameGate(c, x)
    BY <2>1, <2>5, <1>4 DEF SamePlace, SameMoney, SameGate
  <2>8. ~c.stray => c.attempted /\ ~c.timer /\ ~c.err
    BY <1>6, OwnCreate
  <2>9. ~c.stray => /\ x.err => ~x.timer /\ x.attempted
                    /\ x.timer => x.attempted
                    /\ x.attempted => x.err \/ x.timer
                    /\ ~x.attempted => x.retried \/ x.nonce # c.nonce
    BY <2>1, <2>6, <2>7, <2>8, <1>4 DEF SameFace, SameGate
  <2>10. /\ x.ctx = c.ctx /\ x.back = c.back /\ x.gone = c.gone /\ x.stray = c.stray /\ x.quit = c.quit
         /\ x.opened = c.opened /\ x.returned = c.returned
         /\ x.foreign = c.foreign /\ x.net = c.net \ {r} /\ x.retrying = c.retrying /\ x.over = c.over
         /\ x.blind = c.blind /\ x.loose \in {c.loose, c.loose \cup {Key(r)}}
         /\ x.checked = c.checked /\ x.asked = c.asked /\ x.clearing = c.clearing /\ x.seen = c.seen
    BY <2>1, <2>6, <2>7, <1>4 DEF SameGate, SameFace
  <2>11. Facts(x, attempts, holds) /\ Places(x, holds) /\ Screen(x) /\ Quit(x) /\ Tags(x, holds) /\ Totals(x, holds)
         /\ ScreenReady(x)
    BY <1>1, <1>6, <2>5, <2>7, <2>9, <2>10, OwnCreateFails
  <2>13. Numbers(x, attempts, holds)
    <3>1. (r.ans # "sent" /\ ~(r.ans = "ok" /\ Live(holds, r.h))) \/ Key(r) \in x.loose
      BY <2>6
    <3> QED
      BY <3>1, <1>6, <2>7, <2>10, NumbersOwnCreate
  <2>14. Ready(x, attempts', holds') /\ SameHolds(holds')
    BY <1>1, <1>2, <2>11, <2>13 DEF Ready, Common
  <2> QED
    BY <1>1, <2>4, <2>7, <2>14, Finish DEF SameMoney
<1> QED
  BY <1>5, <1>6

(* The answer brings a booking of the selection and number asked for.      *)
LEMMA AnswerFine ==
  ASSUME Good(c, attempts, holds), NEW r \in c.net, r.kind = "create", r.ans = "ok"
  PROVE  /\ r.h \in DOMAIN holds /\ r.h \in 1 .. Len(holds) /\ holds[r.h].sel = r.sel /\ r.sel \in Sels
         /\ r.copy.id = r.h /\ r.copy.for = r.sel /\ r.copy.st \in {"reserved", "paid"}
         /\ r.copy \in BookingType
         /\ r.copy.st = "paid" => holds[r.h].st = "paid"
<1>1. Facts(c, attempts, holds) /\ IsTab(c) /\ holds \in Seq(HoldType)
  BY GoodFacts
<1>2. RequestFine(r, c, attempts, holds) /\ IsRequest(r)
  BY <1>1 DEF Facts, IsTab
<1> QED
  BY <1>1, <1>2 DEF RequestFine, IsRequest

LEMMA ReservedKept ==
  ASSUME Good(c, attempts, holds), NEW r \in c.net, r.kind = "create", r.ans = "ok", Reserved(r), UNCHANGED holds
  PROVE  Kept
<1>1. /\ IsTab(c) /\ holds \in Seq(HoldType) /\ attempts \in [Sels -> Nat] /\ Facts(c, attempts, holds)
      /\ SameHolds(holds) /\ Later(attempts) /\ Places(c, holds) /\ Screen(c) /\ ScreenSettled(c)
      /\ Numbers(c, attempts, holds) /\ Tags(c, holds) /\ Totals(c, holds)
  BY GoodFacts, SameHoldsFacts DEF Later, attemptIn
<1>2. attempts' = attempts /\ holds' = holds
  BY DEF Reserved
<1>3. /\ r.h \in DOMAIN holds /\ r.h \in 1 .. Len(holds) /\ holds[r.h].sel = r.sel /\ r.sel \in Sels
      /\ r.copy.id = r.h /\ r.copy.for = r.sel /\ r.copy \in BookingType
  BY AnswerFine
<1>4. PICK u : u = Answered(r)
  OBVIOUS
<1>5. /\ IsTab(u) /\ SamePlace(c, u) /\ SameGate(c, u) /\ SameFace(c, u) /\ SameMoney(c, u)
      /\ u.ctx = c.ctx /\ u.back = c.back /\ u.releasing = c.releasing /\ u.gone = c.gone /\ u.stray = c.stray
      /\ u.quit = c.quit /\ u.opened = c.opened /\ u.returned = c.returned /\ u.foreign = c.foreign
      /\ u.blind = c.blind
      /\ u.net = c.net \ {r}
      /\ u.loose = IF r.kind = "create" /\ ~Mine(c, r) THEN c.loose \cup {Key(r)} ELSE c.loose
  BY <1>1, <1>4, AnsweredFacts
<1>6. PICK z : z = setBooking(u, r, r.copy)
  OBVIOUS
<1>7. /\ IsTab(z) /\ SamePlace(u, z) /\ SameGate(u, z) /\ SameFace(u, z) /\ SameMoney(u, z) /\ SamePast(u, z)
      /\ z.back = u.back /\ z.releasing = u.releasing /\ z.gone = u.gone /\ z.net = u.net
      /\ z.ctx = (IF Provided(u, r) THEN r.copy ELSE u.ctx)
      /\ z.stray <=> u.stray \/ (Provided(u, r) /\ Stray(u, r))
  BY <1>3, <1>5, <1>6, SetBookingFacts
<1>8. PICK late \in BOOLEAN : late <=> c.at # "out" /\ Alive(r)
  BY DEF Alive
<1>9. PICK x : x = [z EXCEPT !.param = IF late THEN r.h ELSE @, !.stray = @ \/ (late /\ Stray(c, r))]
  OBVIOUS
<1>10. c' = Settle(x, attempts')
  <2>1. (c.at # "out" /\ Alive(r) /\ Stray(c, r)) = (late /\ Stray(c, r))
    BY <1>8
  <2> QED
    BY <2>1, <1>2, <1>4, <1>6, <1>8, <1>9 DEF Reserved, Become
<1>11. /\ IsTab(x) /\ SameGate(z, x) /\ SameFace(z, x) /\ SameMoney(z, x) /\ SamePast(z, x)
       /\ x.at = z.at /\ x.sel = z.sel /\ x.mount = z.mount /\ x.layout = z.layout /\ x.fromList = z.fromList
       /\ x.ctx = z.ctx /\ x.back = z.back /\ x.gone = z.gone /\ x.net = z.net
       /\ x.param = (IF late THEN r.h ELSE z.param)
       /\ x.stray <=> z.stray \/ (late /\ Stray(c, r))
  <2>1. r.h \in Nat /\ Stray(c, r) \in BOOLEAN
    BY <1>3 DEF Stray, Mine
  <2>2. IsTab(x)
    BY <2>1, <1>7, <1>9 DEF IsTab, Fields
  <2>3. SameGate(z, x) /\ SameFace(z, x) /\ SameMoney(z, x) /\ SamePast(z, x)
    BY <1>7, <1>9 DEF IsTab, Fields, SameGate, SameFace, SameMoney, SamePast
  <2> QED
    BY <2>1, <2>2, <2>3, <1>7, <1>9 DEF IsTab, Fields
<1>12. /\ x.at = c.at /\ x.sel = c.sel /\ x.mount = c.mount /\ x.layout = c.layout /\ x.fromList = c.fromList
       /\ SameGate(c, x) /\ SameFace(c, x) /\ SameMoney(c, x)
       /\ x.back = c.back /\ x.gone = c.gone /\ x.net = c.net \ {r} /\ x.quit = c.quit
       /\ x.opened = c.opened /\ x.returned = c.returned /\ x.foreign = c.foreign
       /\ x.loose = u.loose /\ x.blind = c.blind /\ (c.stray => x.stray)
  BY <1>5, <1>7, <1>11 DEF SamePlace, SameGate, SameFace, SameMoney, SamePast
<1>13. /\ x.ctx = (IF Provided(c, r) THEN r.copy ELSE c.ctx)
       /\ x.param = (IF late THEN r.h ELSE c.param)
       /\ x.stray <=> c.stray \/ (~Mine(c, r) /\ (Provided(c, r) \/ late))
  BY <1>5, <1>7, <1>11 DEF SamePlace, Provided, Stray, Mine
<1>14. Facts(x, attempts, holds)
  <2>1. x.ctx.id \in 0 .. Len(holds) /\ x.param \in 0 .. Len(holds) /\ x.paying[1] \in 0 .. Len(holds)
    BY <1>1, <1>3, <1>12, <1>13 DEF Facts, SameMoney
  <2>2. /\ x.net \subseteq c.net /\ x.gone \subseteq c.gone
        /\ (Reviewing(x) => Reviewing(c))
        /\ (x.at \in {"failed", "confirmation"} => x.param # 0)
        /\ (x.paying # NoPay => x.paying[1] # 0)
        /\ (x.at = "review" => x.mount # 0)
    BY <1>1, <1>3, <1>12, <1>13 DEF Facts, SameMoney, Reviewing
  <2> QED
    BY <1>1, <1>11, <1>12, <2>1, <2>2, FactsKept
<1>15. Tags(x, holds)
  BY <1>1, <1>3, <1>12, <1>13 DEF Tags, Writing
<1>16. CASE x.stray
  <2>1. Ready(x, attempts', holds')
    BY <1>2, <1>14, <1>15, <1>16, StrayIsReady
  <2> QED
    BY <1>1, <1>2, <1>10, <1>12, <2>1, Finish DEF SameMoney
<1>17. CASE ~x.stray /\ ~Mine(c, r)
  <2>1. z = u /\ ~late
    BY <1>6, <1>13, <1>17, <1>5 DEF setBooking, Provided, SamePlace
  <2>2. (late /\ Stray(c, r)) = FALSE
    BY <2>1
  <2>3. c' = Settle(u, attempts')
    <3>1. Become(u)
      <4>1. u = [c EXCEPT !.net = @ \ {r}, !.loose = @ \cup {Key(r)}]
        BY <1>4, <1>17 DEF Answered, Key
      <4>2. x = [u EXCEPT !.param = u.param, !.stray = u.stray]
        <5>1. u.stray = (u.stray \/ FALSE)
          BY <1>5 DEF IsTab
        <5> QED
          BY <1>9, <2>1, <2>2, <5>1
      <4>3. x = u
        BY <4>1, <4>2
      <4> QED
        BY <4>3, <1>2, <1>10 DEF Become
    <3> QED
      BY <3>1, <1>2 DEF Become
  <2>4. Good(u, attempts, holds)
    BY <1>4, <1>17, AnsweredIsGood
  <2>5. Ready(u, attempts', holds')
    BY <1>2, <2>4, GoodIsReady
  <2> QED
    BY <1>1, <1>2, <1>5, <2>3, <2>5, Finish DEF SameMoney
<1>18. CASE ~x.stray /\ Mine(c, r)
  <2>0. ~c.stray
    BY <1>12, <1>18
  <2>1. /\ Reviewing(c) /\ c.at = "review" /\ r.sel = c.sel /\ c.sel \in Sels /\ c.ctx.id = 0
        /\ c.attempted /\ c.checked /\ ~c.timer /\ ~c.err /\ ~c.over /\ c.paying = NoPay /\ (c.quit => c.opened)
        /\ r \in Own(c) /\ ~c.foreign /\ ~c.clearing /\ ~c.retrying
        /\ \A q \in Own(c) : q.kind \in {"check", "create"} => q = r
        /\ \A w \in Own(c) : w.kind = "write" => w.h \in c.gone
        /\ ~c.crossed => \A w \in Writing(c) : holds[w.h].due
    BY <1>18, <2>0, OwnCreate
  <2>2. Provided(c, r) /\ late
    <3>1. r.layout = c.layout /\ c.mount # 0
      BY <1>1, <1>18, <2>1 DEF Facts, RequestFine, Mine
    <3> QED
      BY <3>1, <1>8, <1>18, <2>1 DEF Provided, Mine, Alive
  <2>3. x.ctx = r.copy /\ x.param = r.h /\ x.ctx.id = r.h /\ x.ctx.for = c.sel /\ r.h # 0
    BY <1>3, <1>13, <2>1, <2>2
  <2>4. /\ Reviewing(x) /\ Anchor(x) = <<c.sel, r.h>> /\ ~AfterPay(x) /\ x.at = "review"
        /\ \A q : Mine(x, q) <=> Mine(c, q)
    BY <2>1, <2>3, <1>12 DEF Reviewing, Anchor, AfterPay, Mine
  <2>5. Own(x) = Own(c) \ {r} /\ \A q \in Own(x) : q.kind \notin {"check", "create"}
    BY <2>1, <2>4, <1>12 DEF Own
  <2>6. /\ x.attempted /\ x.checked /\ ~x.timer /\ ~x.err /\ ~x.over /\ x.paying = NoPay
        /\ ~x.clearing /\ ~x.retrying
    BY <2>1, <1>12 DEF SameGate, SameFace, SameMoney
  <2>7. Places(x, holds)
    BY <1>1, <1>3, <1>12, <2>0, <2>1, <2>3, <2>4, <2>6 DEF Places
  <2>8. Screen(x)
    BY <1>1, <1>12, <2>0, <2>1, <2>5, <2>6 DEF Screen
  <2>9. Quit(x)
    BY <1>12, <2>1, <2>3, <2>4 DEF Quit
  <2>10. ScreenReady(x)
    BY <2>3, <2>4, <2>6 DEF ScreenReady, Asks, Waits
  <2>11. Totals(x, holds)
    <3>1. Writing(x) = Writing(c) /\ x.pending = c.pending /\ x.crossed = c.crossed
      BY <1>12 DEF Writing, SameMoney
    <3>2. ~c.crossed => r.copy.order = holds[r.h].order
      BY <1>1, <2>0, <2>1 DEF Totals
    <3>3. r.copy.st = "reserved" /\ ~holds[r.h].due
      BY DEF Reserved
    <3> QED
      BY <1>1, <2>0, <2>1, <2>3, <2>4, <2>5, <2>6, <3>1, <3>2, <3>3 DEF Totals
  <2>12. Numbers(x, attempts, holds)
    <3> SUFFICES ASSUME ~c.blind PROVE Numbers(x, attempts, holds)
      BY <1>12 DEF Numbers
    <3>1. Creates(x) = Creates(c) \ {r} /\ x.loose = c.loose
      BY <1>5, <1>12, <1>18 DEF Creates
    <3>2. \A h \in DOMAIN holds : Held(x, holds, h) <=> Held(c, holds, h)
      BY <1>12 DEF Held
    <3>3. \A h \in DOMAIN holds :
            Held(x, holds, h) /\ Heard(x, holds, h) /\ holds[h].sel = c.sel => h = r.h
      <4> SUFFICES ASSUME NEW h \in DOMAIN holds, Held(c, holds, h), Heard(x, holds, h), holds[h].sel = c.sel
                   PROVE  h = r.h
        BY <3>2
      <4>1. /\ Key(holds[h]) = Key(r)
            /\ \/ h = r.h
               \/ Key(r) \in c.loose
               \/ \E q \in Creates(c) \ {r} : q.ans = "ok" /\ q.h = h /\ Key(q) = Key(r)
        BY <1>18, <2>0, OwnCreateNumbers
      <4> QED
        BY <4>1, <3>1 DEF Heard
    <3> QED
      BY <1>1, <2>0, <2>4, <2>5, <2>6, <3>1, <3>2, <3>3 DEF Numbers
  <2>13. Ready(x, attempts', holds')
    BY <1>2, <1>14, <1>15, <2>7, <2>8, <2>9, <2>10, <2>11, <2>12 DEF Ready, Common
  <2> QED
    BY <1>1, <1>2, <1>10, <1>12, <2>13, Finish DEF SameMoney
<1> QED
  BY <1>16, <1>17, <1>18

(* An answer that takes a booking from a screen that did not ask.          *)
LEMMA LateClear ==
  ASSUME Good(c, attempts, holds), NEW r \in c.net, ~Mine(c, r), NEW b, Later(b),
         NEW z, z = setBooking(Answered(r), r, NoBooking)
  PROVE  /\ Ready(z, attempts, holds) /\ z.paying = c.paying
         /\ \A y : y = [z EXCEPT !.stray = TRUE] => Ready(y, b, holds) /\ y.paying = c.paying
<1>1. /\ IsTab(c) /\ attempts \in [Sels -> Nat] /\ Facts(c, attempts, holds) /\ Later(attempts)
      /\ Tags(c, holds)
  BY GoodFacts DEF Later, attemptIn
<1>4. PICK u : u = Answered(r)
  OBVIOUS
<1>5. /\ IsTab(u) /\ SamePlace(c, u) /\ SameMoney(c, u)
      /\ u.ctx = c.ctx /\ u.back = c.back /\ u.gone = c.gone /\ u.foreign = c.foreign /\ u.stray = c.stray
      /\ u.net = c.net \ {r}
  BY <1>1, <1>4, AnsweredFacts
<1>7. /\ IsTab(z) /\ SamePlace(u, z) /\ SameMoney(u, z) /\ SamePast(u, z)
      /\ z.back = u.back /\ z.gone = u.gone /\ z.net = u.net
      /\ z.ctx = (IF Provided(u, r) THEN NoBooking ELSE u.ctx)
      /\ z.stray <=> u.stray \/ (Provided(u, r) /\ Stray(u, r))
  BY <1>4, <1>5, SetBookingFacts, NoBookingFacts
<1>8. ASSUME NEW y, y \in {z, [z EXCEPT !.stray = TRUE]}, NEW a, Later(a)
      PROVE  Facts(y, a, holds) /\ Tags(y, holds) /\ y.paying = c.paying
  <2>1. /\ IsTab(y) /\ y.at = z.at /\ y.sel = z.sel /\ y.param = z.param /\ y.mount = z.mount
        /\ y.layout = z.layout
        /\ y.paying = z.paying /\ y.foreign = z.foreign
        /\ y.back = z.back /\ y.gone = z.gone /\ y.net = z.net /\ y.ctx = z.ctx
    <3>1. CASE y = z
      BY <1>7, <3>1
    <3>2. CASE y = [z EXCEPT !.stray = TRUE]
      <4>1. IsTab(y)
        BY <1>7, <3>2 DEF IsTab, Fields
      <4> QED
        BY <4>1, <1>7, <3>2 DEF IsTab, Fields
    <3> QED
      BY <1>8, <3>1, <3>2
  <2>2. /\ y.at = c.at /\ y.sel = c.sel /\ y.param = c.param /\ y.mount = c.mount /\ y.layout = c.layout
        /\ y.paying = c.paying /\ y.foreign = c.foreign
        /\ y.back = c.back /\ y.gone = c.gone /\ y.net = c.net \ {r} /\ y.ctx \in {c.ctx, NoBooking}
    BY <2>1, <1>5, <1>7 DEF SamePlace, SameMoney, SamePast
  <2>3. y.ctx.id \in 0 .. Len(holds) /\ y.param \in 0 .. Len(holds) /\ y.paying[1] \in 0 .. Len(holds)
    BY <1>1, <2>2, NoBookingFacts DEF Facts
  <2>4. /\ y.net \subseteq c.net /\ y.gone \subseteq c.gone
        /\ (Reviewing(y) => Reviewing(c) /\ y.layout = c.layout)
        /\ (y.at \in {"failed", "confirmation"} => y.param # 0)
        /\ (y.paying # NoPay => y.paying[1] # 0)
        /\ (y.at = "review" => y.mount # 0)
    BY <1>1, <2>2 DEF Facts, Reviewing
  <2>5. Facts(y, a, holds)
    BY <1>1, <1>8, <2>1, <2>2, <2>3, <2>4, FactsKept
  <2>6. Tags(y, holds)
    BY <1>1, <2>2, NoBookingFacts DEF Tags, Writing
  <2> QED
    BY <2>2, <2>5, <2>6
<1>9. ASSUME NEW y, y = [z EXCEPT !.stray = TRUE]
      PROVE  Ready(y, b, holds) /\ y.paying = c.paying
  <2>1. y.stray
    BY <1>7, <1>9 DEF IsTab, Fields
  <2>2. Facts(y, b, holds) /\ Tags(y, holds) /\ y.paying = c.paying
    BY <1>8, <1>9
  <2> QED
    BY <2>1, <2>2, StrayIsReady
<1>10. Ready(z, attempts, holds)
  <2>1. CASE Provided(u, r)
    <3>1. z.stray
      BY <1>5, <1>7, <2>1 DEF Stray, Mine, SamePlace
    <3> QED
      BY <1>1, <1>8, <3>1, StrayIsReady
  <2>2. CASE ~Provided(u, r)
    <3>1. z = u
      BY <1>4, <2>2 DEF setBooking
    <3> QED
      BY <1>4, <3>1, AnsweredIsGood, GoodIsReady
  <2> QED
    BY <2>1, <2>2
<1> QED
  BY <1>1, <1>8, <1>9, <1>10

(* The screen that asked is told of a booking that has ended: it moves its *)
(* number on and asks again.                                               *)
LEMMA OwnCreateAgain ==
  ASSUME Good(c, attempts, holds), NEW r \in c.net, r.kind = "create", Mine(c, r), r.ans = "ok", ~Live(holds, r.h),
         NEW z, z = setBooking(Answered(r), r, NoBooking), NEW m, m = MovesOn(z, r.sel),
         NEW x, x = [m EXCEPT !.attempted = FALSE, !.nonce = ~@]
                \/ x = [m EXCEPT !.retried = TRUE, !.attempted = FALSE]
  PROVE  Ready(x, bumpAttempt(r.sel), holds) /\ x.paying = c.paying
<1>1. /\ IsTab(c) /\ attempts \in [Sels -> Nat] /\ Facts(c, attempts, holds) /\ Numbers(c, attempts, holds)
  BY GoodFacts
<1>2. r.sel \in Sels
  BY AnswerFine
<1>3. PICK b : b = bumpAttempt(r.sel)
  OBVIOUS
<1>4. PICK u : u = Answered(r)
  OBVIOUS
<1>5. /\ IsTab(u) /\ SamePlace(c, u) /\ SameGate(c, u) /\ SameFace(c, u) /\ SameMoney(c, u)
      /\ u.ctx = c.ctx /\ u.back = c.back /\ u.gone = c.gone /\ u.stray = c.stray
      /\ u.quit = c.quit /\ u.opened = c.opened /\ u.returned = c.returned /\ u.foreign = c.foreign
      /\ u.blind = c.blind
      /\ u.net = c.net \ {r} /\ u.loose = c.loose
  BY <1>1, <1>4, AnsweredFacts
<1>6. /\ IsTab(z) /\ SamePlace(u, z) /\ SameGate(u, z) /\ SameFace(u, z) /\ SameMoney(u, z) /\ SamePast(u, z)
      /\ z.back = u.back /\ z.gone = u.gone /\ z.net = u.net
      /\ z.ctx \in {u.ctx, NoBooking}
      /\ z.stray <=> u.stray \/ (Provided(u, r) /\ Stray(u, r))
  BY <1>4, <1>5, SetBookingFacts, NoBookingFacts
<1>7. z.stray = c.stray
  BY <1>5, <1>6 DEF Stray, Mine, SamePlace, IsTab
<1>8. PICK p \in BOOLEAN : m = [z EXCEPT !.blind = p] /\ (~p => ~z.blind /\ Silent(z, r.sel))
  BY <1>6, MovesOnFacts
<1>9. /\ IsTab(m) /\ SamePlace(z, m) /\ SameGate(z, m) /\ SameFace(z, m) /\ SameMoney(z, m)
      /\ m.back = z.back /\ m.gone = z.gone /\ m.net = z.net /\ m.ctx = z.ctx /\ m.stray = z.stray
      /\ m.quit = z.quit /\ m.opened = z.opened /\ m.returned = z.returned /\ m.foreign = z.foreign
      /\ m.loose = z.loose /\ m.blind = p
  <2>1. IsTab(m)
    BY <1>6, <1>8 DEF IsTab, Fields
  <2>2. SamePlace(z, m) /\ SameGate(z, m) /\ SameFace(z, m) /\ SameMoney(z, m)
    BY <1>6, <1>8 DEF IsTab, Fields, SamePlace, SameGate, SameFace, SameMoney
  <2> QED
    BY <2>1, <2>2, <1>6, <1>8 DEF IsTab, Fields
<1>10. /\ IsTab(x) /\ SamePlace(m, x) /\ SameMoney(m, x)
       /\ x.back = m.back /\ x.gone = m.gone /\ x.net = m.net /\ x.ctx = m.ctx /\ x.stray = m.stray
       /\ x.quit = m.quit /\ x.opened = m.opened /\ x.returned = m.returned /\ x.foreign = m.foreign
       /\ x.loose = m.loose /\ x.blind = m.blind
       /\ x.checked = m.checked /\ x.asked = m.asked /\ x.clearing = m.clearing /\ x.seen = m.seen
       /\ x.timer = m.timer /\ x.err = m.err /\ x.over = m.over /\ x.retrying = m.retrying
       /\ ~x.attempted /\ (x.retried \/ x.nonce # m.nonce)
  <2>1. CASE x = [m EXCEPT !.attempted = FALSE, !.nonce = ~@]
    <3>1. IsTab(x)
      BY <1>9, <2>1 DEF IsTab, Fields
    <3>2. SamePlace(m, x) /\ SameMoney(m, x)
      BY <1>9, <2>1 DEF IsTab, Fields, SamePlace, SameMoney
    <3> QED
      BY <3>1, <3>2, <1>9, <2>1 DEF IsTab, Fields
  <2>2. CASE x = [m EXCEPT !.retried = TRUE, !.attempted = FALSE]
    <3>1. IsTab(x)
      BY <1>9, <2>2 DEF IsTab, Fields
    <3>2. SamePlace(m, x) /\ SameMoney(m, x)
      BY <1>9, <2>2 DEF IsTab, Fields, SamePlace, SameMoney
    <3> QED
      BY <3>1, <3>2, <1>9, <2>2 DEF IsTab, Fields
  <2> QED
    BY <2>1, <2>2
<1>11. /\ SamePlace(c, x) /\ SameMoney(c, x)
       /\ x.ctx \in {c.ctx, NoBooking}
       /\ x.back = c.back /\ x.gone = c.gone /\ x.net = c.net \ {r} /\ x.stray = c.stray
       /\ x.quit = c.quit /\ x.opened = c.opened /\ x.returned = c.returned /\ x.foreign = c.foreign
       /\ x.loose = c.loose /\ x.blind = p
       /\ x.checked = c.checked /\ x.asked = c.asked /\ x.clearing = c.clearing /\ x.seen = c.seen
       /\ x.timer = c.timer /\ x.err = c.err /\ x.over = c.over /\ x.retrying = c.retrying
       /\ ~x.attempted /\ (x.retried \/ x.nonce # c.nonce)
  BY <1>5, <1>6, <1>7, <1>9, <1>10 DEF SamePlace, SameMoney, SameGate, SameFace, SamePast
<1>12. Later(b)
  BY <1>1, <1>2, <1>3, BumpIsLater
<1>13. ~c.stray => /\ ~c.timer /\ ~c.err /\ ~c.over /\ Reviewing(c) /\ r.sel = c.sel
                   /\ \A q \in Own(c) : q.kind \in {"check", "create"} => q = r
  BY OwnCreate
<1>14. ~c.stray => /\ x.err => ~x.timer /\ x.attempted
                   /\ x.timer => x.attempted
                   /\ x.attempted => x.err \/ x.timer
                   /\ ~x.attempted => x.retried \/ x.nonce # c.nonce
  BY <1>11, <1>13
<1>15. Facts(x, b, holds) /\ Places(x, holds) /\ Screen(x) /\ Quit(x) /\ Tags(x, holds) /\ Totals(x, holds)
       /\ ScreenReady(x)
  BY <1>10, <1>11, <1>12, <1>14, OwnCreateFails
<1>16. Numbers(x, b, holds)
  <2>1. /\ Creates(x) = Creates(c) \ {r} /\ (~p => ~c.blind /\ Silent(x, r.sel))
    <3>1. ~p => Silent(z, r.sel) /\ ~c.blind
      BY <1>5, <1>6, <1>8 DEF SamePast
    <3> QED
      BY <3>1, <1>11, <1>5, <1>6 DEF Creates, Silent, SamePast
  <2>2. \A q \in Creates(c) \ Creates(x) : q.sel = r.sel
    BY <2>1
  <2>3. ASSUME ~x.stray, ~x.blind
        PROVE  /\ Anchor(x) = Anchor(c)
               /\ \A q \in Own(x) : q.kind # "create"
               /\ \A h \in DOMAIN holds : Held(x, holds, h) => holds[h].sel # r.sel
               /\ ~x.err /\ ~x.over
    <3>1. ~c.stray /\ ~c.blind /\ Silent(x, r.sel) /\ r.sel = c.sel
      BY <1>11, <1>13, <2>1, <2>3
    <3>2. Anchor(x) = Anchor(c) /\ \A q : Mine(x, q) <=> Mine(c, q)
      BY <1>11 DEF Anchor, Reviewing, Mine, SamePlace
    <3>3. \A q \in Own(x) : q.kind # "create"
      BY <3>1, <3>2, <1>11, <1>13 DEF Own
    <3>4. ASSUME NEW h \in DOMAIN holds, Held(x, holds, h), holds[h].sel = c.sel
          PROVE  FALSE
      <4>1. Held(c, holds, h) /\ h # r.h
        BY <3>4, <1>11 DEF Held
      <4>2. /\ r.att = attemptIn(attempts, c.sel)
            /\ \/ Key(r) \in c.loose
               \/ \E q \in Creates(c) \ {r} : Key(q) = Key(r)
        BY <3>1, <3>4, <4>1, OwnCreateNumbers
      <4> QED
        BY <3>1, <4>2, <2>1, <1>11 DEF Silent, Key
    <3> QED
      BY <3>1, <3>2, <3>3, <3>4, <1>11, <1>13
  <2> QED
    <3>1. \A t \in Sels \ {r.sel} : attemptIn(b, t) = attemptIn(attempts, t)
      BY <1>1, <1>2, <1>3, BumpFacts
    <3>2. x.loose = c.loose /\ c.gone \subseteq x.gone
      BY <1>11
    <3>3. Creates(x) \subseteq Creates(c) /\ (~x.blind => ~c.blind /\ Silent(x, r.sel)) /\ (~x.stray => ~c.stray)
      BY <1>11, <2>1
    <3> QED
      BY <1>1, <1>2, <2>2, <2>3, <3>1, <3>2, <3>3, NumbersMoveOn
<1> QED
  BY <1>3, <1>11, <1>15, <1>16 DEF Ready, Common, SameMoney

LEMMA PaidBeforeKept ==
  ASSUME Good(c, attempts, holds), NEW r \in c.net, r.kind = "create", r.ans = "ok", PaidBefore(r), UNCHANGED holds
  PROVE  Kept
<1>1. /\ holds \in Seq(HoldType) /\ SameHolds(holds) /\ holds' = holds /\ attempts \in [Sels -> Nat]
      /\ (c.at = "review" => c.mount # 0)
  BY GoodFacts, SameHoldsFacts DEF Facts
<1>2. r.sel \in Sels /\ ~Live(holds, r.h)
  BY AnswerFine DEF PaidBefore, Live
<1>3. PICK z : z = setBooking(Answered(r), r, NoBooking)
  OBVIOUS
<1>4. Later(attempts) /\ Later(bumpAttempt(r.sel))
  BY <1>1, <1>2, BumpIsLater
<1>5. CASE Mine(c, r)
  <2>1. Alive(r)
    BY <1>1, <1>5 DEF Mine, Alive
  <2>2. PICK m : m = MovesOn(z, r.sel)
    OBVIOUS
  <2>3. PICK x : x = [m EXCEPT !.attempted = FALSE, !.nonce = ~@]
    OBVIOUS
  <2>4. attempts' = bumpAttempt(r.sel) /\ c' = Settle(x, attempts')
    BY <1>3, <1>5, <2>1, <2>2, <2>3 DEF PaidBefore, BecomeWith, Again
  <2>5. Ready(x, attempts', holds) /\ x.paying = c.paying
    BY <1>2, <1>3, <1>5, <2>2, <2>3, <2>4, OwnCreateAgain
  <2> QED
    BY <1>1, <2>4, <2>5, Finish
<1>6. CASE ~Mine(c, r) /\ Alive(r)
  <2>1. PICK x : x = [z EXCEPT !.stray = TRUE]
    OBVIOUS
  <2>2. attempts' = bumpAttempt(r.sel) /\ c' = Settle(x, attempts')
    BY <1>3, <1>6, <2>1 DEF PaidBefore, BecomeWith
  <2>3. Ready(x, attempts', holds) /\ x.paying = c.paying
    BY <1>3, <1>4, <1>6, <2>1, <2>2, LateClear
  <2> QED
    BY <1>1, <2>2, <2>3, Finish
<1>7. CASE ~Mine(c, r) /\ ~Alive(r)
  <2>1. attempts' = attempts /\ c' = Settle(z, attempts')
    BY <1>3, <1>7 DEF PaidBefore, Become
  <2>2. Ready(z, attempts', holds) /\ z.paying = c.paying
    BY <1>3, <1>4, <1>7, <2>1, LateClear
  <2> QED
    BY <1>1, <2>1, <2>2, Finish
<1> QED
  BY <1>5, <1>6, <1>7

LEMMA EndedMeanwhileKept ==
  ASSUME Good(c, attempts, holds), NEW r \in c.net, r.kind = "create", r.ans = "ok", EndedMeanwhile(r), UNCHANGED holds
  PROVE  Kept
<1>1. /\ holds \in Seq(HoldType) /\ SameHolds(holds) /\ holds' = holds /\ attempts \in [Sels -> Nat] /\ IsTab(c)
      /\ (c.at = "review" => c.mount # 0)
  BY GoodFacts, SameHoldsFacts DEF Facts
<1>2. r.sel \in Sels /\ ~Live(holds, r.h)
  BY AnswerFine DEF EndedMeanwhile, Live
<1>3. PICK z : z = setBooking(Answered(r), r, NoBooking)
  OBVIOUS
<1>4. Later(attempts) /\ Later(bumpAttempt(r.sel))
  BY <1>1, <1>2, BumpIsLater
<1>5. PICK u : u = Answered(r)
  OBVIOUS
<1>6. /\ IsTab(u) /\ SamePlace(c, u) /\ SameGate(c, u) /\ SameFace(c, u) /\ SameMoney(c, u)
      /\ u.ctx = c.ctx /\ u.back = c.back /\ u.gone = c.gone /\ u.stray = c.stray
      /\ u.quit = c.quit /\ u.opened = c.opened /\ u.returned = c.returned /\ u.foreign = c.foreign
      /\ u.blind = c.blind
      /\ u.net = c.net \ {r} /\ (Mine(c, r) => u.loose = c.loose)
  BY <1>1, <1>5, AnsweredFacts
<1>7. CASE (r.again \/ ~Alive(r)) /\ ~Mine(c, r)
  <2>1. attempts' = attempts /\ c' = Settle(u, attempts')
    BY <1>5, <1>7 DEF EndedMeanwhile, Become
  <2>2. Ready(u, attempts', holds) /\ u.paying = c.paying
    BY <1>5, <1>6, <1>7, <2>1, AnsweredIsGood, GoodIsReady DEF SameMoney
  <2> QED
    BY <1>1, <2>1, <2>2, Finish
<1>8. CASE (r.again \/ ~Alive(r)) /\ Mine(c, r)
  <2>1. PICK x : x = [u EXCEPT !.err = TRUE]
    OBVIOUS
  <2>2. attempts' = attempts /\ c' = Settle(x, attempts')
    BY <1>5, <1>8, <2>1 DEF EndedMeanwhile, Become
  <2>3. IsTab(x)
    BY <1>6, <2>1 DEF IsTab, Fields
  <2>4. SamePlace(c, x) /\ SameMoney(c, x) /\ SameGate(c, x)
    <3>1. SamePlace(u, x) /\ SameMoney(u, x) /\ SameGate(u, x)
      BY <1>6, <2>1 DEF IsTab, Fields, SamePlace, SameMoney, SameGate
    <3> QED
      BY <3>1, <1>6 DEF SamePlace, SameMoney, SameGate
  <2>5. /\ x.ctx = c.ctx /\ x.back = c.back /\ x.gone = c.gone /\ x.stray = c.stray
        /\ x.quit = c.quit /\ x.opened = c.opened /\ x.returned = c.returned /\ x.foreign = c.foreign
        /\ x.blind = c.blind /\ x.loose = c.loose
        /\ x.net = c.net \ {r} /\ x.err /\ x.timer = u.timer /\ x.over = u.over /\ x.retrying = u.retrying
    BY <1>6, <1>8, <2>1 DEF IsTab, Fields
  <2>6. ~c.stray => /\ x.err => ~x.timer /\ x.attempted
                    /\ x.timer => x.attempted
                    /\ x.attempted => x.err \/ x.timer
                    /\ ~x.attempted => x.retried \/ x.nonce # c.nonce
    <3>1. ~c.stray => c.attempted /\ ~c.timer
      BY <1>8, OwnCreate
    <3> QED
      BY <3>1, <1>6, <2>4, <2>5 DEF SameGate, SameFace
  <2>7. Facts(x, attempts, holds) /\ Places(x, holds) /\ Screen(x) /\ Quit(x) /\ Tags(x, holds) /\ Totals(x, holds)
        /\ ScreenReady(x)
    <3>1. x.over = c.over /\ x.retrying = c.retrying
      BY <1>6, <2>5 DEF SameFace
    <3>2. x.checked = c.checked /\ x.asked = c.asked /\ x.clearing = c.clearing /\ x.seen = c.seen
      BY <2>4 DEF SameGate
    <3>3. x.ctx \in {c.ctx, NoBooking}
      BY <2>5
    <3>4. /\ x.back = c.back /\ x.gone = c.gone /\ x.stray = c.stray /\ x.quit = c.quit
          /\ x.opened = c.opened /\ x.returned = c.returned /\ x.foreign = c.foreign
          /\ x.net = c.net \ {r}
      BY <2>5
    <3> QED
      BY <3>1, <3>2, <3>3, <3>4, <1>4, <1>8, <2>3, <2>4, <2>6, OwnCreateFails
  <2>8. Numbers(x, attempts, holds)
    BY <1>2, <1>8, <2>4, <2>5, NumbersOwnCreate
  <2>9. Ready(x, attempts', holds) /\ x.paying = c.paying
    BY <2>2, <2>4, <2>7, <2>8 DEF Ready, Common, SameMoney
  <2> QED
    BY <1>1, <2>2, <2>9, Finish
<1>9. CASE ~(r.again \/ ~Alive(r)) /\ Mine(c, r)
  <2>1. PICK m : m = MovesOn(z, r.sel)
    OBVIOUS
  <2>2. PICK x : x = [m EXCEPT !.retried = TRUE, !.attempted = FALSE]
    OBVIOUS
  <2>3. attempts' = bumpAttempt(r.sel) /\ c' = Settle(x, attempts')
    BY <1>3, <1>9, <2>1, <2>2 DEF EndedMeanwhile, BecomeWith
  <2>4. Ready(x, attempts', holds) /\ x.paying = c.paying
    BY <1>2, <1>3, <1>9, <2>1, <2>2, <2>3, OwnCreateAgain
  <2> QED
    BY <1>1, <2>3, <2>4, Finish
<1>10. CASE ~(r.again \/ ~Alive(r)) /\ ~Mine(c, r)
  <2>1. PICK x : x = [z EXCEPT !.stray = TRUE]
    OBVIOUS
  <2>2. attempts' = bumpAttempt(r.sel) /\ c' = Settle(x, attempts')
    BY <1>3, <1>10, <2>1 DEF EndedMeanwhile, BecomeWith
  <2>3. Ready(x, attempts', holds) /\ x.paying = c.paying
    BY <1>3, <1>4, <1>10, <2>1, <2>2, LateClear
  <2> QED
    BY <1>1, <2>2, <2>3, Finish
<1> QED
  BY <1>7, <1>8, <1>9, <1>10

LEMMA CreateAnswerKept ==
  ASSUME Good(c, attempts, holds), NEW r \in c.net, CreateAnswer(r)
  PROVE  Kept
<1>1. r.kind = "create" /\ r.ans # "sent" /\ UNCHANGED holds
  BY DEF CreateAnswer
<1>2. CASE r.ans = "ok" /\ (Reserved(r) \/ PaidBefore(r) \/ EndedMeanwhile(r))
  BY <1>1, <1>2, ReservedKept, PaidBeforeKept, EndedMeanwhileKept
<1>3. CASE r.ans # "ok" /\ ReserveFailed(Answered(r), r, r.ans = "failed")
  <2>1. PICK transient \in BOOLEAN : transient = (r.ans = "failed")
    OBVIOUS
  <2>2. PICK z : z = Answered(r)
    OBVIOUS
  <2>3. ReserveFailed(z, r, transient)
    BY <1>3, <2>1, <2>2
  <2> QED
    BY <1>1, <1>3, <2>2, <2>3, ReserveFailedKept
<1> QED
  BY <1>2, <1>3 DEF CreateAnswer

-----------------------------------------------------------------------------
(* Other screens.                                                          *)

LEMMA LandingFacts ==
  ASSUME NEW x, IsTab(x), NEW at \in {"failed", "confirmation"}, NEW p \in Nat, NEW y, y = Landing(x, at, p)
  PROVE  /\ IsTab(y) /\ SameGate(x, y) /\ SameFace(x, y) /\ SameMoney(x, y) /\ SamePast(x, y)
         /\ y.at = at /\ y.param = p /\ ~y.fromList /\ y.sel = x.sel /\ y.mount = x.mount
         /\ y.back = x.back /\ y.gone = x.gone /\ y.net = x.net /\ y.stray = x.stray
         /\ y.ctx \in {x.ctx, NoBooking}
<1>1. CASE x.at = "out"
  <2>1. y = [x EXCEPT !.layout = @ + 1, !.ctx = NoBooking, !.at = at, !.param = p, !.fromList = FALSE]
    BY <1>1 DEF Landing, NewLayout, IsTab, Fields
  <2>2. IsTab(y)
    BY <2>1, NoBookingFacts DEF IsTab, Fields
  <2>3. SameGate(x, y) /\ SameFace(x, y) /\ SameMoney(x, y) /\ SamePast(x, y)
    BY <2>1 DEF IsTab, Fields, SameGate, SameFace, SameMoney, SamePast
  <2> QED
    BY <2>1, <2>2, <2>3 DEF IsTab, Fields
<1>2. CASE x.at # "out"
  <2>1. y = [x EXCEPT !.at = at, !.param = p, !.fromList = FALSE]
    BY <1>2 DEF Landing
  <2>2. IsTab(y)
    BY <2>1 DEF IsTab, Fields
  <2>3. SameGate(x, y) /\ SameFace(x, y) /\ SameMoney(x, y) /\ SamePast(x, y)
    BY <2>1 DEF IsTab, Fields, SameGate, SameFace, SameMoney, SamePast
  <2> QED
    BY <2>1, <2>2, <2>3 DEF IsTab, Fields
<1> QED
  BY <1>1, <1>2

(* What does not depend on the screen survives a way to the last two       *)
(* screens, and out.                                                       *)
LEMMA Outside ==
  ASSUME NEW hs, Good(c, attempts, hs), NEW y, IsTab(y), y.at \notin {"review", "picker"},
         y.mount = c.mount, y.back = c.back, y.net \subseteq c.net, Creates(y) = Creates(c), y.gone = c.gone,
         y.loose = c.loose, y.blind = c.blind, y.foreign = c.foreign, y.quit = c.quit, y.opened = c.opened, y.returned = c.returned, y.crossed = c.crossed,
         ~y.stray => ~c.stray, y.ctx \in {c.ctx, NoBooking}, y.paying \in {c.paying, NoPay},
         y.param \in 0 .. Len(hs), y.at # "out" => y.param # 0,
         ~y.stray /\ AfterPay(y) =>
           \/ (Reviewing(c) \/ AfterPay(c)) /\ (c.paying # NoPay \/ c.at = "failed")
           \/ Reviewing(c) /\ c.ctx.id = 0 /\ c.paying = NoPay /\ y.at = "confirmation" /\ y.ctx.id = 0,
         Places(y, hs)
  PROVE  Good(y, attempts, hs)
<1>1. /\ Facts(c, attempts, hs) /\ Places(c, hs) /\ ScreenSettled(c) /\ Quit(c)
      /\ Numbers(c, attempts, hs) /\ Tags(c, hs) /\ Totals(c, hs) /\ IsTab(c) /\ (c.at = "review" => Reviewing(c))
      /\ attempts \in [Sels -> Nat]
  BY GoodFacts
<1>2. /\ ~Reviewing(y) /\ Anchor(y) = c.back /\ Anchor(c) = c.back /\ Own(y) = {}
  BY <1>1 DEF Reviewing, Anchor, Own, Mine, ScreenSettled
<1>3. Facts(y, attempts, hs)
  <2>1. y.ctx.id \in 0 .. Len(hs) /\ y.paying[1] \in 0 .. Len(hs) /\ (y.paying # NoPay => y.paying[1] # 0)
    BY <1>1, NoBookingFacts DEF Facts, NoPay
  <2>2. Later(attempts)
    BY <1>1 DEF Later, attemptIn
  <2> QED
    BY <1>1, <1>2, <2>1, <2>2, FactsKept
<1>4. Screen(y) /\ ScreenSettled(y) /\ Clears(y, hs)
  BY <1>2 DEF Screen, ScreenSettled, Clears
<1>5. Quit(y)
  BY <1>1, <1>2 DEF Quit
<1>6. Numbers(y, attempts, hs)
  <2>1. \A h \in DOMAIN hs : (Held(y, hs, h) <=> Held(c, hs, h)) /\ (Heard(y, hs, h) <=> Heard(c, hs, h))
    BY DEF Held, Heard
  <2> QED
    BY <1>1, <1>2, <2>1 DEF Numbers
<1>7. Tags(y, hs)
  BY <1>1, NoBookingFacts DEF Tags, Writing
<1>8. Totals(y, hs)
  <2> SUFFICES ASSUME ~y.stray, ~y.crossed PROVE Totals(y, hs)
    BY DEF Totals
  <2>1. Writing(y) \subseteq Writing(c) /\ ~c.stray /\ ~c.crossed
    BY DEF Writing
  <2>2. y.paying # NoPay \/ y.at = "failed" => AfterPay(y)
    BY DEF AfterPay, Places, IsTab
  <2>3. c.paying # NoPay \/ c.at = "failed" => Writing(c) = {}
    BY <1>1, <2>1 DEF Totals
  <2>4. y.paying # NoPay \/ y.at = "failed" => Writing(y) = {}
    BY <2>1, <2>2, <2>3
  <2>5. AfterPay(y) => \A q \in Writing(y) : hs[q.h].due
    <3>1. CASE c.paying # NoPay \/ c.at = "failed"
      BY <3>1, <2>1, <2>3
    <3>2. CASE Reviewing(c) /\ c.ctx.id = 0
      <4>1. \A q \in Writing(c) : q.h \in DOMAIN hs
        BY <1>1 DEF Facts, RequestFine, Writing
      <4>2. 0 \notin DOMAIN hs
        BY <1>1 DEF Facts
      <4> QED
        BY <1>1, <2>1, <3>2, <4>1, <4>2 DEF Totals
    <3> QED
      BY <3>1, <3>2
  <2>6. AfterPay(y) /\ y.ctx.id # 0 /\ y.ctx.order # 0 /\ ~y.ctx.old =>
           y.ctx.order = hs[y.ctx.id].order
    BY <1>1, <2>1, <2>3, NoBookingFacts DEF Totals
  <2>7. \A q, r \in Writing(y) : q = r
    BY <1>1, <2>1 DEF Totals
  <2>8. \A r \in Writing(y) : r.ans = "ok" => r.copy.order = hs[r.h].order /\ r.copy.order # 0
    BY <1>1, <2>1 DEF Totals
  <2> QED
    BY <1>2, <2>4, <2>5, <2>6, <2>7, <2>8 DEF Totals
<1> QED
  BY <1>3, <1>4, <1>5, <1>6, <1>7, <1>8 DEF Good, Common

LEMMA Confirmation ==
  ASSUME NEW l, IsTab(l), NEW p \in Nat, NEW x, x = Landing(l, "confirmation", p)
  PROVE  /\ IsTab(x) /\ SameGate(l, x) /\ SameFace(l, x) /\ SameMoney(l, x) /\ SamePast(l, x)
         /\ x.at = "confirmation" /\ x.param = p /\ ~x.fromList /\ x.sel = l.sel /\ x.mount = l.mount
         /\ x.back = l.back /\ x.gone = l.gone /\ x.net = l.net /\ x.stray = l.stray
         /\ x.ctx \in {l.ctx, NoBooking}
<1>1. "confirmation" \in {"failed", "confirmation"}
  OBVIOUS
<1>2. IsTab(l) /\ p \in Nat /\ x = Landing(l, "confirmation", p)
  OBVIOUS
<1> QED
  BY ONLY <1>1, <1>2, LandingFacts, SMTT(60)

-----------------------------------------------------------------------------
(* Answers to the question about the hold in the URL.                      *)

LEMMA OwnCheck ==
  ASSUME Good(c, attempts, holds), NEW r \in c.net, r.kind = "check", Mine(c, r), ~c.stray
  PROVE  /\ Reviewing(c) /\ c.at = "review" /\ r.sel = c.sel /\ c.sel \in Sels /\ r.h = c.param /\ c.ctx.id = 0
         /\ c.asked /\ ~c.checked /\ ~c.attempted /\ c.paying = NoPay /\ ~c.timer /\ ~c.err /\ ~c.over
         /\ c.back = <<c.sel, c.param>> /\ c.seen = <<FALSE, FALSE, c.nonce>>
         /\ ~c.foreign /\ ~c.clearing /\ ~c.retrying /\ holds[c.param].sel = c.sel
         /\ r \in Own(c)
         /\ \A q \in Own(c) : q.kind \in {"check", "create"} => q = r
         /\ \A w \in Own(c) : w.kind = "write" => w.h \in c.gone
         /\ ~c.crossed => \A w \in Writing(c) : holds[w.h].due
<1>1. /\ Facts(c, attempts, holds) /\ Places(c, holds) /\ Screen(c) /\ ScreenSettled(c)
      /\ Totals(c, holds) /\ IsTab(c) /\ (c.at = "review" => Reviewing(c) /\ c.sel \in Sels) /\ holds \in Seq(HoldType)
  BY GoodFacts
<1>2. Reviewing(c) /\ c.at = "review" /\ c.sel \in Sels /\ r \in Own(c)
  BY <1>1 DEF Mine, Own
<1>3. /\ c.asked /\ ~c.checked /\ ~c.attempted /\ c.ctx.id = 0 /\ c.paying = NoPay /\ r.h = c.param
      /\ r.sel = c.sel
  BY <1>1, <1>2 DEF Screen
<1>4. ~c.timer /\ ~c.err /\ ~c.over
  BY <1>1, <1>2, <1>3 DEF Screen
<1>5. c.seen = <<FALSE, FALSE, c.nonce>> /\ c.back = <<c.sel, c.param>>
  <2>1. (c.ctx.id # 0) = FALSE /\ c.checked = FALSE
    BY <1>1, <1>3 DEF IsTab
  <2> QED
    BY <1>1, <1>2, <2>1 DEF ScreenSettled
<1>6. r.h \in DOMAIN holds /\ r.h # 0
  BY <1>1 DEF Facts, RequestFine
<1>7. ~c.foreign /\ ~c.clearing /\ ~c.retrying /\ holds[c.param].sel = c.sel
  BY <1>1, <1>2, <1>3, <1>6 DEF Places
<1>8. \A q \in Own(c) : q.kind \in {"check", "create"} => q = r
  BY <1>1, <1>2 DEF Screen
<1>9. \A w \in Own(c) : w.kind = "write" => w.h \in c.gone
  <2> SUFFICES ASSUME NEW w \in Own(c), w.kind = "write" PROVE w.h # 0
    BY <1>1, <1>2, <1>3 DEF Screen
  <2>1. w.h \in DOMAIN holds
    BY <1>1 DEF Facts, RequestFine, Own
  <2> QED
    BY <2>1, <1>1
<1>10. ~c.crossed => \A w \in Writing(c) : holds[w.h].due
  <2> SUFFICES ASSUME ~c.crossed, NEW w \in Writing(c) PROVE holds[w.h].due
    OBVIOUS
  <2>1. w.h \in DOMAIN holds
    BY <1>1 DEF Facts, RequestFine, Writing
  <2> QED
    BY <2>1, <1>1, <1>2, <1>3 DEF Totals
<1> QED
  BY <1>2, <1>3, <1>4, <1>5, <1>7, <1>8, <1>9, <1>10

(* The screen that asked goes on with what it has now: a booking, or, when *)
(* nothing was heard, the gate open.                                       *)
LEMMA OwnCheckDone ==
  ASSUME Good(c, attempts, holds), NEW r \in c.net, r.kind = "check", Mine(c, r), ~c.stray,
         NEW x, IsTab(x), SamePlace(c, x), SameFace(c, x), SameMoney(c, x),
         x.back = c.back, x.gone = c.gone, x.net = c.net \ {r}, x.stray = c.stray, ~x.foreign,
         x.loose = c.loose, x.blind = c.blind, x.quit => c.quit, x.returned = c.returned,
         x.asked = c.asked, x.checked, x.clearing = c.clearing, x.seen = c.seen,
         \/ x.ctx = Copy(r.h, r.sel) /\ x.attempted /\ holds[r.h].st = "reserved"
         \/ x.ctx = c.ctx /\ ~x.attempted /\ x.opened
  PROVE  Ready(x, attempts, holds)
<1>1. /\ Facts(c, attempts, holds) /\ Places(c, holds) /\ Screen(c) /\ Quit(c) /\ Numbers(c, attempts, holds)
      /\ Tags(c, holds) /\ Totals(c, holds) /\ IsTab(c) /\ attempts \in [Sels -> Nat] /\ holds \in Seq(HoldType)
  BY GoodFacts
<1>2. /\ Reviewing(c) /\ c.at = "review" /\ r.sel = c.sel /\ c.sel \in Sels /\ r.h = c.param /\ c.ctx.id = 0
      /\ c.asked /\ ~c.checked /\ c.paying = NoPay /\ ~c.timer /\ ~c.err /\ ~c.over
      /\ c.seen = <<FALSE, FALSE, c.nonce>>
      /\ ~c.foreign /\ ~c.clearing /\ ~c.retrying /\ holds[c.param].sel = c.sel
      /\ \A q \in Own(c) : q.kind \in {"check", "create"} => q = r
      /\ \A w \in Own(c) : w.kind = "write" => w.h \in c.gone
      /\ ~c.crossed => \A w \in Writing(c) : holds[w.h].due
  BY OwnCheck
<1>3. r.h \in DOMAIN holds /\ r.h # 0 /\ r.h \in 0 .. Len(holds) /\ r.sel \in Tickets
  BY <1>1, <1>2 DEF Facts, RequestFine, Tickets
<1>4. \/ /\ x.ctx.id = c.param /\ x.ctx.for = c.sel /\ x.ctx.order = holds[c.param].order /\ x.attempted
         /\ x.ctx.st = "reserved" /\ ~holds[c.param].due
      \/ x.ctx = c.ctx /\ ~x.attempted /\ x.opened
  <2>1. holds[r.h].st = "reserved" => ~holds[r.h].due
    BY <1>1, <1>3 DEF Facts, HoldFine
  <2> QED
    BY <1>1, <1>2, <1>3, <2>1, CopyFacts
<1>5. /\ Reviewing(x) /\ x.at = "review" /\ Anchor(x) = Anchor(c) /\ Anchor(c)[2] = c.param /\ ~AfterPay(x)
      /\ \A q : Mine(x, q) <=> Mine(c, q)
  BY <1>2 DEF Reviewing, Anchor, AfterPay, Mine, SamePlace
<1>6. Own(x) = Own(c) \ {r} /\ \A q \in Own(x) : q.kind \notin {"check", "create"}
  BY <1>2, <1>5 DEF Own
<1>7. /\ ~x.timer /\ ~x.err /\ ~x.over /\ ~x.retrying /\ x.paying = NoPay /\ x.pending = c.pending
      /\ x.crossed = c.crossed /\ x.param = c.param /\ x.sel = c.sel
  BY <1>2 DEF SameFace, SameMoney, SamePlace
<1>8. Facts(x, attempts, holds)
  <2>1. x.ctx.id \in 0 .. Len(holds) /\ x.param \in 0 .. Len(holds) /\ x.paying[1] \in 0 .. Len(holds)
    BY <1>1, <1>2, <1>3, <1>4, <1>7 DEF Facts
  <2>2. /\ x.mount = c.mount /\ (Reviewing(x) => Reviewing(c) /\ x.layout = c.layout)
        /\ (x.at = "review" => x.mount # 0)
    BY <1>1, <1>2 DEF Facts, SamePlace
  <2>3. Later(attempts)
    BY <1>1 DEF Later, attemptIn
  <2> QED
    BY <1>1, <1>5, <1>7, <2>1, <2>2, <2>3, FactsKept
<1>9. Places(x, holds)
  BY <1>1, <1>2, <1>4, <1>5, <1>7 DEF Places
<1>10. Screen(x)
  BY <1>1, <1>2, <1>6, <1>7 DEF Screen
<1>11. Quit(x)
  BY <1>1, <1>2, <1>3, <1>4, <1>5, <1>6, <1>7 DEF Quit
<1>12. Numbers(x, attempts, holds)
  <2>1. Creates(x) = Creates(c)
    BY DEF Creates
  <2>2. \A h \in DOMAIN holds : /\ Held(x, holds, h) <=> Held(c, holds, h)
                                /\ Heard(x, holds, h) <=> Heard(c, holds, h)
    BY <2>1 DEF Held, Heard
  <2> QED
    BY <1>1, <1>5, <1>6, <1>7, <2>1, <2>2 DEF Numbers
<1>13. Tags(x, holds)
  BY <1>1, <1>2, <1>4 DEF Tags, Writing
<1>14. Totals(x, holds)
  <2>1. Writing(x) = Writing(c)
    BY DEF Writing
  <2> QED
    BY <1>1, <1>2, <1>4, <1>5, <1>6, <1>7, <2>1 DEF Totals
<1>15. ScreenReady(x)
  <2>1. ~x.attempted => Unsettled(x)
    BY <1>2 DEF Unsettled
  <2>2. ~Asks(x)
    BY <1>2 DEF Asks
  <2>3. x.attempted => x.ctx.id # 0
    BY <1>2, <1>3, <1>4
  <2> QED
    BY <1>5, <1>7, <2>1, <2>2, <2>3 DEF ScreenReady, Waits
<1> QED
  BY <1>8, <1>9, <1>10, <1>11, <1>12, <1>13, <1>14, <1>15 DEF Ready, Common

LEMMA AdoptFacts ==
  ASSUME NEW u, IsTab(u), holds \in Seq(HoldType), NEW r, r.h \in DOMAIN holds, r.sel \in Tickets,
         NEW y, y = Adopt(u, r)
  PROVE  /\ IsTab(y) /\ SamePlace(u, y) /\ SameGate(u, y) /\ SameFace(u, y) /\ SameMoney(u, y)
         /\ y.quit = u.quit /\ y.opened = u.opened /\ y.returned = u.returned /\ y.loose = u.loose
         /\ y.blind = u.blind
         /\ y.back = u.back /\ y.releasing = u.releasing /\ y.gone = u.gone /\ y.net = u.net
         /\ y.ctx = IF Provided(u, r) THEN Copy(r.h, r.sel) ELSE u.ctx
         /\ y.stray <=> u.stray \/ (Provided(u, r) /\ Stray(u, r))
         /\ y.foreign <=> u.foreign \/ (Provided(u, r) /\ holds[r.h].sel # r.sel)
<1>1. PICK z : z = setBooking(u, r, Copy(r.h, r.sel))
  OBVIOUS
<1>2. /\ IsTab(z) /\ SamePlace(u, z) /\ SameGate(u, z) /\ SameFace(u, z) /\ SameMoney(u, z) /\ SamePast(u, z)
      /\ z.back = u.back /\ z.releasing = u.releasing /\ z.gone = u.gone /\ z.net = u.net
      /\ z.ctx = (IF Provided(u, r) THEN Copy(r.h, r.sel) ELSE u.ctx)
      /\ z.stray <=> u.stray \/ (Provided(u, r) /\ Stray(u, r))
  BY <1>1, CopyFacts, SetBookingFacts
<1>3. PICK p \in BOOLEAN : p <=> u.foreign \/ (Provided(u, r) /\ holds[r.h].sel # r.sel)
  OBVIOUS
<1>4. y = [z EXCEPT !.foreign = p]
  <2>1. p = (z.foreign \/ (Provided(u, r) /\ holds[r.h].sel # r.sel))
    BY <1>2, <1>3 DEF SamePast, IsTab
  <2>2. y = [z EXCEPT !.foreign = z.foreign \/ (Provided(u, r) /\ holds[r.h].sel # r.sel)]
    BY <1>1 DEF Adopt
  <2> QED
    BY <2>1, <2>2
<1>5. IsTab(y)
  BY <1>2, <1>4 DEF IsTab, Fields
<1>6. SamePlace(z, y) /\ SameGate(z, y) /\ SameFace(z, y) /\ SameMoney(z, y)
  BY <1>2, <1>4 DEF IsTab, Fields, SamePlace, SameGate, SameFace, SameMoney
<1>7. SamePlace(u, y) /\ SameGate(u, y) /\ SameFace(u, y) /\ SameMoney(u, y)
  BY <1>2, <1>6 DEF SamePlace, SameGate, SameFace, SameMoney
<1>8. /\ y.quit = z.quit /\ y.opened = z.opened /\ y.returned = z.returned /\ y.loose = z.loose
      /\ y.blind = z.blind
      /\ y.back = z.back /\ y.releasing = z.releasing /\ y.gone = z.gone /\ y.net = z.net
      /\ y.ctx = z.ctx /\ y.stray = z.stray /\ y.foreign = p
  BY <1>2, <1>4 DEF IsTab, Fields
<1> QED
  BY <1>2, <1>3, <1>5, <1>7, <1>8 DEF SamePast

(* A booking that is adopted late, or by a tab that was disturbed before.  *)
LEMMA StrayAdopt ==
  ASSUME Good(c, attempts, holds), NEW r \in c.net, r.kind = "check",
         NEW x, IsTab(x), SamePlace(c, x), SameMoney(c, x), x.back = c.back, x.gone = c.gone, x.net = c.net \ {r},
         x.ctx = (IF Provided(c, r) THEN Copy(r.h, r.sel) ELSE c.ctx), x.stray,
         x.foreign <=> c.foreign \/ (Provided(c, r) /\ holds[r.h].sel # r.sel)
  PROVE  Ready(x, attempts, holds)
<1>1. /\ Facts(c, attempts, holds) /\ IsTab(c) /\ attempts \in [Sels -> Nat] /\ holds \in Seq(HoldType)
      /\ Tags(c, holds)
  BY GoodFacts
<1>2. r.h \in DOMAIN holds /\ r.h \in 0 .. Len(holds) /\ r.sel \in Tickets
  <2>1. RequestFine(r, c, attempts, holds) /\ IsRequest(r)
    BY <1>1 DEF Facts, IsTab
  <2> QED
    BY <1>1, <2>1 DEF RequestFine, IsRequest
<1>3. Copy(r.h, r.sel).id = r.h /\ Copy(r.h, r.sel).for = r.sel
  BY <1>1, <1>2, CopyFacts
<1>4. Facts(x, attempts, holds)
  <2>1. x.ctx.id \in 0 .. Len(holds) /\ x.param \in 0 .. Len(holds) /\ x.paying[1] \in 0 .. Len(holds)
    BY <1>1, <1>2, <1>3 DEF Facts, SamePlace, SameMoney
  <2>2. /\ x.mount = c.mount /\ (Reviewing(x) => Reviewing(c) /\ x.layout = c.layout)
        /\ (x.at = "review" => x.mount # 0)
        /\ (x.at \in {"failed", "confirmation"} => x.param # 0)
        /\ (x.paying # NoPay => x.paying[1] # 0)
    BY <1>1 DEF Facts, SamePlace, SameMoney, Reviewing
  <2>3. Later(attempts)
    BY <1>1 DEF Later, attemptIn
  <2> QED
    BY <1>1, <2>1, <2>2, <2>3, FactsKept
<1>5. Tags(x, holds)
  BY <1>1, <1>3 DEF Tags, Writing
<1> QED
  BY <1>4, <1>5, StrayIsReady

LEMMA CheckAnswerKept ==
  ASSUME Good(c, attempts, holds), NEW r \in c.net, CheckAnswer(r)
  PROVE  Kept
<1>1. /\ holds \in Seq(HoldType) /\ SameHolds(holds) /\ attempts \in [Sels -> Nat] /\ IsTab(c)
      /\ r.kind = "check"
      /\ Facts(c, attempts, holds) /\ holds' = holds /\ attempts' = attempts /\ Places(c, holds)
  BY GoodFacts, SameHoldsFacts DEF CheckAnswer
<1>2. r.h \in DOMAIN holds /\ r.h \in 0 .. Len(holds) /\ r.h # 0 /\ r.h \in Nat /\ r.sel \in Tickets
  BY <1>1 DEF Facts, RequestFine, IsTab, IsRequest
<1>3. PICK u : u = Answered(r)
  OBVIOUS
<1>4. /\ IsTab(u) /\ SamePlace(c, u) /\ SameGate(c, u) /\ SameFace(c, u) /\ SameMoney(c, u)
      /\ u.ctx = c.ctx /\ u.back = c.back /\ u.releasing = c.releasing /\ u.gone = c.gone /\ u.stray = c.stray
      /\ u.quit = c.quit /\ u.opened = c.opened /\ u.returned = c.returned /\ u.foreign = c.foreign
      /\ u.blind = c.blind
      /\ u.net = c.net \ {r} /\ u.loose = c.loose
  BY <1>1, <1>3, AnsweredFacts
<1>5. /\ Provided(u, r) <=> Provided(c, r)
      /\ Stray(u, r) <=> ~Mine(c, r)
  BY <1>1, <1>4 DEF Provided, Stray, Mine, SamePlace
<1>6. PICK st : st = IF holds[r.h].st = "reserved" THEN "live" ELSE holds[r.h].st
  OBVIOUS
<1>7. PICK l : l = [u EXCEPT !.stray = @ \/ ~Mine(c, r)]
  OBVIOUS
<1>8. /\ IsTab(l) /\ SamePlace(c, l) /\ SameGate(c, l) /\ SameFace(c, l) /\ SameMoney(c, l)
      /\ l.ctx = c.ctx /\ l.back = c.back /\ l.gone = c.gone /\ (l.stray <=> c.stray \/ ~Mine(c, r))
      /\ l.quit = c.quit /\ l.opened = c.opened /\ l.returned = c.returned /\ l.foreign = c.foreign
      /\ l.blind = c.blind
      /\ l.net = c.net \ {r} /\ l.loose = c.loose
  <2>1. IsTab(l)
    BY <1>4, <1>7 DEF IsTab, Fields, Mine
  <2>2. SamePlace(u, l) /\ SameGate(u, l) /\ SameFace(u, l) /\ SameMoney(u, l)
    BY <1>4, <1>7 DEF IsTab, Fields, SamePlace, SameGate, SameFace, SameMoney
  <2>3. /\ l.ctx = u.ctx /\ l.back = u.back /\ l.gone = u.gone /\ (l.stray <=> u.stray \/ ~Mine(c, r))
        /\ l.quit = u.quit /\ l.opened = u.opened /\ l.returned = u.returned /\ l.foreign = u.foreign
        /\ l.blind = u.blind /\ l.net = u.net /\ l.loose = u.loose
    BY <1>4, <1>7 DEF IsTab, Fields
  <2> QED
    BY <2>1, <2>2, <2>3, <1>4 DEF SamePlace, SameGate, SameFace, SameMoney
<1>9. ~Mine(c, r) => Good(u, attempts, holds)
  BY <1>3, AnsweredIsGood
<1>10. CASE st = "live"
  <2>1. PICK y : y = Adopt(u, r)
    OBVIOUS
  <2>2. /\ IsTab(y) /\ SamePlace(c, y) /\ SameGate(c, y) /\ SameFace(c, y) /\ SameMoney(c, y)
        /\ y.quit = c.quit /\ y.opened = c.opened /\ y.returned = c.returned /\ y.loose = c.loose
        /\ y.blind = c.blind
        /\ y.back = c.back /\ y.gone = c.gone /\ y.net = c.net \ {r}
        /\ y.ctx = (IF Provided(c, r) THEN Copy(r.h, r.sel) ELSE c.ctx)
        /\ y.stray <=> c.stray \/ (Provided(c, r) /\ ~Mine(c, r))
        /\ y.foreign <=> c.foreign \/ (Provided(c, r) /\ holds[r.h].sel # r.sel)
    <3>1. /\ IsTab(y) /\ SamePlace(u, y) /\ SameGate(u, y) /\ SameFace(u, y) /\ SameMoney(u, y)
          /\ y.quit = u.quit /\ y.opened = u.opened /\ y.returned = u.returned /\ y.loose = u.loose
          /\ y.blind = u.blind
          /\ y.back = u.back /\ y.gone = u.gone /\ y.net = u.net
          /\ y.ctx = (IF Provided(u, r) THEN Copy(r.h, r.sel) ELSE u.ctx)
          /\ y.stray <=> u.stray \/ (Provided(u, r) /\ Stray(u, r))
          /\ y.foreign <=> u.foreign \/ (Provided(u, r) /\ holds[r.h].sel # r.sel)
      BY <1>1, <1>2, <1>4, <2>1, AdoptFacts
    <3> QED
      BY <3>1, <1>4, <1>5 DEF SamePlace, SameGate, SameFace, SameMoney
  <2>3. CASE Mine(c, r)
    <3>1. PICK x : x = [y EXCEPT !.attempted = TRUE, !.checked = TRUE]
      OBVIOUS
    <3>2. c' = Settle(x, attempts')
      BY <1>1, <1>3, <1>6, <1>10, <2>1, <2>3, <3>1 DEF CheckAnswer, Become
    <3>3. IsTab(x)
      BY <2>2, <3>1 DEF IsTab, Fields
    <3>4. SamePlace(c, x) /\ SameFace(c, x) /\ SameMoney(c, x)
      <4>1. SamePlace(y, x) /\ SameFace(y, x) /\ SameMoney(y, x)
        BY <2>2, <3>1 DEF IsTab, Fields, SamePlace, SameFace, SameMoney
      <4> QED
        BY <4>1, <2>2 DEF SamePlace, SameFace, SameMoney
    <3>5. /\ x.quit = c.quit /\ x.opened = c.opened /\ x.returned = c.returned /\ x.loose = c.loose
          /\ x.blind = c.blind
          /\ x.back = c.back /\ x.gone = c.gone /\ x.net = c.net \ {r}
          /\ x.ctx = (IF Provided(c, r) THEN Copy(r.h, r.sel) ELSE c.ctx)
          /\ x.stray = y.stray
          /\ x.foreign <=> c.foreign \/ (Provided(c, r) /\ holds[r.h].sel # r.sel)
          /\ x.asked = y.asked /\ x.clearing = y.clearing /\ x.seen = y.seen /\ x.attempted /\ x.checked
      BY <2>2, <3>1 DEF IsTab, Fields
    <3>6. x.asked = c.asked /\ x.clearing = c.clearing /\ x.seen = c.seen
      BY <2>2, <3>5 DEF SameGate
    <3>7. Ready(x, attempts, holds)
      <4>1. CASE c.stray
        <5>1. x.stray
          BY <2>2, <3>5, <4>1
        <5> QED
          BY <5>1, <1>1, <3>3, <3>4, <3>5, StrayAdopt
      <4>2. CASE ~c.stray
        <5>1. Reviewing(c) /\ holds[r.h].sel = r.sel /\ ~c.foreign
          BY <1>1, <2>3, <4>2, OwnCheck
        <5>2. Provided(c, r)
          BY <1>1, <2>3, <5>1 DEF Facts, RequestFine, Mine, Provided
        <5>3. ~x.foreign /\ x.ctx = Copy(r.h, r.sel)
          BY <3>5, <5>1, <5>2
        <5>4. x.stray = c.stray
          BY <1>1, <2>2, <2>3, <3>5, <3>3 DEF IsTab
        <5>5. holds[r.h].st = "reserved"
          <6>1. holds[r.h] \in HoldType
            BY <1>1, <1>2
          <6> QED
            BY <1>6, <1>10, <6>1 DEF HoldType, Statuses
        <5> QED
          BY <1>1, <2>3, <3>3, <3>4, <3>5, <3>6, <4>2, <5>3, <5>4, <5>5, OwnCheckDone
      <4> QED
        BY <4>1, <4>2
    <3> QED
      BY <1>1, <3>2, <3>4, <3>7, Finish DEF SameMoney
  <2>4. CASE ~Mine(c, r) /\ Provided(c, r)
    <3>1. c' = Settle(y, attempts')
      BY <1>1, <1>3, <1>6, <1>10, <2>1, <2>4 DEF CheckAnswer, Become
    <3>2. y.stray
      BY <2>2, <2>4
    <3>3. Ready(y, attempts, holds)
      BY <1>1, <2>2, <3>2, StrayAdopt
    <3> QED
      BY <1>1, <2>2, <3>1, <3>3, Finish DEF SameMoney
  <2>5. CASE ~Mine(c, r) /\ ~Provided(c, r)
    <3>1. c' = Settle(y, attempts')
      BY <1>1, <1>3, <1>6, <1>10, <2>1, <2>5 DEF CheckAnswer, Become
    <3>2. y = u
      <4>1. y = [u EXCEPT !.foreign = u.foreign \/ (Provided(u, r) /\ holds[r.h].sel # r.sel)]
        BY <1>5, <2>1, <2>5 DEF Adopt, setBooking
      <4>2. (u.foreign \/ (Provided(u, r) /\ holds[r.h].sel # r.sel)) = u.foreign
        BY <1>4, <1>5, <2>5 DEF IsTab
      <4>3. y = [u EXCEPT !.foreign = u.foreign]
        BY <4>1, <4>2
      <4>4. u = [c EXCEPT !.net = @ \ {r}, !.loose = @]
        BY <1>1, <1>3 DEF Answered
      <4> QED
        BY <4>3, <4>4
    <3>3. Ready(u, attempts, holds)
      BY <1>9, <2>5, GoodIsReady
    <3> QED
      BY <1>1, <1>4, <3>1, <3>2, <3>3, Finish DEF SameMoney
  <2> QED
    BY <2>3, <2>4, <2>5
<1>11. CASE st = "paid" /\ Alive(r)
  <2>1. PICK x : x = Landing(l, "confirmation", r.h)
    OBVIOUS
  <2>2. c' = Settle(x, attempts')
    BY <1>1, <1>3, <1>6, <1>7, <1>11, <2>1 DEF CheckAnswer, Become
  <2>3. /\ IsTab(x) /\ SameGate(l, x) /\ SameFace(l, x) /\ SameMoney(l, x) /\ SamePast(l, x)
         /\ x.at = "confirmation" /\ x.param = r.h /\ ~x.fromList /\ x.sel = l.sel /\ x.mount = l.mount
         /\ x.back = l.back /\ x.gone = l.gone /\ x.net = l.net /\ x.stray = l.stray
         /\ x.ctx \in {l.ctx, NoBooking}
    <3>1. PICK p \in Nat : p = r.h
      BY <1>2
    <3>2. x = Landing(l, "confirmation", p)
      BY <2>1, <3>1
    <3>3. IsTab(l)
      BY <1>8
    <3>4. /\ IsTab(x) /\ SameGate(l, x) /\ SameFace(l, x) /\ SameMoney(l, x) /\ SamePast(l, x)
          /\ x.at = "confirmation" /\ x.param = p /\ ~x.fromList /\ x.sel = l.sel /\ x.mount = l.mount
          /\ x.back = l.back /\ x.gone = l.gone /\ x.net = l.net /\ x.stray = l.stray
          /\ x.ctx \in {l.ctx, NoBooking}
      BY <3>2, <3>3, Confirmation
    <3> QED
      BY <3>1, <3>4
  <2>4. /\ x.paying = c.paying /\ x.crossed = c.crossed /\ x.mount = c.mount /\ x.back = c.back
        /\ x.gone = c.gone
        /\ x.net = c.net \ {r} /\ (x.stray <=> c.stray \/ ~Mine(c, r)) /\ x.ctx \in {c.ctx, NoBooking}
        /\ x.quit = c.quit /\ x.opened = c.opened /\ x.returned = c.returned /\ x.foreign = c.foreign
        /\ x.loose = c.loose /\ x.blind = c.blind
    BY <2>3, <1>8 DEF SameMoney, SamePast, SamePlace
  <2>5. ~x.stray => ~c.stray /\ c.paying = NoPay /\ c.back = <<c.sel, c.param>> /\ r.h = c.param /\ Reviewing(c)
    BY <1>1, <2>4, OwnCheck
  <2>6. ~x.stray => c.ctx.id = 0 /\ x.ctx.id = 0
    BY <1>1, <2>4, OwnCheck, NoBookingFacts
  <2>7. Places(x, holds)
    <3>1. ~x.stray => x.param = x.back[2]
      BY <2>3, <2>4, <2>5
    <3>2. ~Reviewing(x) /\ Anchor(x) = c.back
      BY <2>3, <2>4 DEF Reviewing, Anchor
    <3> QED
      BY <1>1, <2>3, <2>4, <2>5, <2>6, <3>1, <3>2 DEF Places
  <2>8. Creates(x) = Creates(c)
    BY <1>1, <2>4 DEF Creates
  <2>9. Good(x, attempts, holds)
    BY <1>2, <2>3, <2>4, <2>5, <2>6, <2>7, <2>8, Outside
  <2> QED
    BY <1>1, <2>2, <2>4, <2>9, GoodIsReady, Finish
<1>12. CASE st \notin {"live", "paid"} /\ Alive(r)
  <2>1. PICK x : x = [l EXCEPT !.at = "out", !.sel = None, !.ctx = NoBooking]
    OBVIOUS
  <2>2. c' = Settle(x, attempts')
    BY <1>1, <1>3, <1>6, <1>7, <1>12, <2>1 DEF CheckAnswer, Become
  <2>3. IsTab(x)
    BY <1>8, <2>1, NoBookingFacts DEF IsTab, Fields, Tickets
  <2>4. /\ x.at = "out" /\ x.param = l.param
        /\ x.paying = l.paying /\ x.crossed = l.crossed /\ x.mount = l.mount /\ x.back = l.back
        /\ x.gone = l.gone
        /\ x.net = l.net /\ x.stray = l.stray /\ x.ctx = NoBooking
        /\ x.quit = l.quit /\ x.opened = l.opened /\ x.returned = l.returned /\ x.foreign = l.foreign
        /\ x.loose = l.loose /\ x.blind = l.blind
    BY <1>8, <2>1 DEF IsTab, Fields
  <2>5. /\ x.paying = c.paying /\ x.crossed = c.crossed /\ x.mount = c.mount /\ x.back = c.back
        /\ x.gone = c.gone
        /\ x.net = c.net \ {r} /\ (x.stray <=> c.stray \/ ~Mine(c, r)) /\ x.ctx \in {c.ctx, NoBooking}
        /\ x.quit = c.quit /\ x.opened = c.opened /\ x.returned = c.returned /\ x.foreign = c.foreign
        /\ x.loose = c.loose /\ x.blind = c.blind
        /\ x.param \in 0 .. Len(holds)
    BY <1>1, <2>4, <1>8 DEF SameMoney, SamePlace, Facts
  <2>6. ~x.stray => ~c.stray /\ c.paying = NoPay
    BY <1>1, <2>5, OwnCheck
  <2>7. ~AfterPay(x) /\ ~Reviewing(x) /\ Anchor(x) = c.back
    BY <2>4, <2>5 DEF AfterPay, Reviewing, Anchor
  <2>8. Places(x, holds)
    BY <1>1, <2>4, <2>5, <2>6, <2>7, NoBookingFacts DEF Places
  <2>9. Creates(x) = Creates(c)
    BY <1>1, <2>5 DEF Creates
  <2>10. Good(x, attempts, holds)
    BY <2>3, <2>4, <2>5, <2>6, <2>7, <2>8, <2>9, Outside
  <2> QED
    BY <1>1, <2>2, <2>5, <2>10, GoodIsReady, Finish
<1>13. CASE st # "live" /\ ~Alive(r)
  <2>1. c' = Settle(u, attempts')
    BY <1>1, <1>3, <1>6, <1>13 DEF CheckAnswer, Become
  <2>2. ~Mine(c, r)
    BY <1>1, <1>13 DEF Mine, Alive, Facts
  <2> QED
    BY <1>1, <1>4, <1>9, <2>1, <2>2, GoodIsReady, Finish DEF SameMoney
<1> QED
  BY <1>10, <1>11, <1>12, <1>13

-----------------------------------------------------------------------------
(* Answers to a cancel.                                                    *)

(* The bookings end in the step in which the tab's effects run.            *)
LEMMA FinishDims ==
  ASSUME holds \in Seq(HoldType), NEW x, c' = Settle(x, attempts'), Ready(x, attempts', holds),
         Dims(holds, holds'), x.paying \in {c.paying, NoPay}
  PROVE  Kept
<1>1. PICK a : a = attempts'
  OBVIOUS
<1>2. PICK hs : hs = holds'
  OBVIOUS
<1>3. PICK y : y = Settle(x, a)
  OBVIOUS
<1>4. Good(y, a, holds) /\ y.paying = x.paying
  BY <1>1, <1>3, SettleGood, SameHoldsFacts
<1>5. Good(y, a, hs)
  BY <1>2, <1>4, DimsIsGood
<1> QED
  BY <1>1, <1>2, <1>3, <1>4, <1>5 DEF Kept, PaysRight

LEMMA FinishAtOnce ==
  ASSUME Good(c', attempts', holds), Dims(holds, holds'), c'.paying \in {c.paying, NoPay}
  PROVE  Kept
<1>1. PICK a : a = attempts'
  OBVIOUS
<1>2. PICK hs : hs = holds'
  OBVIOUS
<1>3. PICK y : y = c'
  OBVIOUS
<1>4. Good(y, a, hs)
  BY <1>1, <1>2, <1>3, DimsIsGood
<1> QED
  BY <1>1, <1>2, <1>3, <1>4 DEF Kept, PaysRight

(* A tab that was disturbed, and what was in context is taken from it.     *)
LEMMA StrayTab ==
  ASSUME Good(c, attempts, holds), NEW b, Later(b), NEW x, IsTab(x), SamePlace(c, x), x.paying = c.paying,
         x.back = c.back, x.net \subseteq c.net, x.gone = c.gone, x.ctx \in {c.ctx, NoBooking},
         x.foreign = c.foreign, x.stray
  PROVE  Ready(x, b, holds)
<1>1. /\ Facts(c, attempts, holds) /\ IsTab(c) /\ attempts \in [Sels -> Nat] /\ holds \in Seq(HoldType)
      /\ Tags(c, holds)
  BY GoodFacts
<1>2. Facts(x, b, holds)
  <2>1. x.ctx.id \in 0 .. Len(holds) /\ x.param \in 0 .. Len(holds) /\ x.paying[1] \in 0 .. Len(holds)
    BY <1>1, NoBookingFacts DEF Facts, SamePlace
  <2>2. /\ x.mount = c.mount /\ (Reviewing(x) => Reviewing(c) /\ x.layout = c.layout)
        /\ (x.at = "review" => x.mount # 0)
        /\ (x.at \in {"failed", "confirmation"} => x.param # 0)
        /\ (x.paying # NoPay => x.paying[1] # 0)
    BY <1>1 DEF Facts, SamePlace, Reviewing
  <2> QED
    BY <1>1, <2>1, <2>2, FactsKept
<1>3. Tags(x, holds)
  BY <1>1, NoBookingFacts DEF Tags, Writing
<1> QED
  BY <1>2, <1>3, StrayIsReady

LEMMA CancelDims ==
  ASSUME Good(c, attempts, holds), NEW r \in c.net, r.kind = "cancel",
         NEW hs, hs = holds \/ (holds[r.h].st = "reserved" /\ hs = [holds EXCEPT ![r.h].st = "cancelled"])
  PROVE  Dims(holds, hs)
<1>1. Facts(c, attempts, holds) /\ holds \in Seq(HoldType)
  BY GoodFacts
<1>2. r.h \in DOMAIN holds /\ \A h \in DOMAIN holds : holds[h].st = "reserved" => ~holds[h].due
  BY <1>1 DEF Facts, RequestFine, HoldFine
<1>3. CASE hs = holds
  BY <1>1, <1>2, <1>3 DEF Dims
<1>4. CASE holds[r.h].st = "reserved" /\ hs = [holds EXCEPT ![r.h].st = "cancelled"]
  <2>1. holds[r.h] \in HoldType
    BY <1>1, <1>2
  <2>2. PICK g : g = [holds[r.h] EXCEPT !.st = "cancelled"]
    OBVIOUS
  <2>3. g \in HoldType /\ g.sel = holds[r.h].sel /\ g.att = holds[r.h].att /\ g.ver = holds[r.h].ver /\ g.st = "cancelled"
    BY <2>1, <2>2 DEF HoldType, Statuses
  <2>4. hs = [holds EXCEPT ![r.h] = g]
    BY <1>4, <2>2
  <2>5. hs \in Seq(HoldType) /\ Len(hs) = Len(holds) /\ DOMAIN hs = DOMAIN holds
    BY <1>1, <1>2, <2>3, <2>4
  <2>6. \A h \in DOMAIN holds : hs[h] = IF h = r.h THEN g ELSE holds[h]
    BY <1>1, <2>4
  <2> QED
    BY <1>2, <1>4, <2>3, <2>5, <2>6 DEF Dims, Live
<1> QED
  BY <1>3, <1>4

LEMMA CancelAnswerKept ==
  ASSUME Good(c, attempts, holds), NEW r \in c.net, NEW arrives \in BOOLEAN, CancelAnswer(r, arrives)
  PROVE  Kept
<1>1. /\ holds \in Seq(HoldType) /\ attempts \in [Sels -> Nat] /\ IsTab(c) /\ r.kind = "cancel"
      /\ attempts' = attempts /\ Facts(c, attempts, holds) /\ Screen(c) /\ (c.at = "review" => Reviewing(c))
  BY GoodFacts DEF CancelAnswer
<1>2. Dims(holds, holds')
  <2>1. PICK hs : hs = holds'
    OBVIOUS
  <2>2. hs = holds \/ (holds[r.h].st = "reserved" /\ hs = [holds EXCEPT ![r.h].st = "cancelled"])
    BY <2>1 DEF CancelAnswer
  <2> QED
    BY <1>1, <2>1, <2>2, CancelDims
<1>3. PICK u : u = Answered(r)
  OBVIOUS
<1>4. /\ IsTab(u) /\ SamePlace(c, u) /\ SameGate(c, u) /\ SameFace(c, u) /\ SameMoney(c, u)
      /\ u.ctx = c.ctx /\ u.back = c.back /\ u.releasing = c.releasing /\ u.gone = c.gone /\ u.stray = c.stray
      /\ u.quit = c.quit /\ u.opened = c.opened /\ u.returned = c.returned /\ u.foreign = c.foreign
      /\ u.blind = c.blind
      /\ u.net = c.net \ {r} /\ u.loose = c.loose
  BY <1>1, <1>3, AnsweredFacts
<1>5. Good(u, attempts, holds)
  BY <1>1, <1>3, AnsweredIsGood
<1>6. Later(attempts)
  BY <1>1 DEF Later, attemptIn
<1>7. Mine(c, r) /\ r.what # "none" => c.stray
  BY <1>1 DEF Screen, Own, Mine
<1>8. ASSUME Mine(c, r), r.what \in {"clear", "retry"}
      PROVE  Kept
  <2>1. PICK x : x = IF r.what = "clear" THEN [u EXCEPT !.attempted = FALSE, !.ctx = NoBooking, !.clearing = FALSE]
                     ELSE [Again(u) EXCEPT !.over = FALSE, !.err = FALSE, !.ctx = NoBooking, !.retrying = FALSE]
    OBVIOUS
  <2>2. c' = Settle(x, attempts')
    BY <1>1, <1>3, <1>8, <2>1 DEF CancelAnswer, Become
  <2>3. IsTab(x) /\ SamePlace(u, x) /\ x.paying = u.paying /\ x.back = u.back /\ x.net = u.net /\ x.gone = u.gone
        /\ x.ctx = NoBooking /\ x.foreign = u.foreign /\ x.stray = u.stray
    <3>1. CASE r.what = "clear"
      <4>1. x = [u EXCEPT !.attempted = FALSE, !.ctx = NoBooking, !.clearing = FALSE]
        BY <3>1, <2>1
      <4>2. IsTab(x)
        BY <1>4, <4>1, NoBookingFacts DEF IsTab, Fields
      <4> QED
        BY <1>4, <4>1, <4>2 DEF IsTab, Fields, SamePlace
    <3>2. CASE r.what # "clear"
      <4>1. x = [u EXCEPT !.attempted = FALSE, !.nonce = ~@, !.over = FALSE, !.err = FALSE, !.ctx = NoBooking,
                          !.retrying = FALSE]
        BY <1>4, <3>2, <2>1 DEF Again, IsTab, Fields
      <4>2. IsTab(x)
        BY <1>4, <4>1, NoBookingFacts DEF IsTab, Fields
      <4> QED
        BY <1>4, <4>1, <4>2 DEF IsTab, Fields, SamePlace
    <3> QED
      BY <3>1, <3>2
  <2>4. Ready(x, attempts, holds) /\ x.paying = c.paying
    <3>1. SamePlace(c, x) /\ x.paying = c.paying /\ x.stray
      BY <1>4, <1>7, <1>8, <2>3 DEF SamePlace, SameMoney
    <3>2. /\ x.back = c.back /\ x.net \subseteq c.net /\ x.gone = c.gone /\ x.ctx \in {c.ctx, NoBooking}
          /\ x.foreign = c.foreign
      BY <1>4, <2>3
    <3> QED
      BY <1>6, <2>3, <3>1, <3>2, StrayTab
  <2> QED
    BY <1>1, <1>2, <2>2, <2>4, FinishDims
<1>9. ASSUME ~Mine(c, r), r.what \in {"clear", "retry"}
      PROVE  Kept
  <2>1. PICK z : z = setBooking(Answered(r), r, NoBooking)
    OBVIOUS
  <2>2. c' = Settle(z, attempts')
    BY <1>1, <1>9, <2>1 DEF CancelAnswer, Become
  <2>3. Ready(z, attempts, holds) /\ z.paying = c.paying
    BY <1>6, <1>9, <2>1, LateClear
  <2> QED
    BY <1>1, <1>2, <2>2, <2>3, FinishDims
<1>10. ASSUME r.what = "picker", u.at = "picker"
       PROVE  Kept
  <2>1. PICK y : y = [u EXCEPT !.releasing = FALSE]
    OBVIOUS
  <2>2. c' = y
    BY <1>3, <1>10, <2>1 DEF CancelAnswer
  <2>3. /\ IsTab(y) /\ SamePlace(u, y) /\ SameGate(u, y) /\ SameFace(u, y) /\ SameMoney(u, y) /\ SamePast(u, y)
        /\ y.ctx = u.ctx /\ y.back = u.back /\ y.gone = u.gone /\ y.net = u.net /\ y.stray = u.stray
    <3>1. IsTab(y)
      BY <1>4, <2>1 DEF IsTab, Fields
    <3>2. SamePlace(u, y) /\ SameGate(u, y) /\ SameFace(u, y) /\ SameMoney(u, y) /\ SamePast(u, y)
      BY <1>4, <2>1 DEF IsTab, Fields, SamePlace, SameGate, SameFace, SameMoney, SamePast
    <3> QED
      BY <1>4, <2>1, <3>1, <3>2 DEF IsTab, Fields
  <2>4. Good(y, attempts, holds)
    <3>1. /\ Facts(u, attempts, holds) /\ Places(u, holds) /\ ScreenSettled(u) /\ Quit(u)
          /\ Numbers(u, attempts, holds) /\ Tags(u, holds) /\ Totals(u, holds)
      BY <1>5, GoodFacts
    <3>2. y.at = "picker" /\ ~Reviewing(y) /\ ~Reviewing(u) /\ Anchor(y) = Anchor(u) /\ Own(y) = Own(u)
          /\ ~AfterPay(y) /\ ~AfterPay(u)
      BY <1>10, <2>3 DEF SamePlace, Reviewing, Anchor, Own, Mine, AfterPay
    <3>3. Facts(y, attempts, holds)
      BY <2>3, <3>1, <3>2 DEF Facts, RequestFine, SamePlace, SameMoney
    <3>4. Places(y, holds) /\ Screen(y) /\ ScreenSettled(y) /\ Quit(y) /\ Clears(y, holds)
      BY <2>3, <3>1, <3>2 DEF Places, Screen, ScreenSettled, Quit, Clears, SamePlace, SameMoney, SamePast
    <3>5. Numbers(y, attempts, holds)
      <4>1. /\ Creates(y) = Creates(u)
            /\ \A h \in DOMAIN holds : /\ Held(y, holds, h) <=> Held(u, holds, h)
                                       /\ Heard(y, holds, h) <=> Heard(u, holds, h)
        BY <2>3 DEF Creates, Held, Heard, SamePast
      <4> QED
        BY <2>3, <3>1, <3>2, <4>1 DEF Numbers, Pending, Creates, SamePast
    <3>6. Tags(y, holds) /\ Totals(y, holds)
      BY <2>3, <3>1, <3>2 DEF Tags, Totals, Writing, SamePast, SameMoney, SamePlace
    <3> QED
      BY <3>3, <3>4, <3>5, <3>6 DEF Good, Common
  <2>5. y.paying = c.paying
    BY <1>4, <2>3 DEF SameMoney
  <2> QED
    BY <1>1, <1>2, <2>2, <2>4, <2>5, FinishAtOnce
<1>11. ASSUME (r.what = "picker" /\ u.at # "picker") \/ r.what \notin {"clear", "retry", "picker"}
       PROVE  Kept
  <2>1. c' = u
    BY <1>3, <1>11 DEF CancelAnswer
  <2> QED
    BY <1>1, <1>2, <1>4, <1>5, <2>1, FinishAtOnce DEF SameMoney
<1> QED
  BY <1>8, <1>9, <1>10, <1>11

-----------------------------------------------------------------------------
(* The server.                                                             *)

(* What an answer says is so, and what else becomes of the bookings.       *)
Serves(r, q, hs) ==
  /\ hs \in Seq(HoldType) /\ Len(holds) <= Len(hs) /\ OneLive(hs)
  /\ \A h \in DOMAIN holds :
       /\ hs[h].sel = holds[h].sel /\ hs[h].att = holds[h].att
       /\ holds[h].st = "paid" => hs[h].st = "paid"
       /\ (holds[h].due => hs[h].due) /\ (Live(hs, h) => Live(holds, h))
       /\ \/ hs[h].order = holds[h].order
          \/ r.kind = "create" /\ Live(holds, h) /\ holds[h].order = 0
          \/ r.kind = "write" /\ h = r.h
  /\ \A h \in DOMAIN hs \ DOMAIN holds :
       r.kind = "create" /\ hs[h].sel = r.sel /\ hs[h].att = r.att /\ (Live(hs, h) => q.ans = "ok" /\ q.h = h)
  /\ \A h \in DOMAIN hs : (hs[h].st = "reserved" => ~hs[h].due) /\ hs[h].ver >= 1
  /\ IsRequest(q) /\ q.ans # "sent"
  /\ q.kind = r.kind /\ q.layout = r.layout /\ q.mount = r.mount /\ q.what = r.what /\ q.for = r.for
  /\ q.sel = r.sel /\ q.att = r.att /\ q.again = r.again
  /\ r.kind = "create" =>
       /\ \A h \in DOMAIN hs : Live(hs, h) /\ Key(hs[h]) = Key(r) => q.ans = "ok" /\ h = q.h
       /\ q.ans # "ok" => q.h = 0
       /\ q.ans = "ok" =>
            /\ q.h \in DOMAIN hs /\ hs[q.h].sel = r.sel /\ hs[q.h].att = r.att
            /\ q.copy.id = q.h /\ q.copy.for = r.sel /\ q.copy.st \in {"reserved", "paid"}
            /\ q.copy.st = "paid" => hs[q.h].st = "paid"
            /\ q.copy.order = hs[q.h].order /\ (Live(hs, q.h) => q.copy.order # 0)
  /\ r.kind = "write" =>
       /\ q.h = r.h
       /\ q.ans = "ok" => /\ q.copy.id = q.h /\ q.copy.st # "paid" /\ ~q.copy.old
                          /\ q.copy.order = hs[q.h].order /\ q.copy.order # 0
       /\ r.ans \in {"ok", "failed", "reread"} \/ hs[r.h].order # holds[r.h].order
            => q.ans \in {"ok", "failed", "reread"}
       /\ ~Live(holds, r.h) => hs = holds

Told(x, r, q) == [x EXCEPT !.net = (@ \ {r}) \cup {q}]

LEMMA ToldFacts ==
  ASSUME IsTab(c), NEW r \in c.net, NEW q, IsRequest(q), NEW x, x = Told(c, r, q)
  PROVE  /\ IsTab(x) /\ SamePlace(c, x) /\ SameGate(c, x) /\ SameFace(c, x) /\ SameMoney(c, x) /\ SamePast(c, x)
         /\ x.ctx = c.ctx /\ x.back = c.back /\ x.releasing = c.releasing /\ x.gone = c.gone
         /\ x.stray = c.stray
         /\ x.net = (c.net \ {r}) \cup {q}
<1>1. x = [c EXCEPT !.net = (@ \ {r}) \cup {q}]
  BY DEF Told
<1>2. IsTab(x)
  BY <1>1 DEF IsTab, Fields
<1>3. SamePlace(c, x) /\ SameGate(c, x) /\ SameFace(c, x) /\ SameMoney(c, x) /\ SamePast(c, x)
  BY <1>1 DEF IsTab, Fields, SamePlace, SameGate, SameFace, SameMoney, SamePast
<1> QED
  BY <1>1, <1>2, <1>3 DEF IsTab, Fields

LEMMA ServedIsGood ==
  ASSUME Good(c, attempts, holds), NEW r \in c.net, r.kind = "write" \/ (r.kind = "create" /\ r.ans = "sent"),
         NEW hs, NEW q, Serves(r, q, hs), NEW x, x = Told(c, r, q)
  PROVE  Good(x, attempts, hs) /\ x.paying = c.paying
<1>1. /\ Facts(c, attempts, holds) /\ Places(c, holds) /\ Screen(c) /\ ScreenSettled(c) /\ Quit(c)
      /\ Numbers(c, attempts, holds) /\ Tags(c, holds) /\ Clears(c, holds) /\ Totals(c, holds) /\ IsTab(c)
      /\ attempts \in [Sels -> Nat] /\ holds \in Seq(HoldType) /\ (c.at = "review" => Reviewing(c))
  BY GoodFacts
<1>2. /\ IsTab(x) /\ SamePlace(c, x) /\ SameGate(c, x) /\ SameFace(c, x) /\ SameMoney(c, x) /\ SamePast(c, x)
      /\ x.ctx = c.ctx /\ x.back = c.back /\ x.gone = c.gone /\ x.stray = c.stray
      /\ x.net = (c.net \ {r}) \cup {q}
  BY <1>1, ToldFacts DEF Serves
<1>3. /\ Reviewing(x) <=> Reviewing(c)
      /\ Anchor(x) = Anchor(c) /\ (AfterPay(x) <=> AfterPay(c))
      /\ \A w : Mine(x, w) <=> Mine(c, w)
  BY <1>2 DEF Reviewing, Anchor, AfterPay, Mine, SamePlace, SameMoney
<1>4. Mine(c, q) <=> Mine(c, r)
  BY DEF Mine, Serves
<1>5. /\ Own(x) \subseteq (Own(c) \ {r}) \cup {q} /\ (\A w \in Own(c) : w = r \/ w \in Own(x))
      /\ (r \in Own(c) => q \in Own(x)) /\ (q \in Own(x) => q \in Own(c) \/ r \in Own(c))
  BY <1>2, <1>3, <1>4 DEF Own
<1>6. /\ DOMAIN holds \subseteq DOMAIN hs /\ DOMAIN hs = 1 .. Len(hs) /\ DOMAIN holds = 1 .. Len(holds)
      /\ Len(holds) \in Nat /\ Len(hs) \in Nat /\ Len(holds) <= Len(hs)
  BY <1>1 DEF Serves
<1>7. {x.ctx.id, x.param, x.paying[1], x.back[2]} \subseteq 0 .. Len(holds)
  BY <1>1, <1>2 DEF Facts, SamePlace, SameMoney
<1>8. \A h \in 0 .. Len(holds) : h # 0 => h \in DOMAIN holds
  BY <1>6
<1>9. Facts(x, attempts, hs)
  <2>1. \A w \in c.net : RequestFine(w, x, attempts, hs)
    <3> TAKE w \in c.net
    <3>1. RequestFine(w, c, attempts, holds)
      BY <1>1 DEF Facts
    <3>2. /\ w.kind \in {"create", "check", "write", "cancel"} /\ w.mount <= x.mount
          /\ (Reviewing(x) /\ w.mount = x.mount => w.layout = x.layout)
      BY <1>2, <1>3, <3>1 DEF RequestFine, SamePlace
    <3>3. w.h \in DOMAIN holds => w.h \in DOMAIN hs /\ hs[w.h].sel = holds[w.h].sel /\ hs[w.h].att = holds[w.h].att
                                  /\ (holds[w.h].st = "paid" => hs[w.h].st = "paid")
      BY <1>6 DEF Serves
    <3> QED
      BY <3>1, <3>2, <3>3 DEF RequestFine
  <2>2. RequestFine(q, x, attempts, hs)
    <3>1. RequestFine(r, x, attempts, hs)
      BY <2>1
    <3> QED
      BY <3>1 DEF RequestFine, Serves
  <2>3. \A h \in DOMAIN hs : HoldFine(h, attempts, hs)
    <3> TAKE h \in DOMAIN hs
    <3>1. CASE h \in DOMAIN holds
      BY <1>1, <3>1 DEF Serves, Facts, HoldFine
    <3>2. CASE h \notin DOMAIN holds
      <4>1. r.att <= attemptIn(attempts, r.sel) /\ hs[h].sel = r.sel /\ hs[h].att = r.att
        BY <1>1, <3>2 DEF Serves, Facts, RequestFine
      <4> QED
        BY <4>1 DEF Serves, HoldFine
    <3> QED
      BY <3>1, <3>2
  <2>4. \A h : h \in 0 .. Len(holds) => h \in 0 .. Len(hs)
    BY <1>6
  <2>5. {x.ctx.id, x.param, x.paying[1], x.back[2]} \subseteq 0 .. Len(hs)
    BY <1>7, <2>4
  <2> QED
    BY <1>1, <1>2, <1>6, <2>1, <2>2, <2>3, <2>5 DEF Facts, Serves, SamePlace, SameMoney
<1>10. Places(x, hs)
  BY <1>1, <1>2, <1>3, <1>7, <1>8 DEF Places, Serves, SamePlace, SameMoney, SameGate, SameFace, SamePast
<1>11. Screen(x)
  <2> SUFFICES ASSUME ~x.stray, Reviewing(x) PROVE Screen(x)
    BY DEF Screen
  <2>1. \A v, w \in Own(x) : {v.kind, w.kind} \subseteq {"check", "create"} => v = w
    BY <1>1, <1>2, <1>3, <1>5 DEF Screen, Serves
  <2>2. q \in Own(x) /\ q \notin Own(c) => r \in Own(c)
    BY <1>5
  <2> QED
    BY <1>1, <1>2, <1>3, <1>5, <2>1, <2>2 DEF Screen, Serves, SamePlace, SameMoney, SameGate, SameFace
<1>12. ScreenSettled(x)
  <2>1. (\E w \in Own(c) : w.kind = "create") => \E w \in Own(x) : w.kind = "create"
    BY <1>5 DEF Serves
  <2>2. (\E w \in Own(c) : w.kind = "check") => \E w \in Own(x) : w.kind = "check"
    BY <1>5
  <2> QED
    BY <1>1, <1>2, <1>3, <2>1, <2>2 DEF ScreenSettled, SamePlace, SameGate, SameFace, Waits
<1>13. Quit(x)
  BY <1>1, <1>2, <1>3, <1>5 DEF Quit, SameGate, SameFace, SamePast, Serves
<1>14. Numbers(x, attempts, hs)
  <2> SUFFICES ASSUME ~x.stray, ~x.blind PROVE Numbers(x, attempts, hs)
    BY DEF Numbers
  <2>0. ~c.stray /\ ~c.blind /\ x.loose = c.loose /\ x.sel = c.sel /\ x.err = c.err /\ x.over = c.over
    BY <1>2 DEF SamePast, SamePlace, SameFace
  <2>1. Creates(x) \subseteq Creates(c) \cup {q} /\ (\A w \in Creates(c) : w = r \/ w \in Creates(x))
        /\ (r.kind = "create" => r \in Creates(c) /\ q \in Creates(x)) /\ (q \in Creates(x) => r.kind = "create")
        /\ Key(q) = Key(r)
    BY <1>2 DEF Creates, Serves, Key
  <2>2. \A h \in DOMAIN holds : Key(hs[h]) = Key(holds[h]) /\ hs[h].sel = holds[h].sel /\ hs[h].att = holds[h].att
    BY DEF Serves, Key
  <2>3. \A h \in DOMAIN holds : /\ Held(x, hs, h) => Held(c, holds, h)
                                /\ Live(hs, h) => Live(holds, h)
                                /\ Heard(x, hs, h) => Heard(c, holds, h)
                                /\ Pending(c, holds, h) => Pending(x, hs, h)
    <3> TAKE h \in DOMAIN holds
    <3>1. Held(x, hs, h) => Held(c, holds, h)
      BY <1>2 DEF Held, Serves
    <3>2. Heard(x, hs, h) => Heard(c, holds, h)
      BY <2>0, <2>1, <2>2 DEF Heard, Creates
    <3>3. Pending(c, holds, h) => Pending(x, hs, h)
      BY <2>0, <2>1, <2>2 DEF Pending, Creates
    <3> QED
      BY <3>1, <3>2, <3>3 DEF Serves
  <2>4. \A h \in DOMAIN hs \ DOMAIN holds :
          /\ Key(hs[h]) = Key(r) /\ hs[h].sel = r.sel /\ hs[h].att = r.att /\ r.kind = "create"
          /\ ~Heard(x, hs, h) /\ (Live(hs, h) => Pending(x, hs, h))
    <3> TAKE h \in DOMAIN hs \ DOMAIN holds
    <3>1. /\ r.kind = "create" /\ hs[h].sel = r.sel /\ hs[h].att = r.att /\ Key(hs[h]) = Key(r)
          /\ (Live(hs, h) => q.ans = "ok" /\ q.h = h)
      BY DEF Serves, Key
    <3> QED
      BY <2>1, <3>1 DEF Heard, Pending
  <2>5. \A w \in Creates(x) : w.att = attemptIn(attempts, w.sel)
    BY <1>1, <2>0, <2>1 DEF Numbers, Serves
  <2>6. \A h \in DOMAIN hs : Held(x, hs, h) => hs[h].att = attemptIn(attempts, hs[h].sel)
    <3> SUFFICES ASSUME NEW h \in DOMAIN hs, Held(x, hs, h) PROVE hs[h].att = attemptIn(attempts, hs[h].sel)
      OBVIOUS
    <3>1. CASE h \in DOMAIN holds
      BY <1>1, <2>0, <2>2, <2>3, <3>1 DEF Numbers
    <3>2. CASE h \notin DOMAIN holds
      BY <1>1, <2>0, <2>1, <2>4, <3>2 DEF Numbers
    <3> QED
      BY <3>1, <3>2
  <2>7. \A h \in DOMAIN hs :
          Held(x, hs, h) /\ Heard(x, hs, h) /\ hs[h].sel = Anchor(x)[1] => Anchor(x)[2] \in {0, h}
    BY <1>1, <1>3, <2>0, <2>2, <2>3, <2>4 DEF Numbers
  <2>8. ASSUME NEW w \in Own(x), w.kind = "create", w.ans # "sent", NEW h \in DOMAIN hs, Live(hs, h), Key(hs[h]) = Key(w)
        PROVE  h = w.h \/ Pending(x, hs, h)
    <3>1. CASE w = q
      <4>1. r.kind = "create" /\ Key(hs[h]) = Key(r)
        BY <2>1, <2>8, <3>1 DEF Serves
      <4> QED
        BY <2>8, <3>1, <4>1 DEF Serves
    <3>2. CASE w # q /\ h \in DOMAIN holds
      BY <1>1, <1>5, <2>0, <2>2, <2>3, <2>8, <3>2 DEF Numbers
    <3>3. CASE h \notin DOMAIN holds
      BY <2>4, <2>8, <3>3
    <3> QED
      BY <3>1, <3>2, <3>3
  <2>9. Reviewing(x) /\ (x.err \/ x.over) =>
         \A h \in DOMAIN hs :
           Held(x, hs, h) /\ Key(hs[h]) = <<x.sel, attemptIn(attempts, x.sel)>> => Pending(x, hs, h)
    <3> SUFFICES ASSUME Reviewing(x), x.err \/ x.over, NEW h \in DOMAIN hs, Held(x, hs, h),
                        Key(hs[h]) = <<x.sel, attemptIn(attempts, x.sel)>>
                 PROVE  Pending(x, hs, h)
      OBVIOUS
    <3>1. CASE h \in DOMAIN holds
      BY <1>1, <1>3, <2>0, <2>2, <2>3, <3>1 DEF Numbers
    <3>2. CASE h \notin DOMAIN holds
      BY <2>4, <3>2 DEF Held
    <3> QED
      BY <3>1, <3>2
  <2> QED
    BY <2>5, <2>6, <2>7, <2>8, <2>9 DEF Numbers
<1>15. Tags(x, hs)
  <2>1. \A w \in Writing(c) : w.h \in DOMAIN holds
    BY <1>1 DEF Facts, RequestFine, Writing
  <2>2. \A w \in Writing(x) : w \in Writing(c) \/ (w = q /\ r \in Writing(c) /\ r.kind = "write")
    BY <1>2 DEF Writing, Serves
  <2> QED
    BY <1>1, <1>2, <1>7, <1>8, <2>1, <2>2 DEF Tags, Serves, SamePast
<1>16. Clears(x, hs)
  BY <1>1, <1>2, <1>7, <1>8 DEF Clears, Serves, SamePlace, SameGate
<1>17. Totals(x, hs)
  <2> SUFFICES ASSUME ~x.stray, ~x.crossed PROVE Totals(x, hs)
    BY DEF Totals
  <2>1. ~c.stray /\ ~c.crossed /\ x.paying = c.paying /\ x.pending = c.pending /\ x.at = c.at
    BY <1>2 DEF SameMoney, SamePlace
  <2>2. \A w \in Writing(c) : w.h \in DOMAIN holds /\ (holds[w.h].due => hs[w.h].due)
    BY <1>1 DEF Facts, RequestFine, Writing, Serves
  <2>3. x.ctx.id # 0 => x.ctx.id \in DOMAIN holds
    BY <1>7, <1>8
  <2>4. Reviewing(x) => x.ctx.st # "paid" \/ x.returned
    BY <1>1, <1>2, <1>3, <2>1 DEF Totals, SamePast
  <2>5. CASE r.kind = "create"
    <3>1. Writing(x) = Writing(c)
      BY <1>2, <2>5 DEF Writing, Serves
    <3>2. \A h \in DOMAIN holds :
            /\ hs[h].order = holds[h].order \/ (Live(holds, h) /\ holds[h].order = 0)
            /\ Live(hs, h) => Live(holds, h)
      BY <2>5 DEF Serves
    <3>3. ASSUME NEW w \in Own(x), Reviewing(x), w.kind = "create", w.ans = "ok"
          PROVE  w.copy.order = hs[w.h].order /\ (Live(hs, w.h) => w.copy.order # 0)
      <4>1. CASE w = q
        BY <2>5, <3>3, <4>1 DEF Serves
      <4>2. CASE w # q
        <5>1. w \in Own(c) /\ w.h \in DOMAIN holds
          BY <1>1, <1>5, <3>3, <4>2 DEF Facts, RequestFine, Own
        <5>2. w.copy.order = holds[w.h].order /\ (Live(holds, w.h) => w.copy.order # 0)
          BY <1>1, <1>3, <2>1, <3>3, <5>1 DEF Totals
        <5> QED
          BY <3>2, <5>1, <5>2
      <4> QED
        BY <4>1, <4>2
    <3>4. \A w \in Writing(x) : w.ans = "ok" => w.copy.order = hs[w.h].order /\ w.copy.order # 0
      BY <1>1, <2>1, <2>2, <3>1, <3>2 DEF Totals
    <3>5. /\ Reviewing(x) /\ x.ctx.id # 0 /\ x.ctx.order # 0 /\ ~x.ctx.old =>
               x.ctx.order = hs[x.ctx.id].order
                 \/ \E w \in Writing(x) : w.ans \in {"ok", "failed", "reread"} /\ w.h = x.ctx.id
          /\ AfterPay(x) /\ x.ctx.id # 0 /\ x.ctx.order # 0 /\ ~x.ctx.old =>
               x.ctx.order = hs[x.ctx.id].order
      BY <1>1, <1>2, <1>3, <2>1, <2>3, <3>1, <3>2 DEF Totals
    <3>6. \A w \in Writing(x) :
            /\ Reviewing(x) => Mine(x, w) /\ x.pending = {w.what} /\ (w.h = x.ctx.id \/ hs[w.h].due)
            /\ Reviewing(x) /\ w.what = "order" /\ w.h = x.ctx.id => x.ctx.order = 0
      BY <1>1, <1>2, <1>3, <2>1, <2>2, <3>1 DEF Totals
    <3>7. AfterPay(x) => \A w \in Writing(x) : hs[w.h].due
      BY <1>1, <1>3, <2>1, <2>2, <3>1 DEF Totals
    <3> QED
      BY <1>1, <1>3, <2>1, <2>4, <3>1, <3>3, <3>4, <3>5, <3>6, <3>7 DEF Totals
  <2>6. CASE r.kind = "write"
    <3>1. Writing(c) = {r} /\ Writing(x) = {q} /\ r.h \in DOMAIN holds /\ q.h = r.h /\ q.what = r.what
      BY <1>1, <1>2, <2>1, <2>2, <2>6 DEF Writing, Serves, Totals
    <3>2. x.paying = NoPay /\ x.at # "failed"
      BY <1>1, <2>1, <3>1 DEF Totals
    <3>3. \A h \in DOMAIN holds : h # r.h => hs[h].order = holds[h].order
      BY <2>6 DEF Serves
    <3>4. ASSUME NEW w \in Own(x), Reviewing(x), w.kind = "create", w.ans = "ok"
          PROVE  w.copy.order = hs[w.h].order /\ (Live(hs, w.h) => w.copy.order # 0)
      <4>1. w \in Own(c) /\ Reviewing(c)
        BY <1>3, <1>5, <2>6, <3>4 DEF Serves
      <4>2. c.ctx.id = 0
        BY <1>1, <2>1, <3>4, <4>1 DEF Screen
      <4>3. hs = holds
        <5>1. holds[r.h].due
          BY <1>1, <1>6, <2>1, <3>1, <4>1, <4>2 DEF Totals
        <5> QED
          BY <2>6, <5>1 DEF Serves, Live
      <4> QED
        BY <1>1, <2>1, <3>4, <4>1, <4>3 DEF Totals
    <3>5. /\ Reviewing(x) => Mine(x, q) /\ x.pending = {q.what} /\ (q.h = x.ctx.id \/ hs[q.h].due)
          /\ Reviewing(x) /\ q.what = "order" /\ q.h = x.ctx.id => x.ctx.order = 0
          /\ q.ans = "ok" => q.copy.order = hs[q.h].order /\ q.copy.order # 0
      <4>1. Reviewing(c) => Mine(c, r) /\ c.pending = {r.what} /\ (r.h = c.ctx.id \/ holds[r.h].due)
        BY <1>1, <2>1, <3>1 DEF Totals
      <4>2. Reviewing(c) /\ r.what = "order" /\ r.h = c.ctx.id => c.ctx.order = 0
        BY <1>1, <2>1, <3>1 DEF Totals
      <4>3. q.ans = "ok" => q.copy.order = hs[q.h].order /\ q.copy.order # 0
        BY <2>6 DEF Serves
      <4> QED
        BY <1>2, <1>3, <1>4, <2>1, <2>2, <3>1, <4>1, <4>2, <4>3
    <3>6. Reviewing(x) /\ x.ctx.id # 0 /\ x.ctx.order # 0 /\ ~x.ctx.old =>
            x.ctx.order = hs[x.ctx.id].order
              \/ \E w \in Writing(x) : w.ans \in {"ok", "failed", "reread"} /\ w.h = x.ctx.id
      <4> SUFFICES ASSUME Reviewing(x), x.ctx.id # 0, x.ctx.order # 0, ~x.ctx.old,
                          ~(q.ans \in {"ok", "failed", "reread"} /\ q.h = x.ctx.id)
                   PROVE  x.ctx.order = hs[x.ctx.id].order
        BY <3>1
      <4>1. r.h = x.ctx.id => r.ans \notin {"ok", "failed", "reread"} /\ hs[r.h].order = holds[r.h].order
        BY <2>6, <3>1 DEF Serves
      <4>2. x.ctx.order = holds[x.ctx.id].order
        BY <1>1, <1>2, <1>3, <2>1, <3>1, <4>1 DEF Totals
      <4> QED
        BY <2>3, <3>3, <4>1, <4>2
    <3>7. AfterPay(x) =>
            /\ hs[q.h].due
            /\ x.ctx.id # 0 /\ x.ctx.order # 0 /\ ~x.ctx.old => x.ctx.order = hs[x.ctx.id].order
      <4> SUFFICES ASSUME AfterPay(c)
                   PROVE  /\ hs[q.h].due
                          /\ x.ctx.id # 0 /\ x.ctx.order # 0 /\ ~x.ctx.old => x.ctx.order = hs[x.ctx.id].order
        BY <1>3
      <4>1. holds[r.h].due
        BY <1>1, <2>1, <3>1 DEF Totals
      <4>2. hs = holds
        BY <2>6, <4>1 DEF Serves, Live
      <4>3. c.ctx.id # 0 /\ c.ctx.order # 0 /\ ~c.ctx.old => c.ctx.order = holds[c.ctx.id].order
        BY <1>1, <2>1 DEF Totals
      <4> QED
        BY <1>2, <3>1, <4>1, <4>2, <4>3
    <3> QED
      BY <2>4, <3>1, <3>2, <3>4, <3>5, <3>6, <3>7 DEF Totals
  <2> QED
    BY <2>5, <2>6
<1> QED
  BY <1>2, <1>9, <1>10, <1>11, <1>12, <1>13, <1>14, <1>15, <1>16, <1>17 DEF Good, Common, SameMoney

LEMMA OneChanges ==
  ASSUME holds \in Seq(HoldType), NEW h \in DOMAIN holds, NEW g \in HoldType, NEW hs, hs = [holds EXCEPT ![h] = g]
  PROVE  /\ hs \in Seq(HoldType) /\ Len(hs) = Len(holds) /\ DOMAIN hs = DOMAIN holds /\ hs[h] = g
         /\ \A k \in DOMAIN holds : k # h => hs[k] = holds[k]
OBVIOUS

LEMMA OneMore ==
  ASSUME holds \in Seq(HoldType), NEW g \in HoldType, NEW hs, hs = Append(holds, g)
  PROVE  /\ hs \in Seq(HoldType) /\ Len(hs) = Len(holds) + 1 /\ Len(holds) \in Nat
         /\ DOMAIN hs = DOMAIN holds \cup {Len(hs)} /\ Len(hs) \notin DOMAIN holds
         /\ hs[Len(hs)] = g /\ \A k \in DOMAIN holds : hs[k] = holds[k]
<1>1. /\ hs \in Seq(HoldType) /\ Len(hs) = Len(holds) + 1 /\ Len(holds) \in Nat
      /\ hs[Len(hs)] = g /\ \A k \in DOMAIN holds : hs[k] = holds[k]
  OBVIOUS
<1>2. DOMAIN hs = 1 .. Len(hs) /\ DOMAIN holds = 1 .. Len(holds)
  BY <1>1
<1> QED
  BY <1>1, <1>2

(* What an answer says.                                                    *)
Says(r, q, ans, h, hs) ==
  /\ IsRequest(q) /\ q.ans = ans /\ q.h = h
  /\ q.kind = r.kind /\ q.layout = r.layout /\ q.mount = r.mount /\ q.what = r.what /\ q.for = r.for
  /\ q.sel = r.sel /\ q.att = r.att /\ q.again = r.again
  /\ h # 0 => /\ q.copy.id = h /\ q.copy.for = r.sel /\ q.copy.st = hs[h].st /\ q.copy.order = hs[h].order
              /\ ~q.copy.old

LEMMA ServerSays ==
  ASSUME NEW r, IsRequest(r), NEW ans, NEW h \in Nat, h # 0 => holds'[h] \in HoldType, Server(r, ans, h)
  PROVE  \E q : c' = Told(c, r, q) /\ Says(r, q, ans, h, holds')
<1>1. PICK b : b = IF h = 0 THEN NoBooking
                   ELSE [id |-> h, for |-> r.sel, st |-> holds'[h].st, order |-> holds'[h].order,
                         old |-> FALSE]
  OBVIOUS
<1>2. b \in BookingType
  BY <1>1, NoBookingFacts DEF BookingType, HoldType, IsRequest
<1>3. PICK q : q = [r EXCEPT !.ans = ans, !.h = h, !.copy = b]
  OBVIOUS
<1>4. IsRequest(q)
  BY <1>2, <1>3 DEF IsRequest, RequestFields
<1>5. /\ q.ans = ans /\ q.h = h /\ q.copy = b
      /\ q.kind = r.kind /\ q.layout = r.layout /\ q.mount = r.mount /\ q.what = r.what /\ q.for = r.for
      /\ q.sel = r.sel /\ q.att = r.att /\ q.again = r.again
  BY <1>3 DEF IsRequest, RequestFields
<1>6. h # 0 => /\ q.copy.id = h /\ q.copy.for = r.sel /\ q.copy.st = holds'[h].st /\ q.copy.order = holds'[h].order
               /\ ~q.copy.old
  BY <1>1, <1>5
<1>7. c' = Told(c, r, q)
  BY <1>1, <1>3 DEF Server, Told
<1> QED
  BY <1>4, <1>5, <1>6, <1>7 DEF Says

LEMMA ServedKept ==
  ASSUME Good(c, attempts, holds), NEW r \in c.net, r.ans = "sent", r.kind \in {"create", "write"}, UNCHANGED attempts,
         NEW q, c' = Told(c, r, q), Serves(r, q, holds')
  PROVE  Kept
<1>1. PICK hs : hs = holds'
  OBVIOUS
<1>2. PICK x : x = Told(c, r, q)
  OBVIOUS
<1>3. Good(x, attempts, hs) /\ x.paying = c.paying
  BY <1>1, <1>2, ServedIsGood
<1> QED
  BY <1>1, <1>2, <1>3 DEF Kept, PaysRight

LEMMA ServerCreateKept ==
  ASSUME Good(c, attempts, holds), NEW r \in c.net, ServerCreate(r)
  PROVE  Kept
<1> DEFINE same == {h \in DOMAIN holds : holds[h].sel = r.sel /\ holds[h].att = r.att}
           live == {h \in same : IsLive(h)}
           paid == {h \in same : holds[h].st = "paid"}
<1>1. /\ Facts(c, attempts, holds) /\ IsTab(c) /\ holds \in Seq(HoldType) /\ r.kind = "create" /\ r.ans = "sent"
      /\ attempts' = attempts
  BY GoodFacts DEF ServerCreate
<1>2. /\ IsRequest(r) /\ r.sel \in Sels /\ r.att \in Nat /\ OneLive(holds)
      /\ \A h \in DOMAIN holds : HoldFine(h, attempts, holds) /\ holds[h] \in HoldType
  BY <1>1 DEF Facts, RequestFine, IsTab, IsRequest
<1>3. /\ live = {h \in DOMAIN holds : Live(holds, h) /\ holds[h].sel = r.sel /\ holds[h].att = r.att}
      /\ \A h \in DOMAIN holds : Live(holds, h) /\ Key(holds[h]) = Key(r) => h \in live
      /\ \A g, h \in live : g = h
  <2>1. live = {h \in DOMAIN holds : Live(holds, h) /\ holds[h].sel = r.sel /\ holds[h].att = r.att}
    BY DEF IsLive, Live
  <2>2. \A h \in DOMAIN holds : Live(holds, h) /\ Key(holds[h]) = Key(r) => h \in live
    BY <2>1 DEF Key
  <2>3. \A g, h \in live : g = h
    BY <2>1, <1>2 DEF OneLive
  <2> QED
    BY <2>1, <2>2, <2>3
<1>4. ASSUME NEW h \in live, NEW g \in HoldType, holds' = [holds EXCEPT ![h] = g], NEW ans, NEW k \in {0, h},
             g.sel = r.sel, g.att = r.att, ~g.due, g.ver = holds[h].ver,
             \/ ans = "ok" /\ k = h /\ g.st = "reserved" /\ g.order # 0 /\ (g.order = holds[h].order \/ holds[h].order = 0)
             \/ ans = "failed" /\ k = 0 /\ g.st = "cancelled" /\ g.order = holds[h].order,
             Server(r, ans, k)
      PROVE  Kept
  <2>0. PICK hs : hs = holds'
    OBVIOUS
  <2>1. /\ hs \in Seq(HoldType) /\ Len(hs) = Len(holds) /\ DOMAIN hs = DOMAIN holds /\ hs[h] = g
        /\ \A j \in DOMAIN holds : j # h => hs[j] = holds[j]
    BY <1>1, <1>3, <1>4, <2>0, OneChanges
  <2>2. k \in Nat /\ (k # 0 => hs[k] \in HoldType) /\ h \in DOMAIN holds /\ h # 0
    BY <1>1, <1>3, <1>4, <2>1
  <2>3. PICK q : c' = Told(c, r, q) /\ Says(r, q, ans, k, holds')
    BY <1>2, <1>4, <2>0, <2>2, ServerSays
  <2>4. OneLive(hs)
    BY <1>2, <1>3, <1>4, <2>1 DEF OneLive, Live
  <2>5. \A j \in DOMAIN hs : (hs[j].st = "reserved" => ~hs[j].due) /\ hs[j].ver >= 1
    BY <1>2, <1>4, <2>1, <2>2 DEF HoldFine
  <2>6. \A j \in DOMAIN holds :
       /\ hs[j].sel = holds[j].sel /\ hs[j].att = holds[j].att
       /\ holds[j].st = "paid" => hs[j].st = "paid"
       /\ (holds[j].due => hs[j].due) /\ (Live(hs, j) => Live(holds, j))
       /\ hs[j].order = holds[j].order \/ (Live(holds, j) /\ holds[j].order = 0)
    BY <1>3, <1>4, <2>1, <2>2 DEF Live
  <2>7. \A j \in DOMAIN hs : Live(hs, j) /\ Key(hs[j]) = Key(r) => ans = "ok" /\ j = h
    <3> SUFFICES ASSUME NEW j \in DOMAIN hs, Live(hs, j), Key(hs[j]) = Key(r) PROVE ans = "ok" /\ j = h
      OBVIOUS
    <3>1. Live(holds, j) /\ Key(holds[j]) = Key(r)
      BY <2>1, <2>6 DEF Key
    <3>2. j = h
      BY <1>3, <2>1, <3>1
    <3> QED
      BY <1>4, <2>1, <3>2 DEF Live
  <2>9. Len(holds) <= Len(hs) /\ DOMAIN hs \ DOMAIN holds = {}
    <3>1. Len(holds) \in Nat
      BY <1>1
    <3> QED
      BY <2>1, <3>1
  <2>10. /\ IsRequest(q) /\ q.ans = ans /\ q.h = k /\ ans # "sent"
         /\ q.kind = r.kind /\ q.layout = r.layout /\ q.mount = r.mount /\ q.what = r.what /\ q.for = r.for
         /\ q.sel = r.sel /\ q.att = r.att /\ q.again = r.again
    BY <1>4, <2>3 DEF Says
  <2>11. /\ ans # "ok" => k = 0
         /\ ans = "ok" => /\ k = h /\ k \in DOMAIN hs /\ hs[k].sel = r.sel /\ hs[k].att = r.att
                          /\ q.copy.id = k /\ q.copy.for = r.sel /\ q.copy.st = "reserved"
                          /\ q.copy.order = hs[k].order /\ hs[k].order # 0
    BY <1>4, <2>0, <2>1, <2>2, <2>3 DEF Says
  <2>8. Serves(r, q, hs)
    BY <1>1, <2>1, <2>4, <2>5, <2>6, <2>7, <2>9, <2>10, <2>11 DEF Serves
  <2> QED
    BY <1>1, <2>0, <2>3, <2>8, ServedKept
<1>5. ASSUME live = {}, UNCHANGED holds, NEW ans, NEW k \in Nat,
             \/ ans = "ok" /\ k \in paid
             \/ ans = "refused" /\ k = 0,
             Server(r, ans, k)
      PROVE  Kept
  <2>0. PICK hs : hs = holds'
    OBVIOUS
  <2>1. hs = holds /\ (k # 0 => hs[k] \in HoldType) /\ (ans = "ok" => k # 0)
    BY <1>1, <1>2, <1>5, <2>0
  <2>2. PICK q : c' = Told(c, r, q) /\ Says(r, q, ans, k, holds')
    BY <1>2, <1>5, <2>0, <2>1, ServerSays
  <2>3. \A j \in DOMAIN hs : ~(Live(hs, j) /\ Key(hs[j]) = Key(r))
    BY <1>3, <1>5, <2>1
  <2>4. ans = "ok" => k \in DOMAIN hs /\ hs[k].st = "paid" /\ hs[k].sel = r.sel /\ hs[k].att = r.att /\ ~Live(hs, k)
    BY <1>5, <2>1 DEF Live
  <2>5. Len(holds) \in Nat
    BY <1>1
  <2>6. Serves(r, q, hs)
    BY <1>1, <1>2, <1>5, <2>0, <2>1, <2>2, <2>3, <2>4, <2>5 DEF Serves, Says, HoldFine
  <2> QED
    BY <1>1, <2>0, <2>2, <2>6, ServedKept
<1>6. ASSUME live = {}, NEW st \in {"reserved", "cancelled"}, holds' = Append(holds, NewHold(r, st)),
             NEW ans, NEW k \in Nat,
             \/ ans = "ok" /\ st = "reserved" /\ k = Len(holds) + 1
             \/ ans = "failed" /\ st = "cancelled" /\ k = 0,
             Server(r, ans, k)
      PROVE  Kept
  <2>0. PICK hs : hs = holds'
    OBVIOUS
  <2>1. PICK g : g = NewHold(r, st)
    OBVIOUS
  <2>2. /\ g \in HoldType /\ g.sel = r.sel /\ g.att = r.att /\ g.st = st /\ ~g.due /\ g.ver = 1 /\ g.order = 1
    BY <1>2, <1>6, <2>1 DEF NewHold, HoldType, Statuses
  <2>3. /\ hs \in Seq(HoldType) /\ Len(hs) = Len(holds) + 1 /\ Len(holds) \in Nat
        /\ DOMAIN hs = DOMAIN holds \cup {Len(hs)} /\ Len(hs) \notin DOMAIN holds
        /\ hs[Len(hs)] = g /\ \A j \in DOMAIN holds : hs[j] = holds[j]
    BY <1>1, <1>6, <2>0, <2>1, <2>2, OneMore
  <2>4. k # 0 => hs[k] \in HoldType
    BY <1>6, <2>2, <2>3
  <2>5. PICK q : c' = Told(c, r, q) /\ Says(r, q, ans, k, holds')
    BY <1>2, <1>6, <2>0, <2>4, ServerSays
  <2>6. \A j \in DOMAIN holds : ~(Live(hs, j) /\ hs[j].sel = r.sel /\ hs[j].att = r.att)
    BY <1>3, <1>6, <2>3 DEF Live
  <2>7. OneLive(hs)
    BY <1>2, <2>2, <2>3, <2>6 DEF OneLive, Live
  <2>8. \A j \in DOMAIN hs : (hs[j].st = "reserved" => ~hs[j].due) /\ hs[j].ver >= 1
    BY <1>2, <2>2, <2>3 DEF HoldFine
  <2>9. \A j \in DOMAIN hs \ DOMAIN holds :
          hs[j].sel = r.sel /\ hs[j].att = r.att /\ (Live(hs, j) => ans = "ok" /\ k = j)
    BY <1>6, <2>2, <2>3 DEF Live
  <2>10. \A j \in DOMAIN hs : Live(hs, j) /\ Key(hs[j]) = Key(r) => ans = "ok" /\ j = k
    BY <2>3, <2>6, <2>9 DEF Key
  <2>11. ans = "ok" => k \in DOMAIN hs /\ hs[k].sel = r.sel /\ hs[k].att = r.att /\ hs[k].st = "reserved" /\ hs[k].order = 1 /\ k # 0
    BY <1>6, <2>2, <2>3
  <2>12. Len(holds) <= Len(hs)
    BY <2>3
  <2>13. Serves(r, q, hs)
    BY <1>1, <1>2, <1>6, <2>0, <2>3, <2>5, <2>7, <2>8, <2>9, <2>10, <2>11, <2>12 DEF Serves, Says, Live
  <2> QED
    BY <1>1, <2>0, <2>5, <2>13, ServedKept
<1>7. ASSUME NEW h \in live,
             \/ /\ holds' = [holds EXCEPT ![h].order = IF @ = 0 THEN holds[h].ver ELSE @]
                /\ Server(r, "ok", h)
             \/ /\ holds[h].order = 0 /\ holds' = [holds EXCEPT ![h].st = "cancelled"] /\ Server(r, "failed", 0)
      PROVE  Kept
  <2>1. /\ h \in DOMAIN holds /\ holds[h] \in HoldType /\ holds[h].sel = r.sel /\ holds[h].att = r.att
        /\ holds[h].st = "reserved" /\ ~holds[h].due /\ holds[h].ver >= 1
    BY <1>2, <1>3 DEF Live, HoldFine
  <2>2. CASE holds' = [holds EXCEPT ![h].order = IF @ = 0 THEN holds[h].ver ELSE @] /\ Server(r, "ok", h)
    <3>1. PICK n : n = IF holds[h].order = 0 THEN holds[h].ver ELSE holds[h].order
      OBVIOUS
    <3>2. n \in Nat /\ n # 0 /\ (n = holds[h].order \/ holds[h].order = 0)
      BY <2>1, <3>1 DEF HoldType
    <3>3. PICK g : g = [holds[h] EXCEPT !.order = n]
      OBVIOUS
    <3>4. g \in HoldType /\ g.sel = r.sel /\ g.att = r.att /\ ~g.due /\ g.ver = holds[h].ver /\ g.st = "reserved" /\ g.order = n
      BY <2>1, <3>2, <3>3 DEF HoldType
    <3>5. holds' = [holds EXCEPT ![h] = g]
      BY <2>2, <3>1, <3>3
    <3>6. h \in {0, h} /\ "ok" = "ok"
      OBVIOUS
    <3> QED
      BY <1>4, <2>2, <3>2, <3>4, <3>5, <3>6
  <2>3. CASE holds[h].order = 0 /\ holds' = [holds EXCEPT ![h].st = "cancelled"] /\ Server(r, "failed", 0)
    <3>1. PICK g : g = [holds[h] EXCEPT !.st = "cancelled"]
      OBVIOUS
    <3>2. g \in HoldType /\ g.sel = r.sel /\ g.att = r.att /\ ~g.due /\ g.ver = holds[h].ver /\ g.st = "cancelled"
          /\ g.order = holds[h].order
      BY <2>1, <3>1 DEF HoldType, Statuses
    <3>3. holds' = [holds EXCEPT ![h] = g]
      BY <2>3, <3>1
    <3> QED
      BY <1>4, <2>3, <3>2, <3>3
  <2> QED
    BY <1>7, <2>2, <2>3
<1>8. \/ \E h \in live :
           \/ /\ holds' = [holds EXCEPT ![h].order = IF @ = 0 THEN holds[h].ver ELSE @]
              /\ Server(r, "ok", h)
           \/ /\ holds[h].order = 0 /\ holds' = [holds EXCEPT ![h].st = "cancelled"] /\ Server(r, "failed", 0)
      \/ \E h \in paid : live = {} /\ UNCHANGED holds /\ Server(r, "ok", h)
      \/ live = {} /\ holds' = Append(holds, NewHold(r, "reserved")) /\ Server(r, "ok", Len(holds) + 1)
      \/ live = {} /\ holds' = Append(holds, NewHold(r, "cancelled")) /\ Server(r, "failed", 0)
      \/ live = {} /\ UNCHANGED holds /\ Server(r, "refused", 0)
  BY DEF ServerCreate
<1>9. paid \subseteq Nat /\ Len(holds) + 1 \in Nat
  BY <1>1
<1> HIDE DEF same, live, paid
<1> QED
  BY <1>5, <1>6, <1>7, <1>8, <1>9

LEMMA ServerWriteKept ==
  ASSUME Good(c, attempts, holds), NEW r \in c.net, ServerWrite(r)
  PROVE  Kept
<1>1. /\ Facts(c, attempts, holds) /\ IsTab(c) /\ holds \in Seq(HoldType) /\ r.kind = "write" /\ r.ans = "sent"
      /\ attempts' = attempts
  BY GoodFacts DEF ServerWrite
<1>2. /\ IsRequest(r) /\ r.h \in DOMAIN holds /\ r.h \in Nat /\ r.h # 0 /\ OneLive(holds)
      /\ \A h \in DOMAIN holds : HoldFine(h, attempts, holds) /\ holds[h] \in HoldType
  BY <1>1 DEF Facts, RequestFine, IsTab, IsRequest
<1>3. PICK ver : ver = holds[r.h].ver + (IF r.what = "order" THEN 0 ELSE 1)
  OBVIOUS
<1>4. ver \in Nat /\ ver >= 1
  BY <1>2, <1>3 DEF HoldType, HoldFine
<1>5. ASSUME holds[r.h].st = "reserved", NEW ans, NEW order \in {0, ver},
             holds' = [holds EXCEPT ![r.h].ver = ver, ![r.h].order = order],
             (ans = "ok" /\ order = ver) \/ ans = "failed", Server(r, ans, r.h)
      PROVE  Kept
  <2>0. PICK hs : hs = holds'
    OBVIOUS
  <2>1. PICK g : g = [holds[r.h] EXCEPT !.ver = ver, !.order = order]
    OBVIOUS
  <2>2. /\ g \in HoldType /\ g.sel = holds[r.h].sel /\ g.att = holds[r.h].att /\ g.st = "reserved"
        /\ g.due = holds[r.h].due /\ g.ver = ver /\ g.order = order
    BY <1>2, <1>4, <1>5, <2>1 DEF HoldType
  <2>3. hs = [holds EXCEPT ![r.h] = g]
    BY <1>1, <1>2, <1>5, <2>0, <2>1
  <2>4. /\ hs \in Seq(HoldType) /\ Len(hs) = Len(holds) /\ DOMAIN hs = DOMAIN holds /\ hs[r.h] = g
        /\ \A j \in DOMAIN holds : j # r.h => hs[j] = holds[j]
    BY <1>1, <1>2, <2>2, <2>3, OneChanges
  <2>5. PICK q : c' = Told(c, r, q) /\ Says(r, q, ans, r.h, holds')
    BY <1>2, <1>5, <2>0, <2>2, <2>4, ServerSays
  <2>6. \A j \in DOMAIN hs : /\ hs[j].sel = holds[j].sel /\ hs[j].att = holds[j].att
                             /\ hs[j].st = holds[j].st /\ hs[j].due = holds[j].due /\ hs[j].ver >= 1
                             /\ (j # r.h => hs[j].order = holds[j].order)
    BY <1>2, <1>4, <1>5, <2>2, <2>4 DEF HoldFine
  <2>7. OneLive(hs)
    BY <1>2, <2>4, <2>6 DEF OneLive, Live
  <2>8. Len(holds) <= Len(hs) /\ DOMAIN hs \ DOMAIN holds = {}
    <3>1. Len(holds) \in Nat
      BY <1>1
    <3> QED
      BY <2>4, <3>1
  <2>9. /\ IsRequest(q) /\ q.ans = ans /\ q.h = r.h /\ ans \in {"ok", "failed"}
        /\ q.kind = r.kind /\ q.layout = r.layout /\ q.mount = r.mount /\ q.what = r.what /\ q.for = r.for
        /\ q.sel = r.sel /\ q.att = r.att /\ q.again = r.again
        /\ q.copy.id = r.h /\ q.copy.order = hs[r.h].order /\ q.copy.st # "paid" /\ ~q.copy.old
    BY <1>2, <1>5, <2>0, <2>2, <2>4, <2>5 DEF Says
  <2>10. ans = "ok" => hs[r.h].order # 0
    BY <1>4, <1>5, <2>2, <2>4
  <2>11. Live(holds, r.h)
    BY <1>2, <1>5 DEF Live, HoldFine
  <2>12. Serves(r, q, hs)
    <3>1. \A j \in DOMAIN holds :
       /\ hs[j].sel = holds[j].sel /\ hs[j].att = holds[j].att
       /\ holds[j].st = "paid" => hs[j].st = "paid"
       /\ (holds[j].due => hs[j].due) /\ (Live(hs, j) => Live(holds, j))
       /\ hs[j].order = holds[j].order \/ (r.kind = "write" /\ j = r.h)
      BY <1>1, <2>4, <2>6 DEF Live
    <3>2. \A j \in DOMAIN hs : (hs[j].st = "reserved" => ~hs[j].due) /\ hs[j].ver >= 1
      BY <1>2, <2>4, <2>6 DEF HoldFine
    <3> QED
      BY <1>1, <2>4, <2>7, <2>8, <2>9, <2>10, <2>11, <3>1, <3>2 DEF Serves
  <2> QED
    BY <1>1, <2>0, <2>5, <2>12, ServedKept
<1>6. ASSUME holds[r.h].st # "reserved", UNCHANGED holds, Server(r, "refused", r.h)
      PROVE  Kept
  <2>0. PICK hs : hs = holds'
    OBVIOUS
  <2>1. hs = holds /\ ~Live(hs, r.h) /\ hs[r.h] \in HoldType /\ Len(holds) \in Nat
    BY <1>1, <1>2, <1>6, <2>0 DEF Live
  <2>2. PICK q : c' = Told(c, r, q) /\ Says(r, q, "refused", r.h, holds')
    BY <1>2, <1>6, <2>0, <2>1, ServerSays
  <2>3. Serves(r, q, hs)
    BY <1>1, <1>2, <2>0, <2>1, <2>2 DEF Serves, Says, HoldFine
  <2> QED
    BY <1>1, <2>0, <2>2, <2>3, ServedKept
<1>7. \/ /\ holds[r.h].st = "reserved" /\ holds' = [holds EXCEPT ![r.h].ver = ver, ![r.h].order = ver]
         /\ Server(r, "ok", r.h)
      \/ /\ holds[r.h].st = "reserved" /\ holds' = [holds EXCEPT ![r.h].ver = ver, ![r.h].order = 0]
         /\ Server(r, "failed", r.h)
      \/ holds[r.h].st # "reserved" /\ UNCHANGED holds /\ Server(r, "refused", r.h)
  BY <1>3 DEF ServerWrite
<1> QED
  BY <1>5, <1>6, <1>7

-----------------------------------------------------------------------------
(* Answers to a write, and what never answers.                             *)

(* What tells of the life of a tab, but for a paid booking that returned.  *)
SameLife(x, y) ==
  /\ y.quit = x.quit /\ y.opened = x.opened /\ y.foreign = x.foreign /\ y.loose = x.loose /\ y.blind = x.blind

(* The same booking, which may have become outdated.                       *)
SameBooking(b, d) ==
  d.id = b.id /\ d.for = b.for /\ d.st = b.st /\ d.order = b.order /\ (b.old => d.old)

(* A write is over: the order in context is the booking's, or nothing was  *)
(* said of it.                                                             *)
LEMMA WriteOver ==
  ASSUME Good(c, attempts, holds), NEW r \in c.net, r.kind = "write",
         NEW x, IsTab(x), SamePlace(c, x), SameGate(c, x), SameFace(c, x), SameLife(c, x),
         x.back = c.back, x.gone = c.gone, x.net = c.net \ {r},
         c.stray => x.stray, c.crossed => x.crossed, c.returned => x.returned,
         SameBooking(c.ctx, x.ctx) \/ (x.ctx.id = r.h /\ x.ctx.for \in {None, r.for}),
         x.paying = c.paying \/ (x.paying[1] = r.h /\ x.paying # NoPay),
         ~x.stray => SameBooking(c.ctx, x.ctx) \/ (Mine(c, r) /\ r.h \notin c.gone),
         ~x.stray => x.paying = c.paying \/ (Mine(c, r) /\ r.h \notin c.gone),
         ~x.stray /\ ~x.crossed =>
           \/ SameBooking(c.ctx, x.ctx)
              /\ (~Mine(c, r) \/ r.ans \notin {"ok", "failed", "reread"} \/ r.what = "order"
                    \/ r.h # c.ctx.id \/ x.ctx.old)
           \/ x.ctx.id = r.h /\ x.ctx.order = holds[r.h].order /\ (x.ctx.st # "paid" \/ x.returned)
  PROVE  Ready(x, attempts, holds)
<1>1. /\ Facts(c, attempts, holds) /\ Places(c, holds) /\ Screen(c) /\ ScreenSettled(c) /\ Quit(c)
      /\ Numbers(c, attempts, holds) /\ Tags(c, holds) /\ Totals(c, holds) /\ IsTab(c)
      /\ attempts \in [Sels -> Nat] /\ holds \in Seq(HoldType) /\ (c.at = "review" => Reviewing(c))
  BY GoodFacts
<1>2. r.h \in DOMAIN holds /\ r.h \in 0 .. Len(holds) /\ r.h # 0
  BY <1>1 DEF Facts, RequestFine
<1>3. /\ Reviewing(x) <=> Reviewing(c)
      /\ Anchor(x) = Anchor(c) /\ \A q : Mine(x, q) <=> Mine(c, q)
  BY DEF Reviewing, Anchor, Mine, SamePlace
<1>4. /\ Own(x) \subseteq Own(c) /\ (\A q \in Own(c) : q.kind # "write" => q \in Own(x))
      /\ Creates(x) = Creates(c) /\ Writing(x) = Writing(c) \ {r} /\ r \in Writing(c)
  BY <1>3 DEF Own, Creates, Writing
<1>5. Facts(x, attempts, holds)
  <2>1. x.ctx.id \in 0 .. Len(holds) /\ x.param \in 0 .. Len(holds) /\ x.paying[1] \in 0 .. Len(holds)
    BY <1>1, <1>2 DEF Facts, SamePlace, SameBooking
  <2>2. /\ x.mount = c.mount /\ (Reviewing(x) => Reviewing(c) /\ x.layout = c.layout)
        /\ (x.at = "review" => x.mount # 0)
        /\ (x.at \in {"failed", "confirmation"} => x.param # 0)
        /\ (x.paying # NoPay => x.paying[1] # 0)
    BY <1>1, <1>2 DEF Facts, SamePlace, Reviewing
  <2>3. Later(attempts)
    BY <1>1 DEF Later, attemptIn
  <2> QED
    BY <1>1, <2>1, <2>2, <2>3, FactsKept
<1>6. Tags(x, holds)
  BY <1>1, <1>2, <1>4 DEF Tags, Writing, SameLife, SameBooking
<1>7. CASE x.stray
  BY <1>5, <1>6, <1>7, StrayIsReady
<1>8. CASE ~x.stray
  <2>1. ~c.stray
    BY <1>8
  <2>2. Mine(c, r) /\ r.h \notin c.gone => /\ Reviewing(c) /\ r.h = c.ctx.id /\ r.h = c.param /\ holds[r.h].sel = c.sel
                                           /\ c.ctx.for \in {None, c.sel} /\ r.for \in {None, c.sel}
    <3> SUFFICES ASSUME Mine(c, r), r.h \notin c.gone
                 PROVE  /\ Reviewing(c) /\ r.h = c.ctx.id /\ r.h = c.param /\ holds[r.h].sel = c.sel
                        /\ c.ctx.for \in {None, c.sel} /\ r.for \in {None, c.sel}
      OBVIOUS
    <3>1. Reviewing(c) /\ r.h = c.ctx.id
      BY <1>1, <2>1 DEF Screen, Own, Mine
    <3>2. r.h = c.param /\ c.ctx.for \in {None, c.sel} /\ ~c.foreign
      BY <1>1, <1>2, <2>1, <3>1 DEF Places
    <3>3. holds[r.h].sel = c.sel
      BY <1>1, <1>2, <2>1, <3>1, <3>2 DEF Places
    <3>4. r.for \in {None, c.sel}
      BY <1>1, <1>4, <3>2, <3>3 DEF Tags
    <3> QED
      BY <3>1, <3>2, <3>3, <3>4
  <2>3. \/ SameBooking(c.ctx, x.ctx)
        \/ Reviewing(c) /\ x.ctx.id = c.ctx.id /\ x.ctx.for \in {None, c.sel} /\ c.ctx.id # 0
    BY <1>2, <1>8, <2>2
  <2>4. \/ x.paying = c.paying
        \/ Reviewing(c) /\ x.paying[1] = c.param /\ c.ctx.id # 0
    BY <1>2, <1>8, <2>2
  <2>5. AfterPay(x) => AfterPay(c) /\ SameBooking(c.ctx, x.ctx)
    BY <2>3, <2>4 DEF AfterPay, SamePlace, Reviewing
  <2>6. x.ctx.id = c.ctx.id
    BY <2>3 DEF SameBooking
  <2>7. Places(x, holds)
    <3>1. /\ ~x.foreign /\ x.back = c.back /\ x.at = c.at /\ x.param = c.param /\ x.sel = c.sel
          /\ x.fromList = c.fromList /\ x.over = c.over /\ x.clearing = c.clearing /\ x.retrying = c.retrying
      BY <1>1, <2>1 DEF Places, SameLife, SamePlace, SameGate, SameFace
    <3>2. Reviewing(c) => c.at = "review" /\ c.sel # None /\ Anchor(c)[2] = c.param
      BY DEF Reviewing, Anchor
    <3>3. x.at = "confirmation" /\ x.paying # NoPay => AfterPay(x)
      BY DEF AfterPay
    <3> QED
      BY <1>1, <1>3, <2>1, <2>3, <2>4, <2>5, <2>6, <3>1, <3>2 DEF Places, SameBooking
  <2>8. Screen(x)
    BY <1>1, <1>3, <1>4, <2>1, <2>4, <2>6 DEF Screen, SamePlace, SameGate, SameFace
  <2>9. Quit(x)
    BY <1>1, <1>3, <1>4, <2>1, <2>6 DEF Quit, SameGate, SameFace, SameLife
  <2>10. Numbers(x, attempts, holds)
    <3>1. \A h \in DOMAIN holds : /\ Held(x, holds, h) <=> Held(c, holds, h)
                                  /\ Heard(x, holds, h) <=> Heard(c, holds, h)
                                  /\ Pending(x, holds, h) <=> Pending(c, holds, h)
      BY <1>4 DEF Held, Heard, Pending, SameLife
    <3> QED
      BY <1>1, <1>3, <1>4, <2>1, <3>1 DEF Numbers, SamePlace, SameFace, SameLife
  <2>11. Totals(x, holds)
    <3> SUFFICES ASSUME ~x.crossed PROVE Totals(x, holds)
      BY DEF Totals
    <3>0. ~x.crossed
      OBVIOUS
    <3>1. ~c.crossed /\ Writing(c) = {r} /\ Writing(x) = {}
      BY <1>1, <1>4, <2>1 DEF Totals
    <3>2. Reviewing(c) => Mine(c, r) /\ (r.what = "order" /\ r.h = c.ctx.id => c.ctx.order = 0)
      BY <1>1, <2>1, <3>1 DEF Totals
    <3>3. AfterPay(x) /\ x.ctx.id # 0 /\ x.ctx.order # 0 /\ ~x.ctx.old =>
            x.ctx.order = holds[x.ctx.id].order
      BY <1>1, <2>1, <2>5, <3>1 DEF Totals, SameBooking
    <3>4. ASSUME Reviewing(x), x.ctx.id # 0, x.ctx.order # 0, ~x.ctx.old
          PROVE  x.ctx.order = holds[x.ctx.id].order
      <4>1. Reviewing(c) /\ Mine(c, r)
        BY <1>3, <3>2, <3>4
      <4>2. SameBooking(c.ctx, x.ctx) =>
              c.ctx.order = holds[c.ctx.id].order \/ (r.ans \in {"ok", "failed", "reread"} /\ r.h = c.ctx.id)
        BY <1>1, <2>1, <3>1, <3>4, <4>1 DEF Totals, SameBooking
      <4>3. CASE SameBooking(c.ctx, x.ctx)
                 /\ (~Mine(c, r) \/ r.ans \notin {"ok", "failed", "reread"} \/ r.what = "order"
                       \/ r.h # c.ctx.id \/ x.ctx.old)
        BY <3>2, <3>4, <4>1, <4>2, <4>3 DEF SameBooking
      <4>4. CASE x.ctx.id = r.h /\ x.ctx.order = holds[r.h].order
        BY <4>4
      <4> QED
        BY <1>8, <3>0, <4>3, <4>4
    <3>5. \A q \in Own(x) : q.kind = "create" => q \in Own(c)
      BY <1>4
    <3>6. Reviewing(x) => x.ctx.st # "paid" \/ x.returned
      BY <1>1, <1>3, <1>8, <2>1, <3>0, <3>1 DEF Totals, SameBooking
    <3> QED
      BY <1>1, <1>3, <2>1, <2>5, <3>1, <3>3, <3>4, <3>5, <3>6 DEF Totals
  <2>12. ScreenReady(x)
    <3>1. x.at = "picker" => x.ctx.id = 0
      BY <1>1, <2>1, <2>6 DEF ScreenSettled, SamePlace
    <3>2. Reviewing(x) => ~Asks(x)
      BY <1>1, <1>3, <2>1, <2>6 DEF Asks, ScreenSettled, SamePlace, SameGate, Reviewing
    <3>3. Reviewing(x) /\ ~x.checked => \E q \in Own(x) : q.kind = "check"
      BY <1>1, <1>3, <1>4, <2>1, <3>2 DEF ScreenSettled, SameGate, Reviewing
    <3> QED
      BY <1>1, <1>3, <1>4, <2>1, <2>6, <3>1, <3>2, <3>3 DEF ScreenReady, ScreenSettled, Waits, Asks, SameGate, SameFace, SamePlace
  <2> QED
    BY <1>5, <1>6, <2>7, <2>8, <2>9, <2>10, <2>11, <2>12 DEF Ready, Common
<1> QED
  BY <1>7, <1>8

(* The write is taken off the marks of the screen that asked.              *)
LEMMA WriteDoneFacts ==
  ASSUME NEW x, IsTab(x), NEW r, NEW y, y = WriteDone(x, r)
  PROVE  /\ IsTab(y) /\ SamePlace(x, y) /\ SameGate(x, y) /\ SameFace(x, y) /\ SamePast(x, y)
         /\ y.ctx = x.ctx /\ y.back = x.back /\ y.gone = x.gone /\ y.stray = x.stray /\ y.net = x.net
         /\ y.paying = x.paying /\ y.crossed = x.crossed
<1>1. PICK p : p = IF Mine(x, r) THEN x.pending \ {r.what} ELSE x.pending
  OBVIOUS
<1>2. y = [x EXCEPT !.pending = p]
  BY <1>1 DEF WriteDone
<1>3. IsTab(y)
  BY <1>2 DEF IsTab, Fields
<1>4. SamePlace(x, y) /\ SameGate(x, y) /\ SameFace(x, y) /\ SamePast(x, y)
  BY <1>2 DEF IsTab, Fields, SamePlace, SameGate, SameFace, SamePast
<1> QED
  BY <1>2, <1>3, <1>4 DEF IsTab, Fields

LEMMA OutdatedFacts ==
  ASSUME NEW x, IsTab(x), NEW r, NEW y, y = Outdated(x, r)
  PROVE  /\ IsTab(y) /\ SamePlace(x, y) /\ SameGate(x, y) /\ SameFace(x, y) /\ SameMoney(x, y) /\ SamePast(x, y)
         /\ SameBooking(x.ctx, y.ctx) /\ (Provided(x, r) /\ x.ctx.id = r.h => y.ctx.old)
         /\ y.back = x.back /\ y.gone = x.gone /\ y.stray = x.stray /\ y.net = x.net
<1>1. PICK p \in BOOLEAN : p = (x.ctx.old \/ (Provided(x, r) /\ x.ctx.id = r.h))
  OBVIOUS
<1>2. PICK b : b = [x.ctx EXCEPT !.old = p]
  OBVIOUS
<1>3. b \in BookingType /\ SameBooking(x.ctx, b) /\ b.old = p
  BY <1>1, <1>2 DEF IsTab, BookingType, SameBooking
<1>4. y = [x EXCEPT !.ctx = b]
  BY <1>1, <1>2 DEF Outdated, IsTab, Fields
<1>5. IsTab(y)
  BY <1>3, <1>4 DEF IsTab, Fields
<1>6. SamePlace(x, y) /\ SameGate(x, y) /\ SameFace(x, y) /\ SameMoney(x, y) /\ SamePast(x, y)
  BY <1>4 DEF IsTab, Fields, SamePlace, SameGate, SameFace, SameMoney, SamePast
<1> QED
  BY <1>1, <1>3, <1>4, <1>5, <1>6 DEF IsTab, Fields

LEMMA WriteAnsweredFacts ==
  ASSUME Good(c, attempts, holds), NEW r \in c.net, r.kind = "write", NEW u, u = Answered(r), NEW w, w = WriteDone(u, r)
  PROVE  /\ IsTab(u) /\ u.ctx = c.ctx /\ SamePlace(c, u) /\ (Provided(u, r) <=> Provided(c, r))
         /\ IsTab(w) /\ SamePlace(c, w) /\ SameGate(c, w) /\ SameFace(c, w) /\ SamePast(c, w)
         /\ w.ctx = c.ctx /\ w.back = c.back /\ w.gone = c.gone /\ w.stray = c.stray
         /\ w.net = c.net \ {r} /\ w.paying = c.paying /\ w.crossed = c.crossed
         /\ r.h \in DOMAIN holds /\ r.h \in Nat /\ r.h # 0 /\ r.for \in Tickets /\ r.copy \in BookingType
         /\ (r.ans = "ok" => r.copy.id = r.h) /\ r.what \in Writes
         /\ (Mine(c, r) => Provided(c, r) /\ Alive(r) /\ Reviewing(c))
<1>1. Facts(c, attempts, holds) /\ IsTab(c) /\ holds \in Seq(HoldType) /\ (c.at = "review" => Reviewing(c))
  BY GoodFacts
<1>2. /\ IsTab(u) /\ SamePlace(c, u) /\ SameGate(c, u) /\ SameFace(c, u) /\ SameMoney(c, u)
      /\ u.ctx = c.ctx /\ u.back = c.back /\ u.gone = c.gone /\ u.stray = c.stray
      /\ u.quit = c.quit /\ u.opened = c.opened /\ u.returned = c.returned /\ u.foreign = c.foreign
      /\ u.blind = c.blind
      /\ u.net = c.net \ {r} /\ u.loose = c.loose
  BY <1>1, AnsweredFacts
<1>3. /\ IsTab(w) /\ SamePlace(u, w) /\ SameGate(u, w) /\ SameFace(u, w) /\ SamePast(u, w)
      /\ w.ctx = u.ctx /\ w.back = u.back /\ w.gone = u.gone /\ w.stray = u.stray /\ w.net = u.net
      /\ w.paying = u.paying /\ w.crossed = u.crossed
  BY <1>2, WriteDoneFacts
<1>4. SamePlace(c, w) /\ SameGate(c, w) /\ SameFace(c, w) /\ SamePast(c, w)
  BY <1>2, <1>3 DEF SamePlace, SameGate, SameFace, SamePast
<1>5. Provided(u, r) <=> Provided(c, r)
  BY <1>2 DEF Provided, SamePlace
<1>6. RequestFine(r, c, attempts, holds) /\ IsRequest(r)
  BY <1>1 DEF Facts, IsTab
<1>7. /\ r.h \in DOMAIN holds /\ r.h \in Nat /\ r.h # 0 /\ r.for \in Tickets /\ r.copy \in BookingType
      /\ (r.ans = "ok" => r.copy.id = r.h) /\ r.what \in Writes
  BY <1>1, <1>6 DEF RequestFine, IsRequest
<1>8. Mine(c, r) => Provided(c, r) /\ Alive(r) /\ Reviewing(c)
  BY <1>1, <1>6 DEF RequestFine, Mine, Provided, Alive, Facts
<1> QED
  BY <1>2, <1>3, <1>4, <1>5, <1>7, <1>8 DEF SameMoney

(* Nothing is shown of an answer that says nothing, of one to a repair, or *)
(* of one that never came.                                                 *)
LEMMA WriteUnsaid ==
  ASSUME Good(c, attempts, holds), NEW r \in c.net, r.kind = "write", UNCHANGED <<attempts, holds>>,
         NEW w, w = WriteDone(Answered(r), r),
         NEW x, IsTab(x), x = w \/ x = [w EXCEPT !.crossed = x.crossed], c.crossed => x.crossed,
         c' = Settle(x, attempts),
         x.crossed \/ ~Mine(c, r) \/ r.ans \notin {"ok", "failed", "reread"} \/ r.what = "order"
  PROVE  Kept
<1>2. /\ IsTab(w) /\ SamePlace(c, w) /\ SameGate(c, w) /\ SameFace(c, w) /\ SamePast(c, w)
      /\ w.ctx = c.ctx /\ w.back = c.back /\ w.gone = c.gone /\ w.stray = c.stray
      /\ w.net = c.net \ {r} /\ w.paying = c.paying
  BY WriteAnsweredFacts
<1>3. /\ SamePlace(w, x) /\ SameGate(w, x) /\ SameFace(w, x) /\ SamePast(w, x)
      /\ x.ctx = w.ctx /\ x.back = w.back /\ x.gone = w.gone /\ x.stray = w.stray
      /\ x.net = w.net /\ x.paying = w.paying
  <2>1. CASE x = w
    BY <2>1 DEF SamePlace, SameGate, SameFace, SamePast
  <2>2. CASE x = [w EXCEPT !.crossed = x.crossed]
    BY <1>2, <2>2 DEF IsTab, Fields, SamePlace, SameGate, SameFace, SamePast
  <2> QED
    BY <2>1, <2>2
<1>4. SamePlace(c, x) /\ SameGate(c, x) /\ SameFace(c, x) /\ SameLife(c, x) /\ x.returned = c.returned
  BY <1>2, <1>3 DEF SamePlace, SameGate, SameFace, SamePast, SameLife
<1>5. SameBooking(c.ctx, x.ctx)
  BY <1>2, <1>3 DEF SameBooking
<1>6. Ready(x, attempts, holds)
  BY <1>2, <1>3, <1>4, <1>5, WriteOver
<1> QED
  BY <1>2, <1>3, <1>6, Finish, GoodFacts, SameHoldsFacts

(* The booking shown is known, to nobody but the reader, to be outdated.   *)
LEMMA WriteOutdated ==
  ASSUME Good(c, attempts, holds), NEW r \in c.net, r.kind = "write", UNCHANGED <<attempts, holds>>,
         c' = Settle(WriteDone(Outdated(Answered(r), r), r), attempts)
  PROVE  Kept
<1>1. PICK u : u = Answered(r)
  OBVIOUS
<1>2. PICK o : o = Outdated(u, r)
  OBVIOUS
<1>3. PICK x : x = WriteDone(o, r)
  OBVIOUS
<1>4. PICK w : w = WriteDone(u, r)
  OBVIOUS
<1>5. IsTab(c)
  BY GoodFacts
<1>6. /\ IsTab(u) /\ SamePlace(c, u) /\ SameGate(c, u) /\ SameFace(c, u) /\ SameMoney(c, u)
      /\ u.ctx = c.ctx /\ u.back = c.back /\ u.gone = c.gone /\ u.stray = c.stray
      /\ u.quit = c.quit /\ u.opened = c.opened /\ u.returned = c.returned /\ u.foreign = c.foreign
      /\ u.blind = c.blind
      /\ u.net = c.net \ {r} /\ u.loose = c.loose
  BY <1>1, <1>5, AnsweredFacts
<1>7. /\ IsTab(o) /\ SamePlace(u, o) /\ SameGate(u, o) /\ SameFace(u, o) /\ SameMoney(u, o) /\ SamePast(u, o)
      /\ SameBooking(u.ctx, o.ctx) /\ (Provided(u, r) /\ u.ctx.id = r.h => o.ctx.old)
      /\ o.back = u.back /\ o.gone = u.gone /\ o.stray = u.stray /\ o.net = u.net
  <2>1. IsTab(u)
    BY <1>6
  <2> QED
    BY ONLY <1>2, <2>1, OutdatedFacts
<1>8. /\ IsTab(x) /\ SamePlace(o, x) /\ SameGate(o, x) /\ SameFace(o, x) /\ SamePast(o, x)
      /\ x.ctx = o.ctx /\ x.back = o.back /\ x.gone = o.gone /\ x.stray = o.stray /\ x.net = o.net
      /\ x.paying = o.paying /\ x.crossed = o.crossed
  BY <1>3, <1>7, WriteDoneFacts
<1>9. SamePlace(c, x) /\ SameGate(c, x) /\ SameFace(c, x) /\ SameLife(c, x) /\ x.returned = c.returned
      /\ x.paying = c.paying /\ x.crossed = c.crossed
  BY <1>6, <1>7, <1>8 DEF SamePlace, SameGate, SameFace, SameMoney, SamePast, SameLife
<1>10. SameBooking(c.ctx, x.ctx)
  BY <1>6, <1>7, <1>8
<1>11. Mine(c, r) => r.h # c.ctx.id \/ x.ctx.old
  BY <1>1, <1>4, <1>6, <1>7, <1>8, WriteAnsweredFacts
<1>12. Ready(x, attempts, holds)
  BY <1>6, <1>7, <1>8, <1>9, <1>10, <1>11, WriteOver
<1> QED
  BY <1>1, <1>2, <1>3, <1>9, <1>12, Finish, GoodFacts, SameHoldsFacts

(* An answer that is shown, or a repaired order that is opened at once.    *)
LEMMA WriteOkKept ==
  ASSUME Good(c, attempts, holds), NEW r \in c.net, r.kind = "write", WriteOk(r), UNCHANGED <<attempts, holds>>
  PROVE  Kept
<1>1. /\ holds \in Seq(HoldType) /\ SameHolds(holds) /\ attempts \in [Sels -> Nat] /\ IsTab(c) /\ r.ans = "ok"
      /\ Facts(c, attempts, holds) /\ holds' = holds /\ attempts' = attempts /\ Totals(c, holds)
      /\ (c.at = "review" => Reviewing(c))
  BY GoodFacts, SameHoldsFacts DEF WriteOk
<1>2. PICK u : u = Answered(r)
  OBVIOUS
<1>3. PICK w : w = WriteDone(u, r)
  OBVIOUS
<1>4. /\ IsTab(w) /\ SamePlace(c, w) /\ SameGate(c, w) /\ SameFace(c, w) /\ SamePast(c, w)
      /\ w.ctx = c.ctx /\ w.back = c.back /\ w.gone = c.gone /\ w.stray = c.stray
      /\ w.net = c.net \ {r} /\ w.paying = c.paying /\ w.crossed = c.crossed
      /\ r.h \in DOMAIN holds /\ r.h \in Nat /\ r.h # 0 /\ r.for \in Tickets /\ r.copy \in BookingType
      /\ r.copy.id = r.h /\ (Mine(c, r) => Provided(c, r) /\ Alive(r) /\ Reviewing(c))
  BY <1>1, <1>2, <1>3, WriteAnsweredFacts
<1>5. r.copy.st # "paid" /\ r.copy.order \in Nat
  BY <1>1, <1>4 DEF Facts, RequestFine, BookingType
<1>6. PICK b : b = [r.copy EXCEPT !.for = IF r.what = "donation" THEN None ELSE r.for]
  OBVIOUS
<1>7. b \in BookingType /\ b.id = r.h /\ b.for \in {None, r.for} /\ b.order = r.copy.order /\ b.st # "paid"
  BY <1>4, <1>5, <1>6 DEF BookingType, Tickets
<1>8. ~c.stray /\ ~c.crossed => r.copy.order = holds[r.h].order
  BY <1>1 DEF Totals, Writing
<1>9. /\ Provided(w, r) <=> Provided(c, r)
      /\ Stray(w, r) <=> Stray(c, r)
      /\ Stray(c, r) <=> ~(Mine(c, r) /\ r.h \notin c.gone)
  BY <1>4 DEF Provided, Stray, Mine, SamePlace
<1>10. PICK z : z = setBooking(w, r, b)
  OBVIOUS
<1>11. /\ IsTab(z) /\ SamePlace(w, z) /\ SameGate(w, z) /\ SameFace(w, z) /\ SameMoney(w, z) /\ SamePast(w, z)
       /\ z.back = w.back /\ z.gone = w.gone /\ z.net = w.net
       /\ z.ctx = (IF Provided(w, r) THEN b ELSE w.ctx)
       /\ z.stray <=> w.stray \/ (Provided(w, r) /\ Stray(w, r))
  BY <1>4, <1>7, <1>10, SetBookingFacts
<1>12. /\ SamePlace(c, z) /\ SameGate(c, z) /\ SameFace(c, z) /\ SameLife(c, z) /\ z.returned = c.returned
       /\ z.back = c.back /\ z.gone = c.gone /\ z.net = c.net \ {r}
       /\ z.ctx = (IF Provided(c, r) THEN b ELSE c.ctx)
       /\ z.stray <=> c.stray \/ (Provided(c, r) /\ Stray(c, r))
       /\ z.crossed = c.crossed /\ z.paying = c.paying
  BY <1>4, <1>9, <1>11 DEF SamePlace, SameGate, SameFace, SameMoney, SamePast, SameLife
<1>13. SameBooking(c.ctx, z.ctx) \/ (z.ctx.id = r.h /\ z.ctx.for \in {None, r.for})
  BY <1>7, <1>12 DEF SameBooking
<1>14. ~z.stray => SameBooking(c.ctx, z.ctx) \/ (Mine(c, r) /\ r.h \notin c.gone)
  BY <1>9, <1>12 DEF SameBooking
<1>15. ~z.stray /\ ~z.crossed =>
         \/ SameBooking(c.ctx, z.ctx) /\ ~Mine(c, r)
         \/ z.ctx.id = r.h /\ z.ctx.order = holds[r.h].order /\ z.ctx.st # "paid"
  BY <1>4, <1>7, <1>8, <1>9, <1>12 DEF SameBooking
<1>16. CASE r.what # "order"
  <2>1. c' = Settle(z, attempts')
    BY <1>1, <1>2, <1>3, <1>6, <1>10, <1>16 DEF WriteOk, Become
  <2>2. Ready(z, attempts, holds)
    BY <1>11, <1>12, <1>13, <1>14, <1>15, WriteOver
  <2> QED
    BY <1>1, <1>12, <2>1, <2>2, Finish
<1>17. CASE r.what = "order"
  <2>1. PICK p \in BOOLEAN : p <=> Alive(r)
    BY DEF Alive
  <2>2. PICK s \in BOOLEAN : s <=> z.stray \/ (Alive(r) /\ Stray(c, r))
    OBVIOUS
  <2>3. PICK n : n = IF p THEN <<r.h, r.copy.order>> ELSE c.paying
    OBVIOUS
  <2>4. PICK x : x = [z EXCEPT !.paying = n, !.stray = s]
    OBVIOUS
  <2>5. c' = Settle(x, attempts')
    <3>1. n = IF Alive(r) THEN <<r.h, r.copy.order>> ELSE z.paying
      BY <2>1, <2>3, <1>12
    <3>2. s = (z.stray \/ (Alive(r) /\ Stray(c, r)))
      BY <2>2, <1>11 DEF IsTab
    <3>3. x = [setBooking(w, r, b) EXCEPT
                          !.paying = IF Alive(r) THEN <<r.h, r.copy.order>> ELSE @,
                          !.stray = @ \/ (Alive(r) /\ Stray(c, r))]
      BY <2>4, <3>1, <3>2, <1>10
    <3> QED
      BY <1>1, <1>2, <1>3, <1>6, <1>17, <3>3 DEF WriteOk, Become
  <2>6. IsTab(x) /\ SamePlace(z, x) /\ SameGate(z, x) /\ SameFace(z, x) /\ SamePast(z, x)
    <3>1. n \in Nat \X Nat
      BY <1>1, <1>4, <1>5, <2>3 DEF IsTab
    <3>2. IsTab(x)
      BY <1>11, <2>4, <3>1 DEF IsTab, Fields
    <3> QED
      BY <1>11, <2>4, <3>2 DEF IsTab, Fields, SamePlace, SameGate, SameFace, SamePast
  <2>7. /\ x.back = z.back /\ x.gone = z.gone /\ x.net = z.net /\ x.ctx = z.ctx
        /\ x.crossed = z.crossed /\ x.paying = n /\ x.stray = s
    BY <1>11, <2>4 DEF IsTab, Fields
  <2>8. Ready(x, attempts, holds)
    <3>1. SamePlace(c, x) /\ SameGate(c, x) /\ SameFace(c, x) /\ SameLife(c, x) /\ x.returned = c.returned
      BY <1>12, <2>6 DEF SamePlace, SameGate, SameFace, SamePast, SameLife
    <3>2. /\ x.back = c.back /\ x.gone = c.gone /\ x.net = c.net \ {r} /\ (~x.stray => ~z.stray)
          /\ (c.stray => x.stray) /\ x.crossed = c.crossed /\ x.ctx = z.ctx
      BY <1>12, <2>2, <2>7
    <3>3. x.paying = c.paying \/ (x.paying[1] = r.h /\ x.paying # NoPay)
      BY <1>4, <2>3, <2>7 DEF NoPay
    <3>4. ~x.stray => x.paying = c.paying \/ (Mine(c, r) /\ r.h \notin c.gone)
      BY <1>9, <2>1, <2>2, <2>3, <2>7
    <3>5. ~x.stray /\ ~x.crossed =>
           \/ SameBooking(c.ctx, x.ctx) /\ ~Mine(c, r)
           \/ x.ctx.id = r.h /\ x.ctx.order = holds[r.h].order /\ x.ctx.st # "paid"
      BY <1>12, <1>15, <3>2
    <3>6. /\ SameBooking(c.ctx, x.ctx) \/ (x.ctx.id = r.h /\ x.ctx.for \in {None, r.for})
          /\ ~x.stray => SameBooking(c.ctx, x.ctx) \/ (Mine(c, r) /\ r.h \notin c.gone)
      BY <1>13, <1>14, <3>2
    <3> QED
      BY <2>6, <3>1, <3>2, <3>3, <3>4, <3>5, <3>6, WriteOver
  <2>9. Good(Settle(x, attempts), attempts, holds) /\ Settle(x, attempts).paying = x.paying
    BY <1>1, <2>8, SettleGood
  <2>10. Good(c', attempts', holds') /\ c'.paying = n
    BY <1>1, <2>5, <2>7, <2>9
  <2>11. PaysRight
    <3>1. n = c.paying \/ (n[1] = r.h /\ n[2] = r.copy.order)
      BY <2>3
    <3>2. ~c.stray /\ ~c.crossed /\ c.at = "review" => c.ctx.st # "paid" \/ c.returned
      BY <1>1 DEF Totals
    <3> QED
      BY <1>8, <2>10, <3>1, <3>2 DEF PaysRight
  <2> QED
    BY <2>10, <2>11 DEF Kept
<1> QED
  BY <1>16, <1>17

(* A write whose order failed goes on as a re-read.                        *)
LEMMA GoesOnAsReread ==
  ASSUME Good(c, attempts, holds), NEW r \in c.net, r.kind = "write", r.ans = "failed", UNCHANGED <<attempts, holds>>,
         NEW q, q = [r EXCEPT !.ans = "reread", !.copy = NoBooking], c' = Settle(Send(Answered(r), q), attempts)
  PROVE  Kept
<1>1. /\ Facts(c, attempts, holds) /\ IsTab(c) /\ holds \in Seq(HoldType) /\ SameHolds(holds) /\ OneLive(holds)
      /\ \A h \in DOMAIN holds : HoldFine(h, attempts, holds)
  BY GoodFacts, SameHoldsFacts DEF Facts
<1>2. IsRequest(r) /\ r.h \in DOMAIN holds
  BY <1>1 DEF Facts, RequestFine, IsTab
<1>3. IsRequest(q)
  BY <1>2, NoBookingFacts DEF IsRequest, RequestFields
<1>4. /\ q.ans = "reread" /\ q.h = r.h
      /\ q.kind = r.kind /\ q.layout = r.layout /\ q.mount = r.mount /\ q.what = r.what /\ q.for = r.for
      /\ q.sel = r.sel /\ q.att = r.att /\ q.again = r.again
  BY <1>2 DEF IsRequest, RequestFields
<1>5. Len(holds) <= Len(holds) /\ DOMAIN holds \ DOMAIN holds = {}
  BY <1>1
<1>6. PICK x : x = Told(c, r, q)
  OBVIOUS
<1>7. Serves(r, q, holds)
  BY <1>1, <1>3, <1>4, <1>5 DEF Serves, HoldFine
<1>8. Good(x, attempts, holds) /\ x.paying = c.paying
  BY <1>6, <1>7, ServedIsGood
<1>9. Send(Answered(r), q) = x
  <2>1. Answered(r) = [c EXCEPT !.net = @ \ {r}, !.loose = c.loose]
    BY <1>1 DEF Answered, IsTab, Fields
  <2> QED
    BY <1>1, <1>6, <2>1 DEF Send, Told, IsTab, Fields
<1> QED
  BY <1>1, <1>8, <1>9, GoodIsReady, Finish

LEMMA WriteAnswerKept ==
  ASSUME Good(c, attempts, holds), NEW r \in c.net, WriteAnswer(r)
  PROVE  Kept
<1>1. r.kind = "write" /\ UNCHANGED <<attempts, holds>> /\ (WriteOk(r) \/ WriteFailed(r)) /\ IsTab(c)
  BY GoodFacts DEF WriteAnswer
<1>2. CASE WriteOk(r)
  BY <1>1, <1>2, WriteOkKept
<1>3. CASE WriteFailed(r)
  <2>1. r.ans \in {"failed", "refused"}
    BY <1>3 DEF WriteFailed
  <2>2. CASE r.ans = "failed" /\ r.what \in {"donation", "coupon"} /\ Alive(r)
    <3>1. c' = Settle(Send(Answered(r), [r EXCEPT !.ans = "reread", !.copy = NoBooking]), attempts)
      BY <1>3, <2>2 DEF WriteFailed, Become
    <3> QED
      BY <1>1, <2>2, <3>1, GoesOnAsReread
  <2>3. CASE r.ans = "failed" /\ r.what = "gateway"
    <3>1. c' = Settle(WriteDone(Outdated(Answered(r), r), r), attempts)
      BY <1>3, <2>3 DEF WriteFailed, Become
    <3> QED
      BY <1>1, <3>1, WriteOutdated
  <2>4. CASE ~(r.ans = "failed" /\ r.what \in {"donation", "coupon"} /\ Alive(r)) /\ ~(r.ans = "failed" /\ r.what = "gateway")
    <3>1. PICK w : w = WriteDone(Answered(r), r)
      OBVIOUS
    <3>2. c' = Settle(w, attempts)
      BY <1>3, <2>4, <3>1 DEF WriteFailed, Become
    <3>3. IsTab(w) /\ w.crossed = c.crossed /\ r.what \in Writes /\ (~Alive(r) => ~Mine(c, r))
      BY <1>1, <3>1, WriteAnsweredFacts
    <3>4. ~Mine(c, r) \/ r.ans \notin {"ok", "failed", "reread"} \/ r.what = "order"
      BY <2>1, <2>4, <3>3 DEF Writes
    <3> QED
      BY <1>1, <3>1, <3>2, <3>3, <3>4, WriteUnsaid
  <2> QED
    BY <2>2, <2>3, <2>4
<1> QED
  BY <1>1, <1>2, <1>3

(* The re-read is shown, whatever the status of the booking it found.      *)
LEMMA ReadAnswerKept ==
  ASSUME Good(c, attempts, holds), NEW r \in c.net, ReadAnswer(r)
  PROVE  Kept
<1>1. /\ holds \in Seq(HoldType) /\ SameHolds(holds) /\ IsTab(c) /\ r.kind = "write"
      /\ holds' = holds /\ attempts' = attempts
  BY GoodFacts, SameHoldsFacts DEF ReadAnswer
<1>2. PICK w : w = WriteDone(Answered(r), r)
  OBVIOUS
<1>3. /\ IsTab(w) /\ SamePlace(c, w) /\ SameGate(c, w) /\ SameFace(c, w) /\ SamePast(c, w)
      /\ w.ctx = c.ctx /\ w.back = c.back /\ w.gone = c.gone /\ w.stray = c.stray
      /\ w.net = c.net \ {r} /\ w.paying = c.paying /\ w.crossed = c.crossed
      /\ r.h \in DOMAIN holds /\ r.for \in Tickets
      /\ (Mine(c, r) => Provided(c, r) /\ Alive(r) /\ Reviewing(c))
  BY <1>1, <1>2, WriteAnsweredFacts
<1>4. PICK b : b = Copy(r.h, r.for)
  OBVIOUS
<1>5. b \in BookingType /\ b.id = r.h /\ b.for = r.for /\ b.order = holds[r.h].order /\ b.st = holds[r.h].st
  BY <1>1, <1>3, <1>4, CopyFacts
<1>6. PICK z : z = setBooking(w, r, b)
  OBVIOUS
<1>7. /\ IsTab(z) /\ SamePlace(w, z) /\ SameGate(w, z) /\ SameFace(w, z) /\ SameMoney(w, z) /\ SamePast(w, z)
      /\ z.back = w.back /\ z.gone = w.gone /\ z.net = w.net
      /\ z.ctx = (IF Provided(w, r) THEN b ELSE w.ctx)
      /\ z.stray <=> w.stray \/ (Provided(w, r) /\ Stray(w, r))
  BY <1>3, <1>5, <1>6, SetBookingFacts
<1>8. /\ Provided(w, r) <=> Provided(c, r)
      /\ Stray(w, r) <=> Stray(c, r)
      /\ Stray(c, r) <=> ~(Mine(c, r) /\ r.h \notin c.gone)
  BY <1>1, <1>3 DEF Provided, Stray, Mine, SamePlace
<1>9. PICK p \in BOOLEAN : p = (z.returned \/ (Provided(c, r) /\ holds[r.h].st = "paid"))
  BY <1>7 DEF IsTab
<1>10. PICK x : x = [z EXCEPT !.returned = p]
  OBVIOUS
<1>11. c' = Settle(x, attempts)
  <2>1. x = [z EXCEPT !.returned = @ \/ (Provided(c, r) /\ holds[r.h].st = "paid")]
    BY <1>9, <1>10
  <2> QED
    BY <1>2, <1>4, <1>6, <2>1 DEF ReadAnswer, Become
<1>12. IsTab(x)
  BY <1>7, <1>10 DEF IsTab, Fields
<1>13. SamePlace(z, x) /\ SameGate(z, x) /\ SameFace(z, x) /\ SameLife(z, x)
  BY <1>7, <1>10 DEF IsTab, Fields, SamePlace, SameGate, SameFace, SameLife
<1>14. /\ x.back = c.back /\ x.gone = c.gone /\ x.net = c.net \ {r} /\ x.ctx = z.ctx /\ x.stray = z.stray
       /\ x.paying = c.paying /\ x.crossed = c.crossed /\ x.returned = p
  BY <1>3, <1>7, <1>10 DEF IsTab, Fields, SameMoney
<1>15. SamePlace(c, x) /\ SameGate(c, x) /\ SameFace(c, x) /\ SameLife(c, x) /\ (c.returned => x.returned)
  BY <1>3, <1>7, <1>9, <1>13, <1>14 DEF SamePlace, SameGate, SameFace, SamePast, SameLife
<1>16. /\ x.ctx = (IF Provided(c, r) THEN b ELSE c.ctx)
       /\ x.stray <=> c.stray \/ (Provided(c, r) /\ Stray(c, r))
  BY <1>3, <1>7, <1>8, <1>14
<1>17. /\ SameBooking(c.ctx, x.ctx) \/ (x.ctx.id = r.h /\ x.ctx.for \in {None, r.for})
       /\ ~x.stray => SameBooking(c.ctx, x.ctx) \/ (Mine(c, r) /\ r.h \notin c.gone)
  BY <1>5, <1>8, <1>16 DEF SameBooking
<1>18. \/ SameBooking(c.ctx, x.ctx) /\ ~Mine(c, r)
       \/ x.ctx.id = r.h /\ x.ctx.order = holds[r.h].order /\ (x.ctx.st # "paid" \/ x.returned)
  BY <1>3, <1>5, <1>9, <1>14, <1>16 DEF SameBooking
<1>19. Ready(x, attempts, holds)
  BY <1>1, <1>12, <1>14, <1>15, <1>16, <1>17, <1>18, WriteOver
<1> QED
  BY <1>1, <1>11, <1>14, <1>19, Finish

LEMMA LostKept ==
  ASSUME Good(c, attempts, holds), NEW r \in c.net, Lost(r)
  PROVE  Kept
<1>1. /\ holds \in Seq(HoldType) /\ SameHolds(holds) /\ attempts \in [Sels -> Nat] /\ IsTab(c)
      /\ Facts(c, attempts, holds) /\ holds' = holds /\ r.kind # "cancel"
  BY GoodFacts, SameHoldsFacts DEF Lost
<1>2. PICK u : u = Answered(r)
  OBVIOUS
<1>3. /\ IsTab(u) /\ SamePlace(c, u) /\ SameGate(c, u) /\ SameFace(c, u) /\ SameMoney(c, u)
      /\ u.ctx = c.ctx /\ u.back = c.back /\ u.releasing = c.releasing /\ u.gone = c.gone /\ u.stray = c.stray
      /\ u.quit = c.quit /\ u.opened = c.opened /\ u.returned = c.returned /\ u.foreign = c.foreign
      /\ u.blind = c.blind
      /\ u.net = c.net \ {r} /\ (r.kind # "create" => u.loose = c.loose)
  BY <1>1, <1>2, AnsweredFacts
<1>4. Later(attempts)
  BY <1>1 DEF Later, attemptIn
<1>5. CASE r.kind = "create"
  <2>1. PICK z : z = [Answered(r) EXCEPT !.loose = @ \cup {Key(r)}]
    OBVIOUS
  <2>2. ReserveFailed(z, r, TRUE)
    BY <1>5, <2>1 DEF Lost, Key
  <2>3. Key(r) \in z.loose
    <3>1. z = [u EXCEPT !.loose = @ \cup {Key(r)}]
      BY <1>2, <2>1
    <3> QED
      BY <1>3, <3>1 DEF IsTab, Fields
  <2> QED
    BY <1>1, <1>5, <2>1, <2>2, <2>3, ReserveFailedKept
<1>6. CASE r.kind = "check" /\ Mine(c, r)
  <2>1. PICK x : x = [u EXCEPT !.checked = TRUE, !.opened = TRUE]
    OBVIOUS
  <2>2. attempts' = attempts /\ c' = Settle(x, attempts')
    BY <1>2, <1>6, <2>1 DEF Lost, Become
  <2>3. IsTab(x)
    BY <1>3, <2>1 DEF IsTab, Fields
  <2>4. SamePlace(u, x) /\ SameFace(u, x) /\ SameMoney(u, x)
    BY <1>3, <2>1 DEF IsTab, Fields, SamePlace, SameFace, SameMoney
  <2>5. /\ x.ctx = u.ctx /\ x.back = u.back /\ x.gone = u.gone /\ x.stray = u.stray
        /\ x.quit = u.quit /\ x.opened /\ x.returned = u.returned /\ x.foreign = u.foreign /\ x.blind = u.blind
        /\ x.net = u.net /\ x.loose = u.loose
        /\ x.asked = u.asked /\ x.attempted = u.attempted /\ x.checked /\ x.clearing = u.clearing
        /\ x.seen = u.seen
    BY <1>3, <2>1 DEF IsTab, Fields
  <2>6. SamePlace(c, x) /\ SameFace(c, x) /\ SameMoney(c, x)
    BY <1>3, <2>4 DEF SamePlace, SameFace, SameMoney
  <2>7. /\ x.ctx = c.ctx /\ x.back = c.back /\ x.gone = c.gone /\ x.stray = c.stray
        /\ x.foreign = c.foreign /\ x.blind = c.blind /\ x.net = c.net \ {r} /\ x.loose = c.loose
        /\ x.quit = c.quit /\ x.returned = c.returned
        /\ x.asked = c.asked /\ x.attempted = c.attempted /\ x.clearing = c.clearing /\ x.seen = c.seen
    BY <1>3, <1>6, <2>5 DEF SameGate
  <2>8. Ready(x, attempts, holds)
    <3>1. CASE c.stray
      <4>1. x.stray /\ x.paying = c.paying /\ x.ctx \in {c.ctx, NoBooking} /\ x.net \subseteq c.net
        BY <2>6, <2>7, <3>1 DEF SameMoney
      <4> QED
        BY <4>1, <1>4, <2>3, <2>6, <2>7, StrayTab
    <3>2. CASE ~c.stray
      <4>1. ~c.foreign /\ ~c.attempted
        BY <1>6, <3>2, OwnCheck
      <4>2. ~x.foreign /\ ~x.attempted /\ x.opened /\ x.checked
        BY <2>5, <2>7, <4>1
      <4> QED
        BY <1>6, <2>3, <2>6, <2>7, <3>2, <4>2, OwnCheckDone
    <3> QED
      BY <3>1, <3>2
  <2> QED
    BY <1>1, <2>2, <2>6, <2>8, Finish DEF SameMoney
<1>7. CASE r.kind = "check" /\ ~Mine(c, r)
  <2>1. attempts' = attempts /\ c' = Settle(u, attempts')
    BY <1>2, <1>7 DEF Lost, Become
  <2>2. Ready(u, attempts, holds)
    BY <1>2, <1>7, AnsweredIsGood, GoodIsReady
  <2> QED
    BY <1>1, <1>3, <2>1, <2>2, Finish DEF SameMoney
<1>8. CASE r.kind = "write" /\ r.ans = "reread"
  <2>1. attempts' = attempts /\ c' = Settle(WriteDone(Outdated(Answered(r), r), r), attempts)
    BY <1>8 DEF Lost, Become
  <2> QED
    BY <1>1, <1>8, <2>1, WriteOutdated
<1>9. CASE r.kind = "write" /\ r.ans # "reread"
  <2>1. PICK w : w = WriteDone(Answered(r), r)
    OBVIOUS
  <2>2. IsTab(w) /\ w.crossed = c.crossed
    BY <1>9, <2>1, WriteAnsweredFacts
  <2>3. PICK p \in BOOLEAN : p = (w.crossed \/ r.ans # "sent")
    BY <2>2 DEF IsTab
  <2>4. PICK x : x = [w EXCEPT !.crossed = p]
    OBVIOUS
  <2>5. IsTab(x) /\ x.crossed = p
    BY <2>2, <2>3, <2>4 DEF IsTab, Fields
  <2>6. x = [w EXCEPT !.crossed = x.crossed]
    BY <2>4, <2>5
  <2>7. attempts' = attempts /\ c' = Settle(x, attempts)
    <3>1. x = [WriteDone(Answered(r), r) EXCEPT !.crossed = @ \/ r.ans # "sent"]
      BY <2>1, <2>3, <2>4
    <3> QED
      BY <1>9, <3>1 DEF Lost, Become
  <2>8. (c.crossed => x.crossed) /\ (x.crossed \/ r.ans \notin {"ok", "failed", "reread"})
    BY <2>2, <2>3, <2>5
  <2> QED
    BY <1>1, <1>9, <2>1, <2>5, <2>6, <2>7, <2>8, WriteUnsaid
<1>10. r.kind \in {"create", "check", "write"}
  BY <1>1 DEF Facts, RequestFine
<1> QED
  BY <1>5, <1>6, <1>7, <1>8, <1>9, <1>10

-----------------------------------------------------------------------------
(* What happens by itself.                                                 *)

(* A booking ends, or is paid, while the tab stands still.                 *)
LEMMA EndsKept ==
  ASSUME Good(c, attempts, holds), NEW h \in DOMAIN holds, Lapse(h) \/ Confirm(h)
  PROVE  Kept
<1>1. /\ Facts(c, attempts, holds) /\ IsTab(c) /\ holds \in Seq(HoldType) /\ attempts' = attempts /\ c' = c
      /\ \A k \in DOMAIN holds : HoldFine(k, attempts, holds) /\ holds[k] \in HoldType
  BY GoodFacts DEF Lapse, Confirm, Facts
<1>2. PICK hs : hs = holds'
  OBVIOUS
<1>3. PICK g : g = IF Lapse(h) THEN [holds[h] EXCEPT !.due = TRUE, !.st = IF @ = "reserved" THEN "expired" ELSE @]
                   ELSE [holds[h] EXCEPT !.st = "paid"]
  OBVIOUS
<1>4. /\ g \in HoldType /\ g.sel = holds[h].sel /\ g.att = holds[h].att /\ g.ver = holds[h].ver
      /\ g.st # "reserved" /\ (holds[h].st = "paid" => g.st = "paid")
      /\ g.order = holds[h].order /\ (holds[h].due => g.due)
  <2>1. CASE Lapse(h)
    <3>1. g = [holds[h] EXCEPT !.due = TRUE, !.st = IF @ = "reserved" THEN "expired" ELSE @]
      BY <2>1, <1>3
    <3> QED
      BY <1>1, <3>1 DEF HoldType, Statuses
  <2>2. CASE ~Lapse(h)
    <3>1. g = [holds[h] EXCEPT !.st = "paid"]
      BY <2>2, <1>3
    <3> QED
      BY <1>1, <3>1 DEF HoldType, Statuses
  <2> QED
    BY <2>1, <2>2
<1>5. hs = [holds EXCEPT ![h] = g]
  <2>1. CASE Lapse(h)
    BY <1>1, <1>2, <1>3, <2>1 DEF Lapse
  <2>2. CASE ~Lapse(h)
    BY <1>1, <1>2, <1>3, <2>2 DEF Confirm
  <2> QED
    BY <2>1, <2>2
<1>6. /\ hs \in Seq(HoldType) /\ Len(hs) = Len(holds) /\ DOMAIN hs = DOMAIN holds /\ hs[h] = g
      /\ \A j \in DOMAIN holds : j # h => hs[j] = holds[j]
  BY <1>1, <1>4, <1>5, OneChanges
<1>7. Dims(holds, hs)
  BY <1>1, <1>4, <1>6 DEF Dims, Live, HoldFine
<1> QED
  BY <1>1, <1>2, <1>7, FinishAtOnce

-----------------------------------------------------------------------------
(* Timers.                                                                 *)

(* The retry of a reserve that failed: the effect runs again.              *)
LEMMA SilentRetryKept ==
  ASSUME Good(c, attempts, holds), SilentRetry
  PROVE  Kept
<1>1. /\ Facts(c, attempts, holds) /\ Places(c, holds) /\ Screen(c) /\ ScreenSettled(c) /\ Quit(c)
      /\ Numbers(c, attempts, holds) /\ Tags(c, holds) /\ Totals(c, holds) /\ IsTab(c)
      /\ attempts \in [Sels -> Nat] /\ holds \in Seq(HoldType) /\ Reviewing(c) /\ c.at = "review" /\ c.timer
      /\ attempts' = attempts /\ holds' = holds
  BY GoodFacts DEF SilentRetry
<1>2. PICK x : x = Again([c EXCEPT !.timer = FALSE])
  OBVIOUS
<1>3. x = [c EXCEPT !.timer = FALSE, !.attempted = FALSE, !.nonce = ~@]
  BY <1>1, <1>2 DEF Again, IsTab, Fields
<1>4. IsTab(x)
  BY <1>1, <1>3 DEF IsTab, Fields
<1>5. SamePlace(c, x) /\ SameMoney(c, x) /\ SamePast(c, x)
  BY <1>1, <1>3 DEF IsTab, Fields, SamePlace, SameMoney, SamePast
<1>6. /\ x.ctx = c.ctx /\ x.back = c.back /\ x.net = c.net /\ x.gone = c.gone /\ x.stray = c.stray
      /\ x.checked = c.checked /\ x.asked = c.asked /\ x.seen = c.seen /\ x.clearing = c.clearing
      /\ x.err = c.err /\ x.over = c.over /\ x.retrying = c.retrying /\ x.retried = c.retried
      /\ x.releasing = c.releasing
      /\ ~x.timer /\ ~x.attempted /\ x.nonce = ~c.nonce /\ c.nonce \in BOOLEAN
  BY <1>1, <1>3 DEF IsTab, Fields
<1>7. Later(attempts)
  BY <1>1 DEF Later, attemptIn
<1>8. Ready(x, attempts, holds)
  <2>1. CASE c.stray
    BY <1>4, <1>5, <1>6, <1>7, <2>1, StrayTab DEF SameMoney, SamePast
  <2>2. CASE ~c.stray
    <3>1. /\ c.ctx.id = 0 /\ ~c.over /\ ~c.err /\ c.attempted /\ c.checked /\ c.paying = NoPay
          /\ \A q \in Own(c) : q.kind \notin {"check", "create"}
          /\ c.seen = <<TRUE, FALSE, c.nonce>> /\ (c.param # 0 => c.asked)
      BY <1>1, <2>2 DEF Screen, ScreenSettled, Places
    <3>2. /\ Reviewing(x) /\ Anchor(x) = Anchor(c) /\ Own(x) = Own(c) /\ Creates(x) = Creates(c)
          /\ Writing(x) = Writing(c) /\ ~AfterPay(x) /\ \A q : Mine(x, q) <=> Mine(c, q)
      BY <1>1, <1>5, <1>6 DEF Reviewing, Anchor, Own, Mine, Creates, Writing, AfterPay, SamePlace
    <3>3. Facts(x, attempts, holds)
      <4>1. /\ x.ctx.id \in 0 .. Len(holds) /\ x.param \in 0 .. Len(holds) /\ x.paying[1] \in 0 .. Len(holds)
            /\ (x.paying # NoPay => x.paying[1] # 0) /\ x.mount = c.mount /\ x.layout = c.layout
            /\ (x.at = "review" => x.mount # 0) /\ x.at = "review"
        BY <1>1, <1>5, <1>6 DEF Facts, SamePlace, SameMoney
      <4> QED
        BY <1>1, <1>4, <1>6, <1>7, <4>1, FactsKept
    <3>4. Places(x, holds)
      BY <1>1, <1>5, <1>6, <2>2, <3>1, <3>2 DEF Places, SamePlace, SameMoney, SamePast
    <3>5. Screen(x)
      BY <1>1, <1>5, <1>6, <2>2, <3>1, <3>2 DEF Screen
    <3>6. Quit(x)
      BY <1>1, <1>5, <2>2, <3>2 DEF Quit, SamePast
    <3>7. Numbers(x, attempts, holds)
      BY <1>1, <1>5, <1>6, <3>1, <3>2, NumbersStay DEF SamePast
    <3>8. Tags(x, holds)
      BY <1>1, <1>5, <1>6, <3>2 DEF Tags, SamePast
    <3>9. Totals(x, holds)
      BY <1>1, <1>5, <1>6, <2>2, <3>1, <3>2 DEF Totals, SameMoney, SamePlace, SamePast
    <3>10. ScreenReady(x)
      <4>1. Unsettled(x)
        BY <1>6, <3>1 DEF Unsettled
      <4>2. ~Asks(x)
        BY <1>5, <1>6, <3>1 DEF Asks, SamePlace
      <4> QED
        BY <1>1, <1>5, <1>6, <3>1, <3>2, <4>1, <4>2 DEF ScreenReady, Waits, SamePlace
    <3> QED
      BY <3>3, <3>4, <3>5, <3>6, <3>7, <3>8, <3>9, <3>10 DEF Ready, Common
  <2> QED
    BY <2>1, <2>2
<1>9. c' = Settle(x, attempts')
  BY <1>1, <1>2 DEF SilentRetry, Become
<1> QED
  BY <1>1, <1>5, <1>8, <1>9, SameHoldsFacts, Finish DEF SameMoney

(* A cancel is sent, with a request that speaks of a booking there is.     *)
WithCancel(x, q, h) == [x EXCEPT !.net = @ \cup {q}, !.gone = @ \cup {h}]

IsCancel(q, x, h, what) ==
  IsRequest(q) /\ q.kind = "cancel" /\ q.h = h /\ q.what = what /\ q.mount = x.mount /\ q.layout = x.layout

LEMMA SendCancelFacts ==
  ASSUME holds \in Seq(HoldType), NEW x, IsTab(x), NEW h \in DOMAIN holds, NEW what, NEW y, y = SendCancel(x, h, what)
  PROVE  \E q : y = WithCancel(x, q, h) /\ IsCancel(q, x, h, what)
<1>1. PICK q : q = Request(x, "cancel", h, what)
  OBVIOUS
<1>2. h \in Nat
  OBVIOUS
<1>3. IsCancel(q, x, h, what)
  BY <1>1, <1>2, RequestFacts DEF IsCancel
<1>4. y = WithCancel(x, q, h)
  BY <1>1 DEF SendCancel, Send, WithCancel, IsTab, Fields
<1> QED
  BY <1>3, <1>4

LEMMA CancelIsFine ==
  ASSUME NEW q, q.kind = "cancel", NEW x, q.mount = x.mount, q.layout = x.layout, x.mount \in Nat,
         NEW hs, q.h \in DOMAIN hs, NEW b
  PROVE  RequestFine(q, x, b, hs)
BY DEF RequestFine

(* The countdown of the booking on the screen.                             *)
LEMMA ExpireHoldKept ==
  ASSUME Good(c, attempts, holds), expireHold
  PROVE  Kept
<1>1. /\ Facts(c, attempts, holds) /\ Places(c, holds) /\ Screen(c) /\ ScreenSettled(c) /\ Quit(c)
      /\ Numbers(c, attempts, holds) /\ Tags(c, holds) /\ Totals(c, holds) /\ IsTab(c)
      /\ attempts \in [Sels -> Nat] /\ holds \in Seq(HoldType) /\ Reviewing(c) /\ c.at = "review"
      /\ c.sel \in Sels /\ ~c.over /\ c.ctx.id # 0 /\ holds[c.ctx.id].due /\ holds' = holds
  BY GoodFacts DEF expireHold, Shown
<1>2. PICK m : m = MovesOn(c, c.sel)
  OBVIOUS
<1>3. PICK p \in BOOLEAN : m = [c EXCEPT !.blind = p] /\ (~p => ~c.blind /\ Silent(c, c.sel))
  BY <1>1, <1>2, MovesOnFacts
<1>4. IsTab(m) /\ m.mount = c.mount /\ m.layout = c.layout
  BY <1>1, <1>3 DEF IsTab, Fields
<1>5. c.ctx.id \in DOMAIN holds /\ c.ctx.id \in 0 .. Len(holds)
  BY <1>1 DEF Facts
<1>6. PICK w : w = SendCancel(m, c.ctx.id, "none")
  OBVIOUS
<1>7. PICK q : w = WithCancel(m, q, c.ctx.id) /\ IsCancel(q, m, c.ctx.id, "none")
  BY <1>1, <1>4, <1>5, <1>6, SendCancelFacts
<1>7a. /\ IsRequest(q) /\ q.kind = "cancel" /\ q.h = c.ctx.id /\ q.what = "none"
       /\ q.mount = c.mount /\ q.layout = c.layout
  BY <1>4, <1>7 DEF IsCancel
<1>8. PICK x : x = [w EXCEPT !.over = TRUE, !.ctx = NoBooking]
  OBVIOUS
<1>9. x = [c EXCEPT !.blind = p, !.net = @ \cup {q}, !.gone = @ \cup {c.ctx.id}, !.over = TRUE, !.ctx = NoBooking]
  BY <1>1, <1>3, <1>7, <1>8 DEF WithCancel, IsTab, Fields
<1>10. IsTab(x)
  <2>1. c.ctx.id \in Nat
    BY <1>1 DEF IsTab, BookingType
  <2> QED
    BY <1>1, <1>7a, <1>9, <2>1, NoBookingFacts DEF IsTab, Fields
<1>11. SamePlace(c, x) /\ SameMoney(c, x) /\ SameGate(c, x)
  BY <1>1, <1>9 DEF IsTab, Fields, SamePlace, SameMoney, SameGate
<1>12. /\ x.ctx = NoBooking /\ x.back = c.back /\ x.net = c.net \cup {q} /\ x.gone = c.gone \cup {c.ctx.id}
       /\ x.stray = c.stray /\ x.foreign = c.foreign /\ x.loose = c.loose /\ x.quit = c.quit
       /\ x.opened = c.opened /\ x.returned = c.returned /\ x.blind = p
       /\ x.err = c.err /\ x.over /\ x.retrying = c.retrying /\ x.retried = c.retried /\ x.timer = c.timer
       /\ x.releasing = c.releasing /\ x.nonce = c.nonce
  BY <1>1, <1>9 DEF IsTab, Fields
<1>13. PICK b : b = bumpAttempt(c.sel)
  OBVIOUS
<1>14. Later(b) /\ \A t \in Sels \ {c.sel} : attemptIn(b, t) = attemptIn(attempts, t)
  BY <1>1, <1>13, BumpIsLater, BumpFacts
<1>15. x.ctx.id = 0
  BY <1>12, NoBookingFacts
<1>16. /\ Reviewing(x) /\ Anchor(x) = Anchor(c) /\ Creates(x) = Creates(c) /\ Writing(x) = Writing(c)
       /\ ~AfterPay(x) /\ (\A r : Mine(x, r) <=> Mine(c, r)) /\ Own(x) = Own(c) \cup {q}
  <2>1. Reviewing(x) /\ Anchor(x) = Anchor(c) /\ ~AfterPay(x) /\ (\A r : Mine(x, r) <=> Mine(c, r))
    BY <1>1, <1>11, <1>12 DEF Reviewing, Anchor, Mine, AfterPay, SamePlace
  <2>2. Creates(x) = Creates(c) /\ Writing(x) = Writing(c)
    BY <1>7a, <1>12 DEF Creates, Writing
  <2>3. Own(x) = Own(c) \cup {q}
    BY <1>1, <1>7a, <1>12, <2>1 DEF Own, Mine
  <2> QED
    BY <2>1, <2>2, <2>3
<1>17. Facts(x, b, holds)
  <2>1. /\ x.ctx.id \in 0 .. Len(holds) /\ x.param \in 0 .. Len(holds) /\ x.paying[1] \in 0 .. Len(holds)
        /\ (x.paying # NoPay => x.paying[1] # 0) /\ x.mount = c.mount /\ x.layout = c.layout
        /\ x.mount # 0 /\ x.mount \in Nat /\ x.at = "review"
    BY <1>1, <1>10, <1>11, <1>15 DEF Facts, SamePlace, SameMoney, IsTab
  <2>2. RequestFine(q, x, b, holds)
    BY <1>5, <1>7a, <2>1, CancelIsFine
  <2>3. \A r \in c.net : r.mount <= x.mount /\ (Reviewing(x) /\ r.mount = x.mount => r.layout = x.layout)
    BY <1>1, <2>1 DEF Facts, RequestFine
  <2>4. x.gone \subseteq DOMAIN holds
    BY <1>1, <1>5, <1>12 DEF Facts
  <2> QED
    BY <1>1, <1>10, <1>12, <1>14, <2>1, <2>2, <2>3, <2>4, FactsGrow
<1>18. Tags(x, holds)
  BY <1>1, <1>12, <1>15, <1>16 DEF Tags
<1>19. Ready(x, b, holds)
  <2>1. CASE c.stray
    BY <1>12, <1>17, <1>18, <2>1, StrayIsReady
  <2>2. CASE ~c.stray
    <3>1. /\ c.checked /\ ~c.err /\ ~c.timer /\ ~c.foreign /\ c.ctx.id = c.param /\ holds[c.param].sel = c.sel
          /\ \A r \in Own(c) : r.kind \notin {"check", "create"}
          /\ c.seen = <<TRUE, TRUE, c.nonce>> /\ (c.param # 0 => c.asked) /\ ~c.clearing /\ ~c.retrying
      BY <1>1, <2>2 DEF Screen, ScreenSettled, Places
    <3>2. Places(x, holds)
      BY <1>1, <1>11, <1>12, <1>15, <1>16, <2>2, <3>1 DEF Places, SamePlace, SameMoney, SameGate
    <3>3. Screen(x)
      <4>1. \A r \in Own(c) : r.kind \in {"cancel", "write"} =>
               (r.kind = "cancel" => r.what = "none") /\ (r.kind = "write" => r.h = c.ctx.id \/ r.h \in c.gone)
        BY <1>1, <2>2 DEF Screen
      <4> QED
        BY <1>7a, <1>11, <1>12, <1>15, <1>16, <3>1, <4>1 DEF Screen, SameGate
    <3>4. Quit(x)
      BY <1>1, <1>7a, <1>12, <1>16, <2>2, <3>1 DEF Quit
    <3>5. Numbers(x, b, holds)
      <4>1. \A r \in Own(x) : r.kind # "create"
        BY <1>7a, <1>16, <3>1
      <4>2. ASSUME ~p, NEW g \in DOMAIN holds, Held(x, holds, g), holds[g].sel = c.sel
            PROVE  FALSE
        <5>1. Held(c, holds, g) /\ Live(holds, g)
          BY <1>12, <4>2 DEF Held
        <5>2. holds[g].att = attemptIn(attempts, c.sel) /\ ~c.blind /\ Silent(c, c.sel)
          BY <1>1, <1>3, <2>2, <4>2, <5>1 DEF Numbers
        <5>3. Heard(c, holds, g)
          BY <4>2, <5>2 DEF Heard, Silent, Key, Creates
        <5>4. Anchor(c)[2] \in {0, g} /\ Anchor(c) = <<c.sel, c.param>>
          BY <1>1, <2>2, <4>2, <5>1, <5>2, <5>3 DEF Numbers, Anchor
        <5>5. g = c.ctx.id
          BY <1>1, <3>1, <5>4
        <5> QED
          BY <1>1, <5>1, <5>5 DEF Live
      <4>3. ~x.blind => ~c.blind /\ Silent(x, c.sel)
        BY <1>3, <1>12, <1>16 DEF Silent
      <4>4. x.sel = c.sel /\ c.gone \subseteq x.gone /\ x.blind = p
        BY <1>11, <1>12 DEF SamePlace
      <4> QED
        BY <1>1, <1>12, <1>14, <1>16, <4>1, <4>2, <4>3, <4>4, NumbersMoveOn
    <3>6. Totals(x, holds)
      <4>1. x.ctx.order = 0 /\ x.ctx.st # "paid"
        BY <1>12, NoBookingFacts
      <4>2. x.pending = c.pending /\ x.paying = c.paying /\ x.crossed = c.crossed /\ x.at # "failed"
        BY <1>1, <1>11 DEF SameMoney, SamePlace
      <4> QED
        BY <1>1, <1>7a, <1>12, <1>15, <1>16, <2>2, <4>1, <4>2 DEF Totals
    <3>7. ScreenReady(x)
      <4>1. Unsettled(x)
        BY <1>11, <1>12, <3>1 DEF Unsettled, SameGate
      <4>2. ~Asks(x)
        BY <1>11, <3>1 DEF Asks, SamePlace, SameGate
      <4> QED
        BY <1>1, <1>11, <1>12, <1>15, <3>1, <4>1, <4>2 DEF ScreenReady, Waits, SamePlace, SameGate
    <3> QED
      BY <1>17, <1>18, <3>2, <3>3, <3>4, <3>5, <3>6, <3>7 DEF Ready, Common
  <2> QED
    BY <2>1, <2>2
<1>20. attempts' = b /\ c' = Settle(x, b)
  BY <1>2, <1>6, <1>8, <1>13 DEF expireHold, BecomeWith
<1>21. SameHolds(holds') /\ Ready(x, attempts', holds') /\ c' = Settle(x, attempts') /\ x.paying = c.paying
  BY <1>1, <1>11, <1>19, <1>20, SameHoldsFacts DEF SameMoney
<1> QED
  BY <1>1, <1>21, Finish

-----------------------------------------------------------------------------
(* Every stored number is moved on.                                        *)

BumpAll == [s \in Sels |-> IF attempts[s] = 0 THEN 0 ELSE attempts[s] + 1]

LEMMA BumpAllFacts ==
  ASSUME attempts \in [Sels -> Nat], NEW b, b = BumpAll
  PROVE  Later(b) /\ \A t \in Sels : attempts[t] = 0 => attemptIn(b, t) = attemptIn(attempts, t)
<1>1. b \in [Sels -> Nat]
  BY DEF BumpAll
<1>2. \A t \in Sels : b[t] = IF attempts[t] = 0 THEN 0 ELSE attempts[t] + 1
  BY DEF BumpAll
<1>3. \A t \in Sels : attempts[t] \in Nat
  OBVIOUS
<1> QED
  BY <1>1, <1>2, <1>3 DEF Later, attemptIn

LEMMA MovesAllOnFacts ==
  ASSUME NEW x, IsTab(x), NEW h, NEW y, y = MovesAllOn(x, h)
  PROVE  \E p \in BOOLEAN : /\ y = [x EXCEPT !.blind = p]
                            /\ ~p => ~x.blind /\ \A s \in Sels : attempts[s] # 0 => s = holds[h].sel /\ Silent(x, s)
<1>1. PICK p : p = (x.blind \/ \E s \in Sels : attempts[s] # 0 /\ (s # holds[h].sel \/ Unheard(x, s)))
  OBVIOUS
<1>2. p \in BOOLEAN
  BY <1>1 DEF IsTab
<1>3. y = [x EXCEPT !.blind = p]
  BY <1>1 DEF MovesAllOn, IsTab, Fields
<1>4. \A s \in Sels : ~Unheard(x, s) => Silent(x, s)
  BY DEF Unheard, Silent, Key, Creates, attemptFor
<1> QED
  BY <1>1, <1>2, <1>3, <1>4

(* ... and the hold that was paid for, or given up, was the only one.      *)
LEMMA NumbersMoveAllOn ==
  ASSUME Facts(c, attempts, holds), Numbers(c, attempts, holds), NEW s \in Sels, NEW k,
         NEW b, b = BumpAll,
         NEW x, x.loose = c.loose, Creates(x) = Creates(c), c.gone \subseteq x.gone,
         ~x.stray => ~c.stray,
         ~x.blind => ~c.blind /\ \A t \in Sels : attempts[t] # 0 => t = s /\ Silent(x, t),
         ~x.stray /\ ~x.blind =>
           /\ Anchor(x) = Anchor(c) /\ Anchor(c) = <<s, k>> /\ k # 0 /\ ~Held(x, holds, k)
           /\ Own(x) = {} /\ ~Reviewing(x)
  PROVE  Numbers(x, b, holds)
<1> SUFFICES ASSUME ~x.stray, ~x.blind PROVE Numbers(x, b, holds)
  BY DEF Numbers
<1>1. attempts \in [Sels -> Nat]
  BY DEF Facts
<1>2. Later(b) /\ \A t \in Sels : attempts[t] = 0 => attemptIn(b, t) = attemptIn(attempts, t)
  BY <1>1, BumpAllFacts
<1>3. CASE attempts[s] = 0
  <2>1. \A t \in Sels : attemptIn(b, t) = attemptIn(attempts, t)
    BY <1>2, <1>3
  <2> QED
    BY <2>1, NumbersStay
<1>4. CASE attempts[s] # 0
  <2>1. Silent(x, s) /\ \A t \in Sels \ {s} : attemptIn(b, t) = attemptIn(attempts, t)
    BY <1>2, <1>4
  <2>2. ASSUME NEW g \in DOMAIN holds, Held(x, holds, g), holds[g].sel = s
        PROVE  FALSE
    <3>1. Held(c, holds, g)
      BY <2>2 DEF Held
    <3>2. holds[g].att = attemptIn(attempts, s)
      BY <2>2, <3>1 DEF Numbers
    <3>3. Heard(c, holds, g)
      BY <2>1, <2>2, <3>2 DEF Heard, Silent, Key
    <3>4. Anchor(c)[2] \in {0, g} /\ Anchor(c) = <<s, k>>
      BY <2>2, <3>1, <3>3 DEF Numbers
    <3> QED
      BY <2>2, <3>4
  <2> QED
    BY <2>1, <2>2, NumbersMoveOn
<1> QED
  BY <1>3, <1>4

(* What the poll of the confirmation screen publishes: paid or not, the    *)
(* booking is the one of its URL.                                          *)
LEMMA Published ==
  ASSUME Good(c, attempts, holds), c.at = "confirmation", NEW b, Later(b),
         NEW x, IsTab(x), SamePlace(c, x), SameMoney(c, x), x.ctx = Copy(c.param, None), x.back = c.back,
         x.net = c.net, x.gone = c.gone, x.stray = c.stray, x.foreign = c.foreign, x.quit = c.quit, x.opened = c.opened, x.returned = c.returned,
         Numbers(x, b, holds)
  PROVE  Ready(x, b, holds)
<1>1. /\ Facts(c, attempts, holds) /\ Places(c, holds) /\ Quit(c) /\ Tags(c, holds) /\ Totals(c, holds)
      /\ IsTab(c)
      /\ holds \in Seq(HoldType)
  BY GoodFacts
<1>2. c.param # 0 /\ c.param \in 0 .. Len(holds) /\ c.param \in DOMAIN holds
  BY <1>1 DEF Facts
<1>3. x.ctx.id = c.param /\ x.ctx.for = None /\ x.ctx.order = holds[c.param].order
  BY <1>1, <1>2, CopyFacts DEF Tickets
<1>4. /\ ~Reviewing(x) /\ ~Reviewing(c) /\ Anchor(x) = Anchor(c) /\ Own(x) = {} /\ Writing(x) = Writing(c)
      /\ (AfterPay(x) <=> AfterPay(c)) /\ x.at = "confirmation"
  BY DEF Reviewing, Anchor, Own, Mine, Writing, AfterPay, SamePlace, SameMoney
<1>5. Facts(x, b, holds)
  BY <1>1, <1>2, <1>3, <1>4, FactsKept DEF Facts, SamePlace, SameMoney
<1>6. Places(x, holds)
  BY <1>1, <1>3, <1>4 DEF Places, SamePlace, SameMoney
<1>7. Screen(x) /\ ScreenReady(x)
  BY <1>4 DEF Screen, ScreenReady
<1>8. Quit(x)
  BY <1>1, <1>4 DEF Quit
<1>9. Tags(x, holds)
  BY <1>1, <1>3, <1>4 DEF Tags
<1>10. Totals(x, holds)
  BY <1>1, <1>3, <1>4 DEF Totals, SameMoney
<1> QED
  BY <1>5, <1>6, <1>7, <1>8, <1>9, <1>10 DEF Ready, Common

LEMMA PollKept ==
  ASSUME Good(c, attempts, holds), Poll
  PROVE  Kept
<1>1. /\ Facts(c, attempts, holds) /\ Places(c, holds) /\ Numbers(c, attempts, holds) /\ IsTab(c)
      /\ attempts \in [Sels -> Nat] /\ holds \in Seq(HoldType) /\ c.at = "confirmation" /\ holds' = holds
      /\ SameHolds(holds')
  BY GoodFacts, SameHoldsFacts DEF Poll
<1>2. c.param # 0 /\ c.param \in 0 .. Len(holds) /\ c.param \in DOMAIN holds
  BY <1>1 DEF Facts
<1>3. PICK k : k = Copy(c.param, None)
  OBVIOUS
<1>4. PICK x : x = [c EXCEPT !.ctx = k]
  OBVIOUS
<1>5. k \in BookingType
  BY <1>1, <1>2, <1>3, CopyFacts DEF Tickets
<1>6. IsTab(x) /\ SamePlace(c, x) /\ SameMoney(c, x)
  <2>1. IsTab(x)
    BY <1>1, <1>4, <1>5 DEF IsTab, Fields
  <2>2. SamePlace(c, x) /\ SameMoney(c, x)
    BY <1>1, <1>4 DEF IsTab, Fields, SamePlace, SameMoney
  <2> QED
    BY <2>1, <2>2
<1>7. /\ x.ctx = k /\ x.back = c.back /\ x.net = c.net /\ x.gone = c.gone /\ x.stray = c.stray
      /\ x.foreign = c.foreign /\ x.quit = c.quit /\ x.opened = c.opened /\ x.returned = c.returned
      /\ x.loose = c.loose /\ x.blind = c.blind
  BY <1>1, <1>4 DEF IsTab, Fields
<1>8. CASE holds[c.param].st # "paid"
  <2>1. c' = Settle(x, attempts') /\ attempts' = attempts
    BY <1>3, <1>4, <1>8 DEF Poll, Become
  <2>2. ~Reviewing(x) /\ Anchor(x) = Anchor(c) /\ Own(x) = {} /\ Creates(x) = Creates(c)
    BY <1>1, <1>6, <1>7 DEF Reviewing, Anchor, Own, Mine, Creates, SamePlace
  <2>3. Numbers(x, attempts, holds)
    BY <1>1, <1>7, <2>2, NumbersStay
  <2>4. Later(attempts)
    BY <1>1 DEF Later, attemptIn
  <2>5. Ready(x, attempts, holds)
    BY <1>1, <1>3, <1>6, <1>7, <2>3, <2>4, Published
  <2> QED
    BY <1>1, <1>6, <2>1, <2>5, Finish DEF SameMoney
<1>9. CASE holds[c.param].st = "paid"
  <2>1. PICK m : m = MovesAllOn(x, c.param)
    OBVIOUS
  <2>2. PICK y : y = [m EXCEPT !.blind = @ \/ c.fromList]
    OBVIOUS
  <2>3. PICK b : b = BumpAll
    OBVIOUS
  <2>4. c' = Settle(y, attempts) /\ attempts' = b
    BY <1>3, <1>4, <1>9, <2>1, <2>2, <2>3 DEF Poll, Become, bumpAllAttemptsForEvent, BumpAll
  <2>5. PICK p \in BOOLEAN :
          /\ m = [x EXCEPT !.blind = p]
          /\ ~p => ~x.blind /\ \A s \in Sels : attempts[s] # 0 => s = holds[c.param].sel /\ Silent(x, s)
    BY <1>6, <2>1, MovesAllOnFacts
  <2>6. PICK f \in BOOLEAN : f = (p \/ c.fromList)
    BY <1>1 DEF IsTab
  <2>7. y = [x EXCEPT !.blind = f]
    BY <1>6, <2>2, <2>5, <2>6 DEF IsTab, Fields
  <2>8. IsTab(y) /\ SamePlace(c, y) /\ SameMoney(c, y)
    <3>1. IsTab(y)
      BY <1>6, <2>7 DEF IsTab, Fields
    <3>2. SamePlace(x, y) /\ SameMoney(x, y)
      BY <1>6, <2>7 DEF IsTab, Fields, SamePlace, SameMoney
    <3> QED
      BY <1>6, <3>1, <3>2 DEF SamePlace, SameMoney
  <2>9. /\ y.ctx = k /\ y.back = c.back /\ y.net = c.net /\ y.gone = c.gone /\ y.stray = c.stray
        /\ y.foreign = c.foreign /\ y.quit = c.quit /\ y.opened = c.opened /\ y.returned = c.returned
        /\ y.loose = c.loose /\ y.blind = f
    BY <1>6, <1>7, <2>7 DEF IsTab, Fields
  <2>10. Later(b)
    BY <1>1, <2>3, BumpAllFacts
  <2>11. Numbers(y, b, holds)
    <3>1. /\ ~Reviewing(y) /\ ~Reviewing(c) /\ Anchor(y) = Anchor(c) /\ Anchor(c) = c.back /\ Own(y) = {}
          /\ Creates(y) = Creates(c)
      BY <1>1, <2>8, <2>9 DEF Reviewing, Anchor, Own, Mine, Creates, SamePlace
    <3>2. ~f => ~c.blind /\ ~c.fromList /\ \A s \in Sels : attempts[s] # 0 => s = holds[c.param].sel /\ Silent(y, s)
      BY <1>7, <2>5, <2>6, <2>9 DEF Silent, Creates
    <3>3. holds[c.param].sel \in Sels
      <4>1. holds[c.param] \in HoldType
        BY <1>1, <1>2
      <4> QED
        BY <4>1 DEF HoldType
    <3>4. ~c.stray /\ ~c.fromList => c.back[2] = c.param /\ c.back[1] = holds[c.param].sel
      BY <1>1, <1>2 DEF Places, AfterPay
    <3>5. c.back = <<c.back[1], c.back[2]>>
      BY <1>1 DEF IsTab
    <3>6. ~Held(y, holds, c.param)
      BY <1>9 DEF Held, Live
    <3> QED
      BY <1>1, <1>2, <2>3, <2>9, <3>1, <3>2, <3>3, <3>4, <3>5, <3>6, NumbersMoveAllOn
  <2>12. Ready(y, b, holds)
    BY <1>1, <1>3, <2>8, <2>9, <2>10, <2>11, Published
  <2>13. Settle(y, attempts) = Settle(y, b)
    BY <1>1, <2>8 DEF Settle, SamePlace
  <2> QED
    BY <1>1, <2>4, <2>8, <2>12, <2>13, Finish DEF SameMoney
<1> QED
  BY <1>8, <1>9

-----------------------------------------------------------------------------
(* The last two screens, and the ways out.                                 *)

LEMMA PaidAfterAllKept ==
  ASSUME Good(c, attempts, holds), PaidAfterAll
  PROVE  Kept
<1>1. /\ Facts(c, attempts, holds) /\ Places(c, holds) /\ IsTab(c) /\ c.at = "failed"
      /\ attempts \in [Sels -> Nat] /\ holds \in Seq(HoldType) /\ attempts' = attempts /\ holds' = holds
  BY GoodFacts DEF PaidAfterAll
<1>2. c.param # 0 /\ c.param \in 0 .. Len(holds) /\ c.param \in Nat
  BY <1>1 DEF Facts, IsTab
<1>3. PICK x, p, l : x = Landing(l, "confirmation", p) /\ p = c.param /\ l = c
  OBVIOUS
<1>4. /\ IsTab(x) /\ SameMoney(c, x) /\ SamePast(c, x)
      /\ x.at = "confirmation" /\ x.param = c.param /\ x.mount = c.mount
      /\ x.back = c.back /\ x.gone = c.gone /\ x.net = c.net /\ x.stray = c.stray
      /\ x.ctx \in {c.ctx, NoBooking}
  <2>1. IsTab(l) /\ p \in Nat
    BY <1>1, <1>2, <1>3
  <2>2. /\ IsTab(x) /\ SameMoney(l, x) /\ SamePast(l, x)
        /\ x.at = "confirmation" /\ x.param = p /\ x.mount = l.mount
        /\ x.back = l.back /\ x.gone = l.gone /\ x.net = l.net /\ x.stray = l.stray
        /\ x.ctx \in {l.ctx, NoBooking}
    BY <1>3, <2>1, Confirmation
  <2> QED
    BY <1>3, <2>2
<1>5. AfterPay(c) /\ ~Reviewing(c) /\ ~Reviewing(x) /\ Anchor(x) = Anchor(c) /\ Anchor(c) = c.back
  BY <1>1, <1>4 DEF AfterPay, Reviewing, Anchor
<1>6. Places(x, holds)
  BY <1>1, <1>4, <1>5, NoBookingFacts DEF Places, SamePast, SameMoney
<1>7. Good(x, attempts, holds)
  BY <1>1, <1>2, <1>4, <1>5, <1>6, Outside DEF SamePast, SameMoney, Creates
<1>8. c' = Settle(x, attempts')
  BY <1>1, <1>3 DEF PaidAfterAll, Become
<1> QED
  BY <1>1, <1>4, <1>7, <1>8, GoodIsReady, SameHoldsFacts, Finish DEF SameMoney

(* The checkout is left.                                                   *)
LEMMA GoesOut ==
  ASSUME Good(c, attempts, holds), c.paying = NoPay, c' = [c EXCEPT !.at = "out", !.sel = None, !.ctx = NoBooking],
         UNCHANGED <<attempts, holds>>
  PROVE  Kept
<1>1. /\ Facts(c, attempts, holds) /\ Places(c, holds) /\ IsTab(c) /\ (c.at = "review" => Reviewing(c))
  BY GoodFacts
<1>2. PICK x : x = c'
  OBVIOUS
<1>3. IsTab(x) /\ SameMoney(c, x) /\ SamePast(c, x)
  <2>1. IsTab(x)
    BY <1>1, <1>2, NoBookingFacts DEF IsTab, Fields, Tickets
  <2>2. SameMoney(c, x) /\ SamePast(c, x)
    BY <1>1, <1>2 DEF IsTab, Fields, SameMoney, SamePast
  <2> QED
    BY <2>1, <2>2
<1>4. /\ x.at = "out" /\ x.param = c.param /\ x.mount = c.mount
      /\ x.back = c.back /\ x.gone = c.gone /\ x.net = c.net /\ x.stray = c.stray /\ x.ctx = NoBooking
  BY <1>1, <1>2 DEF IsTab, Fields
<1>5. ~AfterPay(x) /\ ~Reviewing(x)
  BY <1>4 DEF AfterPay, Reviewing
<1>6. Places(x, holds)
  BY <1>1, <1>3, <1>4, <1>5, NoBookingFacts DEF Places, SamePast, SameMoney
<1>7. c.param \in 0 .. Len(holds)
  BY <1>1 DEF Facts
<1>8. Good(x, attempts, holds)
  BY <1>3, <1>4, <1>5, <1>6, <1>7, Outside DEF SamePast, SameMoney, Creates
<1> QED
  BY <1>2, <1>3, <1>8 DEF Kept, PaysRight, SameMoney

LEMMA OpenFromListKept ==
  ASSUME Good(c, attempts, holds), c.paying = NoPay, NEW h \in DOMAIN holds, OpenFromList(h)
  PROVE  Kept
<1>1. /\ Facts(c, attempts, holds) /\ Places(c, holds) /\ IsTab(c) /\ c.at = "out"
      /\ attempts \in [Sels -> Nat] /\ holds \in Seq(HoldType) /\ attempts' = attempts /\ holds' = holds
  BY GoodFacts DEF OpenFromList, Here
<1>2. h \in Nat /\ h # 0 /\ h \in 0 .. Len(holds)
  BY <1>1
<1>3. PICK x : x = [NewLayout(c) EXCEPT !.at = "confirmation", !.param = h, !.fromList = TRUE]
  OBVIOUS
<1>4. x = [c EXCEPT !.layout = @ + 1, !.ctx = NoBooking, !.at = "confirmation", !.param = h, !.fromList = TRUE]
  BY <1>1, <1>3 DEF NewLayout, IsTab, Fields
<1>5. IsTab(x) /\ SameMoney(c, x) /\ SamePast(c, x)
  <2>1. IsTab(x)
    BY <1>1, <1>2, <1>4, NoBookingFacts DEF IsTab, Fields
  <2>2. SameMoney(c, x) /\ SamePast(c, x)
    BY <1>1, <1>4 DEF IsTab, Fields, SameMoney, SamePast
  <2> QED
    BY <2>1, <2>2
<1>6. /\ x.at = "confirmation" /\ x.param = h /\ x.mount = c.mount /\ x.fromList
      /\ x.back = c.back /\ x.gone = c.gone /\ x.net = c.net /\ x.stray = c.stray /\ x.ctx = NoBooking
  BY <1>1, <1>4 DEF IsTab, Fields
<1>7. ~AfterPay(x) /\ ~Reviewing(x)
  BY <1>5, <1>6 DEF AfterPay, Reviewing, SameMoney
<1>8. Places(x, holds)
  BY <1>1, <1>5, <1>6, <1>7, NoBookingFacts DEF Places, SamePast, SameMoney
<1>9. Good(x, attempts, holds)
  BY <1>2, <1>5, <1>6, <1>7, <1>8, Outside DEF SamePast, SameMoney, Creates
<1>10. c' = Settle(x, attempts')
  BY <1>1, <1>3 DEF OpenFromList, Become
<1> QED
  BY <1>1, <1>5, <1>9, <1>10, GoodIsReady, SameHoldsFacts, Finish DEF SameMoney

(* Another try to pay: the order is read anew.                             *)
LEMMA PayAgainKept ==
  ASSUME Good(c, attempts, holds), payAgain
  PROVE  Kept
<1>1. /\ Facts(c, attempts, holds) /\ Places(c, holds) /\ Screen(c) /\ ScreenSettled(c) /\ Quit(c)
      /\ Numbers(c, attempts, holds) /\ Tags(c, holds) /\ Totals(c, holds) /\ IsTab(c)
      /\ attempts \in [Sels -> Nat] /\ holds \in Seq(HoldType) /\ c.at = "failed" /\ c.paying = NoPay
      /\ attempts' = attempts /\ holds' = holds
  BY GoodFacts DEF payAgain, Here
<1>2. c.param # 0 /\ c.param \in 0 .. Len(holds) /\ c.param \in DOMAIN holds
  BY <1>1 DEF Facts
<1>3. PICK n : n = holds[c.param].order
  OBVIOUS
<1>4. n \in Nat
  <2>1. holds[c.param] \in HoldType
    BY <1>1, <1>2
  <2> QED
    BY <1>3, <2>1 DEF HoldType
<1>5. PICK x : x = c'
  OBVIOUS
<1>6. x = [c EXCEPT !.paying = <<c.param, n>>]
  BY <1>3, <1>5 DEF payAgain
<1>7. IsTab(x) /\ SamePlace(c, x) /\ SamePast(c, x)
  <2>1. IsTab(x)
    BY <1>1, <1>2, <1>4, <1>6 DEF IsTab, Fields
  <2>2. SamePlace(c, x) /\ SamePast(c, x)
    BY <1>1, <1>6 DEF IsTab, Fields, SamePlace, SamePast
  <2> QED
    BY <2>1, <2>2
<1>8. /\ x.ctx = c.ctx /\ x.back = c.back /\ x.net = c.net /\ x.gone = c.gone /\ x.stray = c.stray
      /\ x.crossed = c.crossed /\ x.paying = <<c.param, n>> /\ x.paying[1] = c.param
  BY <1>1, <1>6 DEF IsTab, Fields
<1>9. /\ ~Reviewing(x) /\ ~Reviewing(c) /\ Anchor(x) = Anchor(c) /\ Anchor(c) = c.back /\ Own(x) = {}
      /\ Creates(x) = Creates(c) /\ Writing(x) = Writing(c) /\ AfterPay(c) /\ AfterPay(x) /\ x.at = "failed"
  BY <1>1, <1>7, <1>8 DEF Reviewing, Anchor, Own, Mine, Creates, Writing, AfterPay, SamePlace
<1>10. Facts(x, attempts, holds)
  <2>1. Later(attempts)
    BY <1>1 DEF Later, attemptIn
  <2>2. x.ctx.id \in 0 .. Len(holds) /\ x.param = c.param /\ x.mount = c.mount
    BY <1>1, <1>7, <1>8 DEF Facts, SamePlace
  <2> QED
    BY <1>1, <1>2, <1>7, <1>8, <1>9, <2>1, <2>2, FactsKept
<1>11. Places(x, holds)
  BY <1>1, <1>7, <1>8, <1>9 DEF Places, SamePlace, SamePast
<1>12. Screen(x) /\ ScreenSettled(x) /\ Clears(x, holds)
  BY <1>9 DEF Screen, ScreenSettled, Clears
<1>13. Quit(x)
  BY <1>1, <1>7, <1>8, <1>9 DEF Quit, SamePast
<1>14. Numbers(x, attempts, holds)
  BY <1>1, <1>7, <1>8, <1>9, NumbersStay DEF SamePast
<1>15. Tags(x, holds)
  BY <1>1, <1>7, <1>8, <1>9 DEF Tags, SamePast
<1>16. Totals(x, holds)
  BY <1>1, <1>8, <1>9 DEF Totals
<1>17. Good(x, attempts, holds)
  BY <1>10, <1>11, <1>12, <1>13, <1>14, <1>15, <1>16 DEF Good, Common
<1>18. c'.paying[1] = c.param /\ c'.paying[2] = n
  BY <1>5, <1>8
<1> QED
  BY <1>1, <1>3, <1>5, <1>17, <1>18 DEF Kept, PaysRight

(* The capture of a payment changes nothing else.                          *)
LEMMA CaptureDims ==
  ASSUME Facts(c, attempts, holds), c.paying # NoPay,
         NEW hs, hs = holds \/ hs = [holds EXCEPT ![c.paying[1]].cap = c.paying[2]]
  PROVE  Dims(holds, hs)
<1>1. /\ holds \in Seq(HoldType) /\ c.paying[1] \in DOMAIN holds /\ c.paying[2] \in Nat
      /\ \A h \in DOMAIN holds : holds[h].st = "reserved" => ~holds[h].due
  BY DEF Facts, HoldFine, IsTab
<1>2. CASE hs = holds
  BY <1>1, <1>2 DEF Dims
<1>3. CASE hs = [holds EXCEPT ![c.paying[1]].cap = c.paying[2]]
  <2>1. PICK k : k = c.paying[1]
    OBVIOUS
  <2>2. k \in DOMAIN holds /\ holds[k] \in HoldType
    BY <1>1, <2>1
  <2>3. PICK g : g = [holds[k] EXCEPT !.cap = c.paying[2]]
    OBVIOUS
  <2>4. /\ g \in HoldType /\ g.sel = holds[k].sel /\ g.att = holds[k].att /\ g.ver = holds[k].ver
        /\ g.st = holds[k].st /\ g.due = holds[k].due /\ g.order = holds[k].order
    BY <1>1, <2>2, <2>3 DEF HoldType
  <2>5. hs = [holds EXCEPT ![k] = g]
    BY <1>3, <2>1, <2>3
  <2>6. hs \in Seq(HoldType) /\ Len(hs) = Len(holds) /\ DOMAIN hs = DOMAIN holds /\ hs[k] = g
        /\ \A h \in DOMAIN holds : h # k => hs[h] = holds[h]
    BY <1>1, <2>2, <2>4, <2>5, OneChanges
  <2>7. \A h \in DOMAIN holds :
          /\ hs[h].sel = holds[h].sel /\ hs[h].att = holds[h].att /\ hs[h].ver = holds[h].ver
          /\ hs[h].st = holds[h].st /\ hs[h].due = holds[h].due /\ hs[h].order = holds[h].order
    BY <2>4, <2>6
  <2> QED
    BY <1>1, <2>6, <2>7 DEF Dims, Live
<1> QED
  BY <1>2, <1>3

(* Back from the provider, to the screen that says how it went.            *)
LEMMA BackFromPay ==
  ASSUME NEW hs, Good(c, attempts, hs), c.paying # NoPay, NEW l, l = [c EXCEPT !.paying = NoPay],
         NEW at \in {"failed", "confirmation"}, NEW p, p = c.paying[1], NEW x, x = Landing(l, at, p)
  PROVE  Good(x, attempts, hs) /\ x.at \in {"failed", "confirmation"} /\ x.paying = NoPay
<1>1. /\ Facts(c, attempts, hs) /\ Places(c, hs) /\ IsTab(c) /\ (c.at = "review" => Reviewing(c))
      /\ ScreenSettled(c)
  BY GoodFacts
<1>2. p \in 0 .. Len(hs) /\ p # 0 /\ p \in Nat
  BY <1>1 DEF Facts, IsTab
<1>3. IsTab(l) /\ SamePast(c, l)
  <2>1. IsTab(l)
    BY <1>1 DEF IsTab, Fields, NoPay
  <2>2. SamePast(c, l)
    BY <1>1 DEF IsTab, Fields, SamePast
  <2> QED
    BY <2>1, <2>2
<1>4. /\ l.mount = c.mount /\ l.ctx = c.ctx /\ l.crossed = c.crossed
      /\ l.back = c.back /\ l.gone = c.gone /\ l.net = c.net /\ l.stray = c.stray /\ l.paying = NoPay
  BY <1>1 DEF IsTab, Fields
<1>5. /\ IsTab(x) /\ SameMoney(l, x) /\ SamePast(l, x)
      /\ x.at = at /\ x.param = p /\ ~x.fromList /\ x.mount = l.mount
      /\ x.back = l.back /\ x.gone = l.gone /\ x.net = l.net /\ x.stray = l.stray
      /\ x.ctx \in {l.ctx, NoBooking}
  <2>1. /\ IsTab(x) /\ SameGate(l, x) /\ SameFace(l, x) /\ SameMoney(l, x) /\ SamePast(l, x)
        /\ x.at = at /\ x.param = p /\ ~x.fromList /\ x.sel = l.sel /\ x.mount = l.mount
        /\ x.back = l.back /\ x.gone = l.gone /\ x.net = l.net /\ x.stray = l.stray
        /\ x.ctx \in {l.ctx, NoBooking}
    <3>1. p \in Nat /\ at \in {"failed", "confirmation"} /\ IsTab(l) /\ x = Landing(l, at, p)
      BY <1>2, <1>3
    <3> QED
      BY ONLY <3>1, LandingFacts
  <2> QED
    BY <2>1
<1>6. /\ SamePast(c, x) /\ x.paying = NoPay /\ x.crossed = c.crossed /\ x.mount = c.mount
      /\ x.back = c.back /\ x.gone = c.gone /\ x.net = c.net /\ x.stray = c.stray
      /\ x.ctx \in {c.ctx, NoBooking}
  BY <1>3, <1>4, <1>5 DEF SamePast, SameMoney
<1>7. ~Reviewing(x) /\ AfterPay(x) /\ Anchor(x) = c.back
  BY <1>5, <1>6 DEF Reviewing, AfterPay, Anchor
<1>8. ~c.stray => /\ Reviewing(c) \/ AfterPay(c)
                  /\ p = c.back[2]
                  /\ c.ctx.id # 0 => c.ctx.id = c.back[2] /\ c.ctx.for \in {None, c.back[1]}
  <2> SUFFICES ASSUME ~c.stray
               PROVE  /\ Reviewing(c) \/ AfterPay(c)
                      /\ p = c.back[2]
                      /\ c.ctx.id # 0 => c.ctx.id = c.back[2] /\ c.ctx.for \in {None, c.back[1]}
    OBVIOUS
  <2>1. p = Anchor(c)[2] /\ c.at \notin {"out", "picker"}
    BY <1>1 DEF Places
  <2>2. CASE Reviewing(c)
    <3>1. c.back = <<c.sel, c.param>> /\ Anchor(c) = <<c.sel, c.param>>
      BY <1>1, <2>2 DEF ScreenSettled, Anchor, Reviewing
    <3> QED
      BY <1>1, <2>1, <2>2, <3>1 DEF Places
  <2>3. CASE ~Reviewing(c)
    <3>1. AfterPay(c) /\ Anchor(c) = c.back
      BY <1>1, <2>1, <2>3 DEF AfterPay, IsTab, Anchor
    <3> QED
      BY <1>1, <2>1, <2>3, <3>1 DEF Places
  <2> QED
    BY <2>2, <2>3
<1>9. Places(x, hs)
  BY <1>1, <1>5, <1>6, <1>7, <1>8, NoBookingFacts DEF Places, SamePast
<1>10. Good(x, attempts, hs)
  BY <1>1, <1>2, <1>5, <1>6, <1>7, <1>8, <1>9, Outside DEF SamePast, Creates
<1> QED
  BY <1>5, <1>6, <1>10

(* ... or to the screen it was opened from.                                *)
LEMMA PayClosed ==
  ASSUME Good(c, attempts, holds), NEW x, x = [c EXCEPT !.paying = NoPay]
  PROVE  Ready(x, attempts, holds) /\ x.paying = NoPay
<1>1. /\ Facts(c, attempts, holds) /\ Places(c, holds) /\ Screen(c) /\ ScreenSettled(c) /\ Quit(c)
      /\ Numbers(c, attempts, holds) /\ Tags(c, holds) /\ Totals(c, holds) /\ IsTab(c)
      /\ attempts \in [Sels -> Nat] /\ holds \in Seq(HoldType) /\ (c.at = "review" => Reviewing(c))
  BY GoodFacts
<1>2. IsTab(x) /\ SamePlace(c, x) /\ SameGate(c, x) /\ SameFace(c, x) /\ SamePast(c, x)
  <2>1. IsTab(x)
    BY <1>1 DEF IsTab, Fields, NoPay
  <2>2. SamePlace(c, x) /\ SameGate(c, x) /\ SameFace(c, x) /\ SamePast(c, x)
    BY <1>1 DEF IsTab, Fields, SamePlace, SameGate, SameFace, SamePast
  <2> QED
    BY <2>1, <2>2
<1>3. /\ x.ctx = c.ctx /\ x.back = c.back /\ x.net = c.net /\ x.gone = c.gone /\ x.stray = c.stray
      /\ x.crossed = c.crossed /\ x.pending = c.pending /\ x.paying = NoPay /\ x.releasing = c.releasing
  BY <1>1 DEF IsTab, Fields
<1>4. /\ (Reviewing(x) <=> Reviewing(c)) /\ Anchor(x) = Anchor(c) /\ Own(x) = Own(c) /\ Creates(x) = Creates(c)
      /\ Writing(x) = Writing(c) /\ (AfterPay(x) => AfterPay(c)) /\ (\A q : Mine(x, q) <=> Mine(c, q))
  BY <1>2, <1>3 DEF Reviewing, Anchor, Own, Mine, Creates, Writing, AfterPay, SamePlace
<1>5. Facts(x, attempts, holds)
  <2>1. Later(attempts)
    BY <1>1 DEF Later, attemptIn
  <2>2. /\ x.ctx.id \in 0 .. Len(holds) /\ x.param \in 0 .. Len(holds) /\ x.paying[1] \in 0 .. Len(holds)
        /\ x.mount = c.mount /\ x.layout = c.layout /\ x.at = c.at /\ x.param = c.param
    BY <1>1, <1>2, <1>3 DEF Facts, SamePlace, NoPay
  <2> QED
    <3>1. /\ IsTab(x) /\ x.net \subseteq c.net /\ x.gone \subseteq c.gone /\ x.back = c.back
          /\ Reviewing(x) => Reviewing(c)
      BY <1>2, <1>3, <1>4
    <3>2. /\ {x.ctx.id, x.param, x.paying[1]} \subseteq 0 .. Len(holds) /\ x.paying = NoPay
          /\ x.at \in {"failed", "confirmation"} => x.param # 0
          /\ x.at = "review" => x.mount # 0
      BY <1>1, <1>3, <2>2 DEF Facts
    <3>3. Facts(c, attempts, holds)
      BY <1>1
    <3> QED
      BY ONLY <2>1, <2>2, <3>1, <3>2, <3>3, FactsKept
<1>6. Places(x, holds)
  BY <1>1, <1>2, <1>3, <1>4 DEF Places, SamePlace, SameGate, SameFace, SamePast
<1>7. Screen(x)
  <2> SUFFICES ASSUME ~x.stray, Reviewing(x) PROVE Screen(x)
    BY DEF Screen
  <2>1. /\ x.sel = c.sel /\ x.param = c.param /\ x.checked = c.checked /\ x.asked = c.asked
        /\ x.attempted = c.attempted /\ x.timer = c.timer /\ x.err = c.err /\ x.over = c.over
        /\ x.retried = c.retried /\ x.ctx = c.ctx /\ x.gone = c.gone /\ Own(x) = Own(c)
    BY <1>2, <1>3, <1>4 DEF SamePlace, SameGate, SameFace
  <2> QED
    <3>1. Screen(c) /\ ~c.stray /\ Reviewing(c) /\ x.paying = NoPay
      BY <1>1, <1>3, <1>4
    <3> QED
      BY ONLY <2>1, <3>1 DEF Screen
<1>8. Quit(x)
  BY <1>1, <1>2, <1>3, <1>4 DEF Quit, SameGate, SameFace, SamePast
<1>9. Numbers(x, attempts, holds)
  BY <1>1, <1>2, <1>3, <1>4, NumbersStay DEF SamePast, SameFace, SamePlace
<1>10. Tags(x, holds)
  BY <1>1, <1>2, <1>3, <1>4 DEF Tags, SamePast
<1>11. Totals(x, holds)
  <2>1. Totals(c, holds) /\ (x.at = "failed" => c.at = "failed") /\ x.returned = c.returned
    BY <1>1, <1>2 DEF SamePlace, SamePast
  <2> QED
    BY ONLY <1>3, <1>4, <2>1 DEF Totals
<1>12. ScreenReady(x)
  <2>1. ~c.stray /\ Reviewing(x) => ~Asks(x)
    BY <1>1, <1>2, <1>4 DEF Asks, ScreenSettled, SamePlace, SameGate
  <2> QED
    BY <1>1, <1>2, <1>3, <1>4, <2>1 DEF ScreenReady, ScreenSettled, Waits, SamePlace, SameGate, SameFace
<1> QED
  BY <1>3, <1>5, <1>6, <1>7, <1>8, <1>9, <1>10, <1>11, <1>12 DEF Ready, Common

LEMMA OutcomeKept ==
  ASSUME Good(c, attempts, holds), Outcome
  PROVE  Kept
<1>1. /\ Facts(c, attempts, holds) /\ IsTab(c) /\ holds \in Seq(HoldType) /\ attempts' = attempts
      /\ c.paying # NoPay
  BY GoodFacts DEF Outcome
<1>2. PICK l, p, hs : l = [c EXCEPT !.paying = NoPay] /\ p = c.paying[1] /\ hs = holds'
  OBVIOUS
<1>3. \/ /\ hs = holds \/ hs = [holds EXCEPT ![c.paying[1]].cap = c.paying[2]]
         /\ \E at \in {"failed", "confirmation"} : Become(Landing(l, at, p))
      \/ Become(l) /\ hs = holds
  BY <1>2 DEF Outcome
<1>4. CASE /\ hs = holds \/ hs = [holds EXCEPT ![c.paying[1]].cap = c.paying[2]]
           /\ \E at \in {"failed", "confirmation"} : Become(Landing(l, at, p))
  <2>1. PICK at \in {"failed", "confirmation"} : Become(Landing(l, at, p))
    BY <1>4
  <2>2. PICK x : x = Landing(l, at, p)
    OBVIOUS
  <2>3. Good(c, attempts, hs)
    BY <1>1, <1>4, CaptureDims, DimsIsGood
  <2>4. Good(x, attempts, hs) /\ x.at \in {"failed", "confirmation"} /\ x.paying = NoPay
    BY <1>1, <1>2, <2>2, <2>3, BackFromPay
  <2>5. c' = x
    BY <2>1, <2>2, <2>4 DEF Become, Settle
  <2> QED
    BY <1>1, <1>2, <2>4, <2>5 DEF Kept, PaysRight
<1>5. CASE Become(l) /\ hs = holds
  <2>1. Ready(l, attempts, holds) /\ l.paying = NoPay
    BY <1>2, PayClosed
  <2>2. c' = Settle(l, attempts') /\ holds' = holds
    BY <1>1, <1>2, <1>5 DEF Become
  <2> QED
    BY <1>1, <2>1, <2>2, SameHoldsFacts, Finish
<1> QED
  BY <1>3, <1>4, <1>5

-----------------------------------------------------------------------------
(* A write on the booking shown, and the payment.                          *)

IsWrite(q, x, h, k) ==
  /\ IsRequest(q) /\ q.kind = "write" /\ q.h = h /\ q.what = k /\ q.mount = x.mount /\ q.layout = x.layout
  /\ q.ans = "sent" /\ q.for = x.ctx.for

LEMMA WriteFacts ==
  ASSUME holds \in Seq(HoldType), NEW x, IsTab(x), NEW h \in DOMAIN holds, NEW k
  PROVE  IsWrite(Request(x, "write", h, k), x, h, k)
<1>1. h \in Nat
  OBVIOUS
<1> QED
  BY <1>1, RequestFacts DEF IsWrite

LEMMA WriteSent ==
  ASSUME Good(c, attempts, holds), c.at = "review", c.ctx.id # 0, NEW k, NEW q, IsWrite(q, c, c.ctx.id, k),
         k = "order" => c.ctx.order = 0,
         NEW x, IsTab(x), SamePlace(c, x), SameGate(c, x), SameFace(c, x), SamePast(c, x),
         x.ctx = c.ctx, x.back = c.back, x.net = c.net \cup {q}, x.gone = c.gone, x.stray = c.stray,
         x.releasing = c.releasing, x.pending = c.pending \cup {k}, x.paying = NoPay, c.paying = NoPay,
         k \in Writes, ~x.crossed => ~c.crossed /\ c.pending = {}
  PROVE  Ready(x, attempts, holds)
<1>1. /\ Facts(c, attempts, holds) /\ Places(c, holds) /\ Screen(c) /\ ScreenSettled(c) /\ Quit(c)
      /\ Numbers(c, attempts, holds) /\ Tags(c, holds) /\ Totals(c, holds) /\ IsTab(c)
      /\ attempts \in [Sels -> Nat] /\ holds \in Seq(HoldType) /\ Reviewing(c)
  BY GoodFacts
<1>2. /\ IsRequest(q) /\ q.kind = "write" /\ q.h = c.ctx.id /\ q.what = k /\ q.mount = c.mount
      /\ q.layout = c.layout
      /\ q.ans = "sent" /\ q.for = c.ctx.for
  BY DEF IsWrite
<1>3. c.ctx.id \in DOMAIN holds /\ c.ctx.id \in 0 .. Len(holds)
  BY <1>1 DEF Facts
<1>4. /\ Reviewing(x) /\ Anchor(x) = Anchor(c) /\ Creates(x) = Creates(c) /\ Writing(x) = Writing(c) \cup {q}
      /\ ~AfterPay(x) /\ (\A r : Mine(x, r) <=> Mine(c, r)) /\ Own(x) = Own(c) \cup {q}
  <2>1. Reviewing(x) /\ Anchor(x) = Anchor(c) /\ ~AfterPay(x) /\ (\A r : Mine(x, r) <=> Mine(c, r)) /\ Mine(c, q)
    BY <1>1, <1>2 DEF Reviewing, Anchor, Mine, AfterPay, SamePlace
  <2> QED
    BY <1>2, <2>1 DEF Creates, Writing, Own
<1>5. /\ x.sel = c.sel /\ x.param = c.param /\ x.at = "review" /\ x.mount = c.mount /\ x.layout = c.layout
      /\ x.checked = c.checked /\ x.asked = c.asked
      /\ x.attempted = c.attempted /\ x.timer = c.timer /\ x.err = c.err /\ x.over = c.over /\ x.seen = c.seen
      /\ x.retried = c.retried /\ x.clearing = c.clearing /\ x.retrying = c.retrying /\ x.nonce = c.nonce
      /\ x.quit = c.quit /\ x.opened = c.opened /\ x.returned = c.returned /\ x.foreign = c.foreign
      /\ x.loose = c.loose /\ x.blind = c.blind
  BY DEF SamePlace, SameGate, SameFace, SamePast
<1>6. Facts(x, attempts, holds)
  <2>1. Later(attempts)
    BY <1>1 DEF Later, attemptIn
  <2>2. /\ x.ctx.id \in 0 .. Len(holds) /\ x.param \in 0 .. Len(holds) /\ x.paying[1] \in 0 .. Len(holds)
        /\ x.mount # 0 /\ x.mount \in Nat
    BY <1>1, <1>3, <1>5 DEF Facts, NoPay, IsTab
  <2>3. RequestFine(q, x, attempts, holds)
    BY <1>2, <1>3, <1>5, <2>2 DEF RequestFine
  <2>4. \A r \in c.net : r.mount <= x.mount /\ (Reviewing(x) /\ r.mount = x.mount => r.layout = x.layout)
    BY <1>1, <1>5 DEF Facts, RequestFine
  <2>5. x.gone \subseteq DOMAIN holds
    BY <1>1 DEF Facts
  <2> QED
    BY <1>1, <1>5, <2>1, <2>2, <2>3, <2>4, <2>5, FactsGrow
<1>7. Tags(x, holds)
  BY <1>1, <1>2, <1>4, <1>5 DEF Tags
<1>8. CASE c.stray
  BY <1>6, <1>7, <1>8, StrayIsReady
<1>9. CASE ~c.stray
  <2>1. /\ c.checked /\ (c.param # 0 => c.asked) /\ \A r \in Own(c) : r.kind \notin {"check", "create"}
    BY <1>1, <1>9 DEF Screen, ScreenSettled
  <2>2. Places(x, holds)
    BY <1>1, <1>4, <1>5, <1>9 DEF Places
  <2>3. Screen(x)
    BY <1>1, <1>2, <1>4, <1>5, <1>9, <2>1 DEF Screen
  <2>4. Quit(x)
    BY <1>1, <1>2, <1>4, <1>5, <1>9 DEF Quit
  <2>5. Numbers(x, attempts, holds)
    <3>1. \A r \in Own(x) : r.kind = "create" => r \in Own(c)
      BY <1>2, <1>4
    <3> QED
      BY <1>1, <1>4, <1>5, <3>1, NumbersStay
  <2>6. Totals(x, holds)
    <3> SUFFICES ASSUME ~x.crossed PROVE Totals(x, holds)
      BY DEF Totals
    <3>1. ~c.crossed /\ c.pending = {}
      OBVIOUS
    <3>2. Writing(c) = {}
      BY <1>1, <1>9, <3>1 DEF Totals
    <3>3. Writing(x) = {q} /\ x.pending = {q.what} /\ Mine(x, q)
      BY <1>1, <1>2, <1>4, <3>1, <3>2 DEF Mine
    <3>4. /\ c.ctx.order # 0 /\ ~c.ctx.old => c.ctx.order = holds[c.ctx.id].order
          /\ c.ctx.st # "paid" \/ c.returned
      BY <1>1, <1>9, <3>1, <3>2 DEF Totals
    <3>5. \A r \in Own(x) : r.kind # "create"
      BY <1>2, <1>4, <2>1
    <3> QED
      BY <1>2, <1>4, <1>5, <3>3, <3>4, <3>5 DEF Totals
  <2>7. ScreenReady(x)
    <3>1. ~Asks(x)
      BY <1>5, <2>1 DEF Asks
    <3>2. ~(x.over /\ ~x.attempted)
      BY <1>1, <1>5, <1>9 DEF ScreenSettled
    <3> QED
      BY <1>4, <1>5, <2>1, <3>1, <3>2 DEF ScreenReady, Waits
  <2> QED
    BY <1>6, <1>7, <2>2, <2>3, <2>4, <2>5, <2>6, <2>7 DEF Ready, Common
<1> QED
  BY <1>8, <1>9

LEMMA ChangeTotalKept ==
  ASSUME Good(c, attempts, holds), c.paying = NoPay, NEW k, changeTotal(k)
  PROVE  Kept
<1>1. /\ Facts(c, attempts, holds) /\ IsTab(c)
      /\ attempts \in [Sels -> Nat] /\ holds \in Seq(HoldType) /\ c.at = "review" /\ c.ctx.id # 0
      /\ k # "order" /\ k \in Writes /\ attempts' = attempts /\ holds' = holds
  BY GoodFacts DEF changeTotal, Here, Shown, Writes
<1>2. c.ctx.id \in DOMAIN holds
  BY <1>1 DEF Facts
<1>3. PICK q : q = Request(c, "write", c.ctx.id, k)
  OBVIOUS
<1>4. IsWrite(q, c, c.ctx.id, k)
  <2>1. PICK y, h : y = c /\ h = c.ctx.id
    OBVIOUS
  <2>2. h \in DOMAIN holds /\ IsTab(y)
    BY <1>1, <1>2, <2>1
  <2>3. IsWrite(Request(y, "write", h, k), y, h, k)
    BY <1>1, <2>2, WriteFacts
  <2> QED
    BY <1>3, <2>1, <2>3
<1>5. PICK x : x = [Send(c, q) EXCEPT !.pending = @ \cup {k}, !.crossed = @ \/ c.pending # {}]
  OBVIOUS
<1>6. PICK f \in BOOLEAN : f <=> c.crossed \/ c.pending # {}
  OBVIOUS
<1>7. x = [c EXCEPT !.net = @ \cup {q}, !.pending = @ \cup {k}, !.crossed = f]
  BY <1>1, <1>5, <1>6 DEF Send, IsTab, Fields
<1>8. IsTab(x) /\ SamePlace(c, x) /\ SameGate(c, x) /\ SameFace(c, x) /\ SamePast(c, x)
  <2>1. IsTab(x)
    BY <1>1, <1>4, <1>7 DEF IsTab, Fields, IsWrite
  <2>2. SamePlace(c, x) /\ SameGate(c, x) /\ SameFace(c, x) /\ SamePast(c, x)
    BY <1>1, <1>7 DEF IsTab, Fields, SamePlace, SameGate, SameFace, SamePast
  <2> QED
    BY <2>1, <2>2
<1>9. /\ x.ctx = c.ctx /\ x.back = c.back /\ x.net = c.net \cup {q} /\ x.gone = c.gone /\ x.stray = c.stray
      /\ x.releasing = c.releasing /\ x.pending = c.pending \cup {k} /\ x.paying = NoPay /\ x.crossed = f
  BY <1>1, <1>7 DEF IsTab, Fields
<1>10. Ready(x, attempts, holds)
  BY <1>1, <1>4, <1>6, <1>8, <1>9, WriteSent
<1>11. c' = Settle(x, attempts')
  BY <1>1, <1>3, <1>5 DEF changeTotal, Become
<1> QED
  BY <1>1, <1>9, <1>10, <1>11, SameHoldsFacts, Finish

(* The provider opens on the order shown.                                  *)
LEMMA PayOpens ==
  ASSUME Good(c, attempts, holds), Shown, c.ctx.id # 0, c.pending \subseteq {"gateway"}, c.paying = NoPay,
         c.ctx.order # 0, NEW f \in BOOLEAN, f <=> c.crossed \/ c.pending # {},
         NEW x, x = [c EXCEPT !.paying = <<c.ctx.id, c.ctx.order>>, !.crossed = f]
  PROVE  /\ Ready(x, attempts, holds) /\ x.paying = <<c.ctx.id, c.ctx.order>>
         /\ \/ c.crossed \/ c.stray \/ c.ctx.old \/ "gateway" \in c.pending
            \/ holds[c.ctx.id].order = c.ctx.order /\ (c.ctx.st # "paid" \/ c.returned)
<1>1. /\ Facts(c, attempts, holds) /\ Places(c, holds) /\ Screen(c) /\ ScreenSettled(c) /\ Quit(c)
      /\ Numbers(c, attempts, holds) /\ Tags(c, holds) /\ Totals(c, holds) /\ IsTab(c)
      /\ attempts \in [Sels -> Nat] /\ holds \in Seq(HoldType) /\ Reviewing(c) /\ c.at = "review"
  BY GoodFacts DEF Shown
<1>2. c.ctx.id \in DOMAIN holds /\ c.ctx.id \in 0 .. Len(holds) /\ c.ctx.id \in Nat /\ c.ctx.order \in Nat
  BY <1>1 DEF Facts, IsTab, BookingType
<1>3. IsTab(x) /\ SamePlace(c, x) /\ SameGate(c, x) /\ SameFace(c, x) /\ SamePast(c, x)
  <2>1. IsTab(x)
    BY <1>1, <1>2 DEF IsTab, Fields
  <2>2. SamePlace(c, x) /\ SameGate(c, x) /\ SameFace(c, x) /\ SamePast(c, x)
    BY <1>1 DEF IsTab, Fields, SamePlace, SameGate, SameFace, SamePast
  <2> QED
    BY <2>1, <2>2
<1>4. /\ x.ctx = c.ctx /\ x.back = c.back /\ x.net = c.net /\ x.gone = c.gone /\ x.stray = c.stray
      /\ (~x.crossed => ~c.crossed /\ c.pending = {}) /\ x.pending = c.pending
      /\ x.paying = <<c.ctx.id, c.ctx.order>>
      /\ x.paying[1] = c.ctx.id
  BY <1>1 DEF IsTab, Fields
<1>5. /\ Reviewing(x) /\ Anchor(x) = Anchor(c) /\ Anchor(c) = <<c.sel, c.param>> /\ Own(x) = Own(c)
      /\ Creates(x) = Creates(c)
      /\ Writing(x) = Writing(c) /\ ~AfterPay(x) /\ (\A q : Mine(x, q) <=> Mine(c, q))
  BY <1>1, <1>3, <1>4 DEF Reviewing, Anchor, Own, Mine, Creates, Writing, AfterPay, SamePlace
<1>6. /\ x.sel = c.sel /\ x.param = c.param /\ x.at = "review" /\ x.mount = c.mount /\ x.layout = c.layout
      /\ x.checked = c.checked /\ x.asked = c.asked
      /\ x.attempted = c.attempted /\ x.timer = c.timer /\ x.err = c.err /\ x.over = c.over /\ x.seen = c.seen
      /\ x.retried = c.retried /\ x.clearing = c.clearing /\ x.retrying = c.retrying /\ x.nonce = c.nonce
      /\ x.quit = c.quit /\ x.opened = c.opened /\ x.returned = c.returned /\ x.foreign = c.foreign
      /\ x.loose = c.loose /\ x.blind = c.blind
  BY <1>1, <1>3 DEF SamePlace, SameGate, SameFace, SamePast
<1>7. ~c.stray /\ ~c.crossed /\ c.pending = {} => Writing(c) = {}
  BY <1>1 DEF Totals
<1>8. \/ c.crossed \/ c.stray \/ c.ctx.old \/ "gateway" \in c.pending
      \/ holds[c.ctx.id].order = c.ctx.order /\ (c.ctx.st # "paid" \/ c.returned)
  <2>1. "gateway" \in c.pending \/ c.pending = {}
    OBVIOUS
  <2> QED
    BY <1>1, <1>7, <2>1 DEF Totals
<1>9. Facts(x, attempts, holds)
  <2>1. Later(attempts)
    BY <1>1 DEF Later, attemptIn
  <2>2. x.ctx.id \in 0 .. Len(holds) /\ x.param \in 0 .. Len(holds) /\ x.paying[1] \in 0 .. Len(holds)
        /\ x.mount # 0
    BY <1>1, <1>2, <1>4, <1>6 DEF Facts
  <2> QED
    BY <1>1, <1>3, <1>4, <1>6, <2>1, <2>2, FactsKept
<1>10. Tags(x, holds)
  BY <1>1, <1>4, <1>5, <1>6 DEF Tags
<1>11. CASE c.stray
  BY <1>4, <1>8, <1>9, <1>10, <1>11, StrayIsReady
<1>12. CASE ~c.stray
  <2>1. /\ c.checked /\ (c.param # 0 => c.asked) /\ (\A r \in Own(c) : r.kind \notin {"check", "create"})
        /\ c.ctx.id = c.param
    BY <1>1, <1>12 DEF Screen, ScreenSettled, Places
  <2>2. Places(x, holds)
    <3>1. x.paying[1] = Anchor(x)[2]
      BY <1>4, <1>5, <2>1
    <3>2. /\ ~c.foreign /\ (c.back[2] # 0 => holds[c.back[2]].sel = c.back[1])
          /\ c.ctx.for \in {None, c.sel} /\ (c.param # 0 => holds[c.param].sel = c.sel)
          /\ ~c.clearing /\ ~c.retrying
      BY <1>1, <1>12 DEF Places
    <3> QED
      BY <1>1, <1>4, <1>5, <1>6, <2>1, <3>1, <3>2 DEF Places, Reviewing
  <2>3. Screen(x)
    <3>1. Screen(c) /\ ~c.stray /\ Reviewing(c)
      BY <1>1, <1>12
    <3> QED
      BY ONLY <1>4, <1>5, <1>6, <2>1, <3>1 DEF Screen
  <2>4. Quit(x)
    BY <1>1, <1>4, <1>5, <1>6, <1>12 DEF Quit
  <2>5. Numbers(x, attempts, holds)
    BY <1>1, <1>4, <1>5, <1>6, NumbersStay
  <2>6. Totals(x, holds)
    BY <1>1, <1>4, <1>5, <1>6, <1>7, <1>12 DEF Totals
  <2>7. ScreenReady(x)
    <3>1. ~Asks(x)
      BY <1>6, <2>1 DEF Asks
    <3>2. ~(x.over /\ ~x.attempted)
      BY <1>1, <1>6, <1>12 DEF ScreenSettled
    <3> QED
      BY <1>4, <1>5, <1>6, <2>1, <3>1, <3>2 DEF ScreenReady, Waits
  <2> QED
    BY <1>4, <1>8, <1>9, <1>10, <2>2, <2>3, <2>4, <2>5, <2>6, <2>7 DEF Ready, Common
<1> QED
  BY <1>11, <1>12

LEMMA PayKept ==
  ASSUME Good(c, attempts, holds), pay
  PROVE  Kept
<1>1. /\ Facts(c, attempts, holds) /\ IsTab(c)
      /\ attempts \in [Sels -> Nat] /\ holds \in Seq(HoldType) /\ c.at = "review" /\ c.ctx.id # 0 /\ Shown
      /\ c.pending \subseteq {"gateway"} /\ c.paying = NoPay /\ attempts' = attempts /\ holds' = holds
  BY GoodFacts DEF pay, Here, Shown
<1>2. c.ctx.id \in DOMAIN holds
  BY <1>1 DEF Facts
<1>2a. PICK f \in BOOLEAN : f <=> c.crossed \/ c.pending # {}
  OBVIOUS
<1>2b. PICK z : z = [c EXCEPT !.crossed = @ \/ c.pending # {}]
  OBVIOUS
<1>2c. z = [c EXCEPT !.crossed = f]
  BY <1>1, <1>2a, <1>2b DEF IsTab, Fields
<1>3. CASE c.ctx.order # 0
  <2>1. PICK x : x = [c EXCEPT !.paying = <<c.ctx.id, c.ctx.order>>, !.crossed = f]
    OBVIOUS
  <2>2. /\ Ready(x, attempts, holds) /\ x.paying = <<c.ctx.id, c.ctx.order>>
        /\ \/ c.crossed \/ c.stray \/ c.ctx.old \/ "gateway" \in c.pending
           \/ holds[c.ctx.id].order = c.ctx.order /\ (c.ctx.st # "paid" \/ c.returned)
    BY <1>1, <1>2a, <1>3, <2>1, PayOpens
  <2>3. c' = Settle(x, attempts)
    <3>1. c' = Settle([z EXCEPT !.paying = <<c.ctx.id, c.ctx.order>>], attempts)
      BY <1>2b, <1>3 DEF pay, Become
    <3>2. [z EXCEPT !.paying = <<c.ctx.id, c.ctx.order>>] = x
      BY <1>1, <1>2c, <2>1 DEF IsTab, Fields
    <3> QED
      BY <3>1, <3>2
  <2>4. Good(Settle(x, attempts), attempts, holds) /\ Settle(x, attempts).paying = x.paying
    BY <1>1, <2>2, SameHoldsFacts, SettleGood
  <2>5. c'.paying[1] = c.ctx.id /\ c'.paying[2] = c.ctx.order
    BY <2>2, <2>3, <2>4
  <2>6. PaysRight
    BY <2>2, <2>5 DEF PaysRight
  <2> QED
    BY <1>1, <2>3, <2>4, <2>6 DEF Kept
<1>4. CASE c.ctx.order = 0
  <2>1. PICK q : q = Request(c, "write", c.ctx.id, "order")
    OBVIOUS
  <2>2. IsWrite(q, c, c.ctx.id, "order")
    <3>1. PICK y, h, k : y = c /\ h = c.ctx.id /\ k = "order"
      OBVIOUS
    <3>2. h \in DOMAIN holds /\ IsTab(y)
      BY <1>1, <1>2, <3>1
    <3>3. IsWrite(Request(y, "write", h, k), y, h, k)
      BY <1>1, <3>2, WriteFacts
    <3> QED
      BY <2>1, <3>1, <3>3
  <2>3. PICK x : x = [Send(z, q) EXCEPT !.pending = @ \cup {"order"}]
    OBVIOUS
  <2>4. x = [c EXCEPT !.net = @ \cup {q}, !.pending = @ \cup {"order"}, !.crossed = f]
    BY <1>1, <1>2c, <2>3 DEF Send, IsTab, Fields
  <2>5. IsTab(x) /\ SamePlace(c, x) /\ SameGate(c, x) /\ SameFace(c, x) /\ SamePast(c, x)
    <3>1. IsTab(x)
      BY <1>1, <2>2, <2>4 DEF IsTab, Fields, IsWrite
    <3>2. SamePlace(c, x) /\ SameGate(c, x) /\ SameFace(c, x) /\ SamePast(c, x)
      BY <1>1, <2>4 DEF IsTab, Fields, SamePlace, SameGate, SameFace, SamePast
    <3> QED
      BY <3>1, <3>2
  <2>6. /\ x.ctx = c.ctx /\ x.back = c.back /\ x.net = c.net \cup {q} /\ x.gone = c.gone /\ x.stray = c.stray
        /\ x.releasing = c.releasing /\ x.pending = c.pending \cup {"order"} /\ x.paying = NoPay
        /\ (~x.crossed => ~c.crossed /\ c.pending = {})
    BY <1>1, <1>2a, <2>4 DEF IsTab, Fields
  <2>7. Ready(x, attempts, holds)
    BY <1>1, <1>4, <2>2, <2>5, <2>6, WriteSent DEF Writes
  <2>8. c' = Settle(x, attempts')
    BY <1>1, <1>2b, <1>4, <2>1, <2>3 DEF pay, Become
  <2> QED
    BY <1>1, <2>6, <2>7, <2>8, SameHoldsFacts, Finish
<1> QED
  BY <1>3, <1>4

-----------------------------------------------------------------------------
(* Try again, and Get these tickets again.                                 *)

LEMMA CalmFacts ==
  ASSUME NEW x, IsTab(x), NEW y, y = [x EXCEPT !.silent = FALSE, !.quit = FALSE]
  PROVE  /\ IsTab(y) /\ SamePlace(x, y) /\ SameGate(x, y) /\ SameMoney(x, y)
         /\ y.net = x.net /\ y.loose = x.loose /\ y.blind = x.blind
<1>1. PICK w : w = [x EXCEPT !.silent = FALSE]
  OBVIOUS
<1>2. IsTab(w)
  BY <1>1 DEF IsTab, Fields
<1>3. y = [w EXCEPT !.quit = FALSE]
  BY <1>1 DEF IsTab, Fields
<1>4. IsTab(y)
  BY ONLY <1>2, <1>3 DEF IsTab, Fields
<1>5. SamePlace(x, y) /\ SameGate(x, y) /\ SameMoney(x, y)
  BY DEF IsTab, Fields, SamePlace, SameGate, SameMoney
<1> QED
  BY <1>4, <1>5 DEF IsTab, Fields

(* With a booking in context there is nothing to try again, unless a late  *)
(* answer brought it.                                                      *)
LEMMA RetryStray ==
  ASSUME Good(c, attempts, holds), c.paying = NoPay, c.at = "review", c.over, c.ctx.id # 0,
         NEW u, u = [c EXCEPT !.silent = FALSE, !.quit = FALSE],
         NEW m, m = MovesOn(u, c.sel), NEW w, w = SendCancel(m, c.ctx.id, "retry"),
         NEW x, x = [w EXCEPT !.retrying = TRUE]
  PROVE  Ready(x, bumpAttempt(c.sel), holds) /\ x.paying = c.paying
<1>1. /\ Facts(c, attempts, holds) /\ Screen(c) /\ Tags(c, holds) /\ IsTab(c) /\ Reviewing(c) /\ c.sel \in Sels
      /\ attempts \in [Sels -> Nat] /\ holds \in Seq(HoldType)
  BY GoodFacts
<1>2. c.stray
  BY <1>1 DEF Screen
<1>3. c.ctx.id \in DOMAIN holds /\ c.ctx.id \in Nat
  BY <1>1 DEF Facts
<1>4. IsTab(u) /\ u.mount = c.mount /\ u.layout = c.layout
  BY <1>1, CalmFacts DEF SamePlace
<1>5. PICK p \in BOOLEAN : m = [u EXCEPT !.blind = p]
  <2>1. m = MovesOn(u, c.sel)
    OBVIOUS
  <2> QED
    BY ONLY <1>4, <2>1, MovesOnFacts
<1>6. IsTab(m) /\ m.mount = c.mount /\ m.layout = c.layout
  BY ONLY <1>4, <1>5 DEF IsTab, Fields
<1>7. PICK q : w = WithCancel(m, q, c.ctx.id) /\ IsCancel(q, m, c.ctx.id, "retry")
  BY <1>1, <1>3, <1>6, SendCancelFacts
<1>8. IsRequest(q) /\ q.kind = "cancel" /\ q.h = c.ctx.id /\ q.mount = c.mount /\ q.layout = c.layout
  BY <1>6, <1>7 DEF IsCancel
<1>9. x = [c EXCEPT !.silent = FALSE, !.quit = FALSE, !.blind = p, !.net = @ \cup {q}, !.gone = @ \cup {c.ctx.id},
                    !.retrying = TRUE]
  BY <1>1, <1>5, <1>7 DEF WithCancel, IsTab, Fields
<1>10. IsTab(x) /\ SamePlace(c, x)
  <2>1. IsTab(x)
    <3>1. x = [m EXCEPT !.net = @ \cup {q}, !.gone = @ \cup {c.ctx.id}, !.retrying = TRUE]
      BY <1>6, <1>7 DEF WithCancel, IsTab, Fields
    <3> QED
      BY ONLY <1>3, <1>6, <1>8, <3>1 DEF IsTab, Fields
  <2>2. SamePlace(c, x)
    <3>1. DOMAIN c = Fields
      BY <1>1 DEF IsTab
    <3> QED
      BY ONLY <1>9, <3>1 DEF Fields, SamePlace
  <2> QED
    BY <2>1, <2>2
<1>11. /\ x.ctx = c.ctx /\ x.back = c.back /\ x.net = c.net \cup {q} /\ x.gone = c.gone \cup {c.ctx.id}
       /\ x.stray = c.stray /\ x.foreign = c.foreign /\ x.paying = c.paying
  BY <1>1, <1>9 DEF IsTab, Fields
<1>12. PICK b : b = bumpAttempt(c.sel)
  OBVIOUS
<1>13. Later(b)
  BY <1>1, <1>12, BumpIsLater
<1>14. Facts(x, b, holds)
  <2>1. /\ x.ctx.id \in 0 .. Len(holds) /\ x.param \in 0 .. Len(holds) /\ x.paying[1] \in 0 .. Len(holds)
        /\ x.paying = NoPay /\ x.mount = c.mount /\ x.layout = c.layout
        /\ x.mount # 0 /\ x.mount \in Nat /\ x.at = "review"
    BY <1>1, <1>10, <1>11 DEF Facts, SamePlace, IsTab
  <2>2. RequestFine(q, x, b, holds)
    BY <1>3, <1>8, <2>1, CancelIsFine
  <2>3. \A r \in c.net : r.mount <= x.mount /\ (Reviewing(x) /\ r.mount = x.mount => r.layout = x.layout)
    BY <1>1, <2>1 DEF Facts, RequestFine
  <2>4. x.gone \subseteq DOMAIN holds
    BY <1>1, <1>3, <1>11 DEF Facts
  <2> QED
    BY <1>1, <1>10, <1>11, <1>13, <2>1, <2>2, <2>3, <2>4, FactsGrow
<1>15. Tags(x, holds)
  BY <1>1, <1>8, <1>11 DEF Tags, Writing
<1> QED
  BY <1>2, <1>11, <1>12, <1>14, <1>15, StrayIsReady

LEMMA RetryReserves ==
  ASSUME Good(c, attempts, holds), c.paying = NoPay, c.at = "review", c.over \/ c.err, c.ctx.id = 0,
         NEW u, u = [c EXCEPT !.silent = FALSE, !.quit = FALSE],
         NEW m, m = MovesOn(u, c.sel), NEW x, x = [Again(m) EXCEPT !.over = FALSE, !.err = FALSE]
  PROVE  Ready(x, bumpAttempt(c.sel), holds) /\ x.paying = c.paying
<1>1. /\ Facts(c, attempts, holds) /\ Places(c, holds) /\ Screen(c) /\ ScreenSettled(c)
      /\ Numbers(c, attempts, holds) /\ Tags(c, holds) /\ Totals(c, holds) /\ IsTab(c) /\ Reviewing(c)
      /\ c.sel \in Sels
      /\ attempts \in [Sels -> Nat] /\ holds \in Seq(HoldType)
  BY GoodFacts
<1>2. IsTab(u) /\ u.net = c.net /\ u.loose = c.loose /\ u.blind = c.blind
  BY <1>1, CalmFacts
<1>3. PICK p \in BOOLEAN : m = [u EXCEPT !.blind = p] /\ (~p => ~u.blind /\ Silent(u, c.sel))
  <2>1. m = MovesOn(u, c.sel)
    OBVIOUS
  <2> QED
    BY ONLY <1>2, <2>1, MovesOnFacts
<1>4. x = [c EXCEPT !.silent = FALSE, !.quit = FALSE, !.blind = p, !.attempted = FALSE, !.nonce = ~@,
                    !.over = FALSE, !.err = FALSE]
  <2>1. DOMAIN c = Fields /\ x = [Again(m) EXCEPT !.over = FALSE, !.err = FALSE]
        /\ u = [c EXCEPT !.silent = FALSE, !.quit = FALSE]
    BY <1>1 DEF IsTab
  <2>2. m = [c EXCEPT !.silent = FALSE, !.quit = FALSE, !.blind = p]
    BY ONLY <1>3, <2>1 DEF Fields
  <2> QED
    BY ONLY <2>1, <2>2 DEF Again, Fields
<1>5. IsTab(x) /\ SamePlace(c, x) /\ SameMoney(c, x)
  <2>1. PICK v : v = [m EXCEPT !.attempted = FALSE, !.nonce = ~@]
    OBVIOUS
  <2>2. IsTab(m)
    BY ONLY <1>2, <1>3 DEF IsTab, Fields
  <2>3. IsTab(v)
    BY ONLY <2>1, <2>2 DEF IsTab, Fields
  <2>4. x = [v EXCEPT !.over = FALSE, !.err = FALSE]
    BY <2>1 DEF Again
  <2>5. IsTab(x)
    BY ONLY <2>3, <2>4 DEF IsTab, Fields
  <2>6. SamePlace(c, x) /\ SameMoney(c, x)
    <3>1. DOMAIN c = Fields
      BY <1>1 DEF IsTab
    <3> QED
      BY ONLY <1>4, <3>1 DEF Fields, SamePlace, SameMoney
  <2> QED
    BY <2>5, <2>6
<1>6. /\ x.ctx = c.ctx /\ x.back = c.back /\ x.net = c.net /\ x.gone = c.gone /\ x.stray = c.stray
      /\ x.checked = c.checked /\ x.asked = c.asked /\ x.seen = c.seen /\ x.clearing = c.clearing
      /\ x.retrying = c.retrying /\ x.retried = c.retried /\ x.timer = c.timer
      /\ x.foreign = c.foreign /\ x.loose = c.loose /\ x.blind = p /\ x.returned = c.returned
      /\ ~x.quit /\ ~x.err /\ ~x.over /\ ~x.attempted /\ x.nonce = ~c.nonce /\ c.nonce \in BOOLEAN
  <2>1. IsTab(c)
    BY <1>1
  <2> QED
    BY ONLY <1>4, <2>1 DEF IsTab, Fields
<1>7. /\ Reviewing(x) /\ Anchor(x) = Anchor(c) /\ Own(x) = Own(c) /\ Creates(x) = Creates(c)
      /\ Writing(x) = Writing(c) /\ ~AfterPay(x) /\ \A q : Mine(x, q) <=> Mine(c, q)
  BY <1>1, <1>5, <1>6 DEF Reviewing, Anchor, Own, Mine, Creates, Writing, AfterPay, SamePlace
<1>8. PICK b : b = bumpAttempt(c.sel)
  OBVIOUS
<1>9. Later(b) /\ \A t \in Sels \ {c.sel} : attemptIn(b, t) = attemptIn(attempts, t)
  BY <1>1, <1>8, BumpIsLater, BumpFacts
<1>10. Facts(x, b, holds)
  <2>1. /\ x.ctx.id \in 0 .. Len(holds) /\ x.param \in 0 .. Len(holds) /\ x.paying[1] \in 0 .. Len(holds)
        /\ (x.paying # NoPay => x.paying[1] # 0) /\ x.mount = c.mount /\ x.layout = c.layout
        /\ (x.at = "review" => x.mount # 0) /\ x.at = "review"
    BY <1>1, <1>5, <1>6 DEF Facts, SamePlace, SameMoney
  <2> QED
    <3>1. /\ IsTab(x) /\ x.net \subseteq c.net /\ x.gone \subseteq c.gone /\ x.back = c.back
          /\ Reviewing(c) /\ {x.ctx.id, x.param, x.paying[1]} \subseteq 0 .. Len(holds)
          /\ ~(x.at \in {"failed", "confirmation"})
      BY <1>1, <1>5, <1>6, <2>1
    <3>2. Facts(c, attempts, holds) /\ Later(b)
      BY <1>1, <1>9
    <3> QED
      BY ONLY <2>1, <3>1, <3>2, FactsKept
<1>11. Tags(x, holds)
  BY <1>1, <1>6, <1>7 DEF Tags
<1>12. Ready(x, b, holds)
  <2>1. CASE c.stray
    BY <1>6, <1>10, <1>11, <2>1, StrayIsReady
  <2>2. CASE ~c.stray
    <3>1. /\ c.checked /\ ~c.timer /\ c.seen = <<TRUE, FALSE, c.nonce>> /\ (c.param # 0 => c.asked)
          /\ \A q \in Own(c) : q.kind \notin {"check", "create"}
      BY <1>1, <2>2 DEF Screen, ScreenSettled
    <3>2. Places(x, holds)
      BY <1>1, <1>5, <1>6, <1>7, <2>2 DEF Places, SamePlace, SameMoney
    <3>3. Screen(x)
      BY <1>1, <1>5, <1>6, <1>7, <2>2, <3>1 DEF Screen
    <3>4. Quit(x)
      BY <1>6 DEF Quit
    <3>5. Numbers(x, b, holds)
      <4>1. ASSUME ~p, NEW g \in DOMAIN holds, Held(x, holds, g), holds[g].sel = c.sel
            PROVE  FALSE
        <5>1. Held(c, holds, g) /\ ~c.blind /\ Silent(c, c.sel)
          BY <1>2, <1>3, <1>6, <4>1 DEF Held, Silent, Creates
        <5>2. holds[g].att = attemptIn(attempts, c.sel)
          BY <1>1, <2>2, <4>1, <5>1 DEF Numbers
        <5>3. Pending(c, holds, g)
          BY <1>1, <2>2, <4>1, <5>1, <5>2 DEF Numbers, Key
        <5>4. CASE Key(holds[g]) \in c.loose
          BY <4>1, <5>1, <5>2, <5>4 DEF Silent, Key
        <5>5. ASSUME NEW r \in Creates(c), r.ans = "ok", r.h = g
              PROVE  FALSE
          <6>1. holds[g].sel = r.sel /\ holds[g].att = r.att
            BY <1>1, <5>5 DEF Facts, RequestFine, Creates
          <6> QED
            BY <4>1, <5>1, <5>2, <5>5, <6>1 DEF Silent
        <5> QED
          BY <5>3, <5>4, <5>5 DEF Pending
      <4>2. ~x.blind => ~c.blind /\ Silent(x, c.sel)
        BY <1>2, <1>3, <1>6, <1>7 DEF Silent, Creates
      <4>3. \A q \in Own(x) : q.kind # "create"
        BY <1>7, <3>1
      <4> QED
        BY <1>1, <1>6, <1>7, <1>9, <4>1, <4>2, <4>3, NumbersMoveOn
    <3>6. Totals(x, holds)
      BY <1>1, <1>5, <1>6, <1>7, <2>2, <3>1 DEF Totals, SameMoney, SamePlace
    <3>7. ScreenReady(x)
      <4>1. Unsettled(x)
        <5>1. x.seen = <<TRUE, FALSE, c.nonce>> /\ x.nonce # c.nonce
          BY <1>6, <3>1
        <5> QED
          BY ONLY <5>1 DEF Unsettled
      <4>2. ~Asks(x)
        BY <1>5, <1>6, <3>1 DEF Asks, SamePlace
      <4> QED
        BY <1>1, <1>5, <1>6, <1>7, <3>1, <4>1, <4>2 DEF ScreenReady, Waits, SamePlace
    <3> QED
      BY <1>10, <1>11, <3>2, <3>3, <3>4, <3>5, <3>6, <3>7 DEF Ready, Common
  <2> QED
    BY <2>1, <2>2
<1> QED
  BY <1>5, <1>8, <1>12 DEF SameMoney

LEMMA RetryHoldKept ==
  ASSUME Good(c, attempts, holds), c.paying = NoPay, retryHold
  PROVE  Kept
<1>1. /\ holds \in Seq(HoldType) /\ c.at = "review" /\ holds' = holds /\ SameHolds(holds')
      /\ c.over \/ (c.err /\ c.ctx.id = 0)
  BY GoodFacts, SameHoldsFacts DEF retryHold
<1>2. PICK u : u = [c EXCEPT !.silent = FALSE, !.quit = FALSE]
  OBVIOUS
<1>3. PICK m : m = MovesOn(u, c.sel)
  OBVIOUS
<1>4. CASE c.ctx.id # 0
  <2>1. PICK w : w = SendCancel(m, c.ctx.id, "retry")
    OBVIOUS
  <2>2. PICK x : x = [w EXCEPT !.retrying = TRUE]
    OBVIOUS
  <2>3. Ready(x, bumpAttempt(c.sel), holds) /\ x.paying = c.paying
    BY <1>1, <1>2, <1>3, <1>4, <2>1, <2>2, RetryStray
  <2>4. attempts' = bumpAttempt(c.sel) /\ c' = Settle(x, bumpAttempt(c.sel))
    BY <1>2, <1>3, <1>4, <2>1, <2>2 DEF retryHold, BecomeWith
  <2> QED
    BY <1>1, <2>3, <2>4, Finish
<1>5. CASE c.ctx.id = 0
  <2>1. PICK x : x = [Again(m) EXCEPT !.over = FALSE, !.err = FALSE]
    OBVIOUS
  <2>2. Ready(x, bumpAttempt(c.sel), holds) /\ x.paying = c.paying
    BY <1>1, <1>2, <1>3, <1>5, <2>1, RetryReserves
  <2>3. attempts' = bumpAttempt(c.sel) /\ c' = Settle(x, bumpAttempt(c.sel))
    BY <1>2, <1>3, <1>5, <2>1 DEF retryHold, BecomeWith
  <2> QED
    BY <1>1, <2>2, <2>3, Finish
<1> QED
  BY <1>4, <1>5

-----------------------------------------------------------------------------
(* The back arrow.                                                         *)

LEMMA GivesUp ==
  ASSUME Good(c, attempts, holds), c.paying = NoPay, c.at \in {"picker", "review"}, c.ctx.id # 0,
         NEW m, m = MovesAllOn(c, c.ctx.id), NEW w, w = SendCancel(m, c.ctx.id, "none"),
         NEW x, x = [w EXCEPT !.at = "out", !.sel = None, !.ctx = NoBooking, !.quit = TRUE], NEW b, b = BumpAll
  PROVE  Good(x, b, holds) /\ x.paying = NoPay
<1>1. /\ Facts(c, attempts, holds) /\ Places(c, holds) /\ ScreenSettled(c) /\ Numbers(c, attempts, holds)
      /\ Tags(c, holds) /\ Totals(c, holds) /\ IsTab(c) /\ (c.at = "review" => Reviewing(c))
      /\ attempts \in [Sels -> Nat] /\ holds \in Seq(HoldType)
  BY GoodFacts
<1>2. c.ctx.id \in DOMAIN holds /\ c.ctx.id \in Nat
  BY <1>1 DEF Facts
<1>3. PICK s \in Sels : s = holds[c.ctx.id].sel
  <2>1. holds[c.ctx.id] \in HoldType
    BY <1>1, <1>2
  <2> QED
    BY <2>1 DEF HoldType
<1>4. PICK p \in BOOLEAN :
        /\ m = [c EXCEPT !.blind = p]
        /\ ~p => ~c.blind /\ \A t \in Sels : attempts[t] # 0 => t = s /\ Silent(c, t)
  <2>1. m = MovesAllOn(c, c.ctx.id) /\ IsTab(c)
    BY <1>1
  <2>2. PICK p \in BOOLEAN :
          /\ m = [c EXCEPT !.blind = p]
          /\ ~p => ~c.blind /\ \A t \in Sels : attempts[t] # 0 => t = holds[c.ctx.id].sel /\ Silent(c, t)
    BY ONLY <2>1, MovesAllOnFacts
  <2> QED
    BY ONLY <1>3, <2>2
<1>5. IsTab(m) /\ m.mount = c.mount /\ m.layout = c.layout
  BY <1>1, <1>4 DEF IsTab, Fields
<1>6. PICK q : w = WithCancel(m, q, c.ctx.id) /\ IsCancel(q, m, c.ctx.id, "none")
  BY <1>1, <1>2, <1>5, SendCancelFacts
<1>7. IsRequest(q) /\ q.kind = "cancel" /\ q.h = c.ctx.id /\ q.mount = c.mount /\ q.layout = c.layout
  BY <1>5, <1>6 DEF IsCancel
<1>8. IsTab(w)
  BY ONLY <1>2, <1>5, <1>6, <1>7 DEF WithCancel, IsTab, Fields
<1>9. IsTab(x)
  <2>1. x = [w EXCEPT !.at = "out", !.sel = None, !.ctx = NoBooking, !.quit = TRUE]
    OBVIOUS
  <2>2. None \in Tickets
    BY DEF Tickets
  <2> QED
    BY ONLY <1>8, <2>1, <2>2, NoBookingFacts DEF IsTab, Fields
<1>10. /\ x.at = "out" /\ x.ctx = NoBooking /\ x.quit /\ x.param = c.param /\ x.mount = c.mount
       /\ x.layout = c.layout /\ x.paying = c.paying /\ x.back = c.back /\ x.net = c.net \cup {q}
       /\ x.gone = c.gone \cup {c.ctx.id} /\ x.stray = c.stray /\ x.foreign = c.foreign /\ x.crossed = c.crossed
       /\ x.loose = c.loose /\ x.blind = p
  <2>1. x = [c EXCEPT !.blind = p, !.net = @ \cup {q}, !.gone = @ \cup {c.ctx.id}, !.at = "out", !.sel = None,
                      !.ctx = NoBooking, !.quit = TRUE]
    BY <1>1, <1>4, <1>6 DEF WithCancel, IsTab, Fields
  <2>2. IsTab(c)
    BY <1>1
  <2> QED
    BY ONLY <2>1, <2>2 DEF IsTab, Fields
<1>11. /\ ~Reviewing(x) /\ ~AfterPay(x) /\ Anchor(x) = c.back /\ Own(x) = {} /\ Creates(x) = Creates(c)
       /\ Writing(x) = Writing(c) /\ x.ctx.id = 0
  BY <1>7, <1>10, NoBookingFacts DEF Reviewing, AfterPay, Anchor, Own, Mine, Creates, Writing
<1>12. ~c.stray => /\ Reviewing(c) /\ c.param = c.ctx.id /\ Anchor(c) = c.back /\ c.back[2] # 0
                   /\ Anchor(c) = <<s, c.ctx.id>>
  <2> SUFFICES ASSUME ~c.stray
               PROVE  /\ Reviewing(c) /\ c.param = c.ctx.id /\ Anchor(c) = c.back /\ c.back[2] # 0
                      /\ Anchor(c) = <<s, c.ctx.id>>
    OBVIOUS
  <2>1. Reviewing(c)
    BY <1>1 DEF ScreenSettled
  <2>2. c.param = c.ctx.id /\ holds[c.param].sel = c.sel
    BY <1>1, <2>1 DEF Places
  <2>3. Anchor(c) = <<c.sel, c.param>> /\ c.back = <<c.sel, c.param>>
    BY <1>1, <2>1 DEF ScreenSettled, Anchor, Reviewing
  <2> QED
    BY <1>3, <2>1, <2>2, <2>3
<1>13. Later(b)
  BY <1>1, BumpAllFacts
<1>14. Facts(x, b, holds)
  <2>1. /\ x.ctx.id \in 0 .. Len(holds) /\ x.param \in 0 .. Len(holds) /\ x.paying[1] \in 0 .. Len(holds)
        /\ x.mount \in Nat /\ x.paying = NoPay
    BY <1>1, <1>10, <1>11 DEF Facts, IsTab
  <2>2. RequestFine(q, x, b, holds)
    BY <1>2, <1>7, <1>10, <2>1, CancelIsFine
  <2>3. \A r \in c.net : r.mount <= x.mount /\ (Reviewing(x) /\ r.mount = x.mount => r.layout = x.layout)
    BY <1>1, <1>10, <1>11 DEF Facts, RequestFine
  <2>4. x.gone \subseteq DOMAIN holds
    BY <1>1, <1>2, <1>10 DEF Facts
  <2>5. \A r \in x.net \ c.net : RequestFine(r, x, b, holds)
    BY <1>10, <2>2
  <2> QED
    <3>1. /\ IsTab(x) /\ x.back = c.back /\ {x.ctx.id, x.param, x.paying[1]} \subseteq 0 .. Len(holds)
          /\ x.at = "out"
      BY <1>9, <1>10, <2>1
    <3>2. Facts(c, attempts, holds) /\ Later(b)
      BY <1>1, <1>13
    <3> QED
      BY ONLY <2>1, <2>3, <2>4, <2>5, <3>1, <3>2, FactsGrow
<1>15. Places(x, holds)
  BY <1>1, <1>10, <1>11 DEF Places
<1>16. Screen(x) /\ ScreenSettled(x) /\ Clears(x, holds)
  BY <1>10, <1>11 DEF Screen, ScreenSettled, Clears
<1>17. Quit(x)
  BY <1>10, <1>11, <1>12 DEF Quit
<1>18. Numbers(x, b, holds)
  <2>1. ~x.blind => ~c.blind /\ \A t \in Sels : attempts[t] # 0 => t = s /\ Silent(x, t)
    BY <1>4, <1>10, <1>11 DEF Silent
  <2>2. ~Held(x, holds, c.ctx.id)
    BY <1>10 DEF Held
  <2>3. ~x.stray /\ ~x.blind =>
          /\ Anchor(x) = Anchor(c) /\ Anchor(c) = <<s, c.ctx.id>> /\ c.ctx.id # 0 /\ ~Held(x, holds, c.ctx.id)
          /\ Own(x) = {} /\ ~Reviewing(x)
    BY <1>10, <1>11, <1>12, <2>2
  <2>4. /\ x.loose = c.loose /\ Creates(x) = Creates(c) /\ c.gone \subseteq x.gone /\ (~x.stray => ~c.stray)
        /\ Facts(c, attempts, holds) /\ Numbers(c, attempts, holds) /\ b = BumpAll
    BY <1>1, <1>10, <1>11
  <2>5. PICK k : k = c.ctx.id
    OBVIOUS
  <2>6. ~x.stray /\ ~x.blind =>
          /\ Anchor(x) = Anchor(c) /\ Anchor(c) = <<s, k>> /\ k # 0 /\ ~Held(x, holds, k)
          /\ Own(x) = {} /\ ~Reviewing(x)
    BY <2>3, <2>5
  <2> QED
    BY ONLY <2>1, <2>4, <2>6, NumbersMoveAllOn
<1>19. Tags(x, holds)
  BY <1>1, <1>10, <1>11 DEF Tags
<1>20. Totals(x, holds)
  BY <1>1, <1>10, <1>11 DEF Totals
<1> QED
  BY <1>10, <1>14, <1>15, <1>16, <1>17, <1>18, <1>19, <1>20 DEF Good, Common

LEMMA LeaveKept ==
  ASSUME Good(c, attempts, holds), c.paying = NoPay, leave
  PROVE  Kept
<1>1. c.at \in {"picker", "review"} /\ holds' = holds
  BY DEF leave
<1>2. CASE c.ctx.id # 0 /\ IsLive(c.ctx.id)
  <2>1. PICK m : m = MovesAllOn(c, c.ctx.id)
    OBVIOUS
  <2>2. PICK w : w = SendCancel(m, c.ctx.id, "none")
    OBVIOUS
  <2>3. PICK x : x = [w EXCEPT !.at = "out", !.sel = None, !.ctx = NoBooking, !.quit = TRUE]
    OBVIOUS
  <2>4. PICK b : b = BumpAll
    OBVIOUS
  <2>5. Good(x, b, holds) /\ x.paying = NoPay
    BY <1>1, <1>2, <2>1, <2>2, <2>3, <2>4, GivesUp
  <2>6. c' = x /\ attempts' = b
    BY <1>2, <2>1, <2>2, <2>3, <2>4 DEF leave, bumpAllAttemptsForEvent, BumpAll
  <2> QED
    BY <1>1, <2>5, <2>6 DEF Kept, PaysRight
<1>3. CASE ~(c.ctx.id # 0 /\ IsLive(c.ctx.id))
  <2>1. c' = [c EXCEPT !.at = "out", !.sel = None, !.ctx = NoBooking] /\ UNCHANGED <<attempts, holds>>
    BY <1>1, <1>3 DEF leave
  <2> QED
    BY <2>1, GoesOut
<1> QED
  BY <1>2, <1>3

-----------------------------------------------------------------------------
(* A review screen opens.                                                  *)

Opened(x, s, p) ==
  [x EXCEPT !.at = "review", !.sel = s, !.param = p, !.mount = @ + 1, !.checked = (p = 0),
            !.asked = FALSE, !.attempted = FALSE, !.retried = FALSE, !.silent = FALSE, !.timer = FALSE,
            !.err = FALSE, !.over = FALSE, !.clearing = FALSE, !.retrying = FALSE, !.nonce = FALSE,
            !.seen = <<>>, !.pending = {}, !.paying = NoPay, !.opened = FALSE, !.returned = x.ctx.st = "paid",
            !.crossed = @ \/ \E r \in x.net : r.kind = "write"]

LEMMA OpenedFacts ==
  ASSUME NEW x, IsTab(x), NEW s \in Tickets, NEW p \in Nat, NEW y, y = Opened(x, s, p)
  PROVE  /\ IsTab(y)
         /\ y.at = "review" /\ y.sel = s /\ y.param = p /\ y.mount = x.mount + 1 /\ y.layout = x.layout
         /\ (y.checked <=> p = 0) /\ ~y.asked /\ ~y.attempted /\ ~y.retried /\ ~y.timer /\ ~y.err /\ ~y.over
         /\ ~y.clearing /\ ~y.retrying /\ y.seen = <<>> /\ y.pending = {} /\ y.paying = NoPay
         /\ (y.crossed <=> x.crossed \/ \E r \in x.net : r.kind = "write")
         /\ ~y.opened /\ (y.returned <=> x.ctx.st = "paid")
         /\ y.ctx = x.ctx /\ y.net = x.net /\ y.back = x.back /\ y.gone = x.gone /\ y.quit = x.quit
         /\ y.stray = x.stray /\ y.foreign = x.foreign /\ y.loose = x.loose /\ y.blind = x.blind
<1>1. PICK g \in BOOLEAN : g <=> p = 0
  OBVIOUS
<1>2. PICK f \in BOOLEAN : f <=> x.crossed \/ \E r \in x.net : r.kind = "write"
  OBVIOUS
<1>2a. PICK e \in BOOLEAN : e <=> x.ctx.st = "paid"
  OBVIOUS
<1>3. PICK u : u = [x EXCEPT !.at = "review", !.sel = s, !.param = p, !.mount = @ + 1, !.checked = g,
                             !.asked = FALSE]
  OBVIOUS
<1>4. PICK v : v = [u EXCEPT !.attempted = FALSE, !.retried = FALSE, !.silent = FALSE, !.timer = FALSE]
  OBVIOUS
<1>5. PICK w : w = [v EXCEPT !.err = FALSE, !.over = FALSE, !.clearing = FALSE, !.retrying = FALSE, !.nonce = FALSE]
  OBVIOUS
<1>6. y = [w EXCEPT !.seen = <<>>, !.pending = {}, !.paying = NoPay, !.opened = FALSE, !.returned = e, !.crossed = f]
  <2>1. y = Opened(x, s, p) /\ DOMAIN x = Fields
    BY DEF IsTab
  <2>2. y = [x EXCEPT !.at = "review", !.sel = s, !.param = p, !.mount = @ + 1, !.checked = g,
               !.asked = FALSE, !.attempted = FALSE, !.retried = FALSE, !.silent = FALSE, !.timer = FALSE,
               !.err = FALSE, !.over = FALSE, !.clearing = FALSE, !.retrying = FALSE, !.nonce = FALSE,
               !.seen = <<>>, !.pending = {}, !.paying = NoPay, !.opened = FALSE, !.returned = e, !.crossed = f]
    BY ONLY <1>1, <1>2, <1>2a, <2>1 DEF Opened, Fields
  <2> QED
    BY ONLY <1>3, <1>4, <1>5, <2>1, <2>2 DEF Fields
<1>7. /\ IsTab(u) /\ u.at = "review" /\ u.sel = s /\ u.param = p /\ u.mount = x.mount + 1 /\ u.layout = x.layout
      /\ u.checked = g /\ u.asked = FALSE
      /\ u.ctx = x.ctx /\ u.net = x.net /\ u.back = x.back /\ u.gone = x.gone /\ u.quit = x.quit
      /\ u.stray = x.stray /\ u.foreign = x.foreign /\ u.loose = x.loose /\ u.blind = x.blind
  <2>1. IsTab(x) /\ s \in Tickets /\ p \in Nat /\ g \in BOOLEAN
    OBVIOUS
  <2>2. IsTab(u)
    BY ONLY <1>3, <2>1 DEF IsTab, Fields
  <2> QED
    BY ONLY <1>3, <2>1, <2>2 DEF IsTab, Fields
<1>8. /\ IsTab(v) /\ v.at = u.at /\ v.sel = u.sel /\ v.param = u.param /\ v.mount = u.mount
      /\ v.layout = u.layout
      /\ v.checked = u.checked /\ v.asked = u.asked
      /\ v.attempted = FALSE /\ v.retried = FALSE /\ v.timer = FALSE
      /\ v.ctx = u.ctx /\ v.net = u.net /\ v.back = u.back /\ v.gone = u.gone /\ v.quit = u.quit
      /\ v.stray = u.stray /\ v.foreign = u.foreign /\ v.loose = u.loose /\ v.blind = u.blind
  <2>1. IsTab(u)
    BY <1>7
  <2>2. IsTab(v)
    BY ONLY <1>4, <2>1 DEF IsTab, Fields
  <2> QED
    BY ONLY <1>4, <2>1, <2>2 DEF IsTab, Fields
<1>9. /\ IsTab(w) /\ w.at = v.at /\ w.sel = v.sel /\ w.param = v.param /\ w.mount = v.mount
      /\ w.layout = v.layout
      /\ w.checked = v.checked /\ w.asked = v.asked
      /\ w.attempted = v.attempted /\ w.retried = v.retried /\ w.timer = v.timer
      /\ w.err = FALSE /\ w.over = FALSE /\ w.clearing = FALSE /\ w.retrying = FALSE
      /\ w.ctx = v.ctx /\ w.net = v.net /\ w.back = v.back /\ w.gone = v.gone /\ w.quit = v.quit
      /\ w.stray = v.stray /\ w.foreign = v.foreign /\ w.loose = v.loose /\ w.blind = v.blind
  <2>1. IsTab(v)
    BY <1>8
  <2>2. IsTab(w)
    BY ONLY <1>5, <2>1 DEF IsTab, Fields
  <2> QED
    BY ONLY <1>5, <2>1, <2>2 DEF IsTab, Fields
<1>10. /\ IsTab(y) /\ y.at = w.at /\ y.sel = w.sel /\ y.param = w.param /\ y.mount = w.mount
       /\ y.layout = w.layout
       /\ y.checked = w.checked /\ y.asked = w.asked
       /\ y.attempted = w.attempted /\ y.retried = w.retried /\ y.timer = w.timer
       /\ y.err = w.err /\ y.over = w.over /\ y.clearing = w.clearing /\ y.retrying = w.retrying
       /\ y.seen = <<>> /\ y.pending = {} /\ y.paying = NoPay /\ y.opened = FALSE /\ y.returned = e /\ y.crossed = f
       /\ y.ctx = w.ctx /\ y.net = w.net /\ y.back = w.back /\ y.gone = w.gone /\ y.quit = w.quit
       /\ y.stray = w.stray /\ y.foreign = w.foreign /\ y.loose = w.loose /\ y.blind = w.blind
  <2>1. IsTab(w) /\ f \in BOOLEAN /\ e \in BOOLEAN /\ NoPay \in Nat \X Nat
    BY <1>9 DEF NoPay
  <2>2. IsTab(y)
    BY ONLY <1>6, <2>1 DEF IsTab, Fields
  <2> QED
    BY ONLY <1>6, <2>1, <2>2 DEF IsTab, Fields
<1> QED
  BY ONLY <1>1, <1>2, <1>2a, <1>7, <1>8, <1>9, <1>10

(* A request may be forgotten by the page that sent it; it goes on.        *)
Alike(q, r) ==
  /\ IsRequest(r) /\ r.kind = q.kind /\ r.h = q.h /\ r.for = q.for /\ r.sel = q.sel /\ r.att = q.att
  /\ r.what = q.what /\ r.ans = q.ans /\ r.copy = q.copy /\ r.mount <= q.mount

SameRequests(x, y) ==
  /\ \A r \in y.net : \E q \in x.net : Alike(q, r)
  /\ \A q \in x.net : \E r \in y.net : Alike(q, r)

(* Whatever was open before: the screen that opens knows nothing yet, and  *)
(* shows what Back leads to, or nothing.                                   *)
LEMMA ReviewOpens ==
  ASSUME Good(c, attempts, holds), NEW x, IsTab(x), SameRequests(c, x), x.ctx \in {c.ctx, NoBooking},
         x.back = c.back, x.gone = c.gone, x.stray = c.stray, x.foreign = c.foreign, x.loose = c.loose,
         x.blind = c.blind, x.mount = c.mount, x.crossed = c.crossed, x.quit => c.quit,
         NEW s \in Tickets, NEW p \in 0 .. Len(holds),
         s = None => ~Reviewing(c),
         ~c.stray /\ s # None =>
           /\ p # 0 => holds[p].sel = s
           /\ p = 0 \/ <<s, p>> = Anchor(c)
           /\ x.quit => p # 0
           /\ x.ctx.id # 0 => x.ctx = c.ctx /\ AfterPay(c) /\ c.back = <<s, p>>,
         NEW y, y = Opened(x, s, p)
  PROVE  Ready(y, attempts, holds) /\ y.paying = NoPay
<1>1. /\ Facts(c, attempts, holds) /\ Places(c, holds) /\ Quit(c)
      /\ Numbers(c, attempts, holds) /\ Tags(c, holds) /\ Totals(c, holds) /\ IsTab(c)
      /\ attempts \in [Sels -> Nat] /\ holds \in Seq(HoldType)
  BY GoodFacts
<1>2. /\ IsTab(y)
      /\ y.at = "review" /\ y.sel = s /\ y.param = p /\ y.mount = c.mount + 1
      /\ (y.checked <=> p = 0) /\ ~y.asked /\ ~y.attempted /\ ~y.retried /\ ~y.timer /\ ~y.err /\ ~y.over
      /\ ~y.clearing /\ ~y.retrying /\ y.seen = <<>> /\ y.pending = {} /\ y.paying = NoPay
      /\ (y.crossed <=> c.crossed \/ \E r \in x.net : r.kind = "write")
      /\ ~y.opened /\ (y.returned <=> y.ctx.st = "paid")
      /\ y.ctx = x.ctx /\ y.net = x.net /\ y.back = c.back /\ y.gone = c.gone /\ y.quit = x.quit
      /\ y.stray = c.stray /\ y.foreign = c.foreign /\ y.loose = c.loose /\ y.blind = c.blind
  <2>1. p \in Nat /\ IsTab(x) /\ s \in Tickets /\ y = Opened(x, s, p)
    OBVIOUS
  <2>2. /\ IsTab(y)
        /\ y.at = "review" /\ y.sel = s /\ y.param = p /\ y.mount = x.mount + 1 /\ y.layout = x.layout
        /\ (y.checked <=> p = 0) /\ ~y.asked /\ ~y.attempted /\ ~y.retried /\ ~y.timer /\ ~y.err /\ ~y.over
        /\ ~y.clearing /\ ~y.retrying /\ y.seen = <<>> /\ y.pending = {} /\ y.paying = NoPay
        /\ (y.crossed <=> x.crossed \/ \E r \in x.net : r.kind = "write")
        /\ ~y.opened /\ (y.returned <=> x.ctx.st = "paid")
        /\ y.ctx = x.ctx /\ y.net = x.net /\ y.back = x.back /\ y.gone = x.gone /\ y.quit = x.quit
        /\ y.stray = x.stray /\ y.foreign = x.foreign /\ y.loose = x.loose /\ y.blind = x.blind
    BY ONLY <2>1, OpenedFacts
  <2> QED
    BY <2>2
<1>3. \A r \in y.net : \E q \in c.net : Alike(q, r)
  BY <1>2 DEF SameRequests
<1>4. \A q \in c.net : \E r \in y.net : Alike(q, r)
  BY <1>2 DEF SameRequests
<1>5. \A r \in y.net : r.mount \in Nat /\ r.mount <= c.mount
  <2> SUFFICES ASSUME NEW r \in y.net PROVE r.mount \in Nat /\ r.mount <= c.mount
    OBVIOUS
  <2>1. PICK q \in c.net : Alike(q, r)
    BY <1>3
  <2>2. q.mount <= c.mount /\ q.mount \in Nat /\ c.mount \in Nat /\ r.mount \in Nat
    BY <1>1, <2>1 DEF Facts, RequestFine, IsTab, IsRequest, Alike
  <2> QED
    BY <2>1, <2>2 DEF Alike
<1>6. c.mount \in Nat /\ y.mount # 0 /\ y.mount \in Nat /\ \A r \in y.net : r.mount # y.mount /\ r.mount <= y.mount
  <2>1. c.mount \in Nat
    BY <1>1 DEF IsTab
  <2> QED
    BY <1>2, <1>5, <2>1
<1>7. Own(y) = {} /\ ~AfterPay(y) /\ (Reviewing(y) <=> s # None)
  BY <1>2, <1>6 DEF Own, Mine, AfterPay, Reviewing
<1>8. Facts(y, attempts, holds)
  <2>1. \A r \in y.net : RequestFine(r, y, attempts, holds)
    <3> SUFFICES ASSUME NEW r \in y.net PROVE RequestFine(r, y, attempts, holds)
      OBVIOUS
    <3>1. PICK q \in c.net : Alike(q, r)
      BY <1>3
    <3>2. RequestFine(q, c, attempts, holds)
      BY <1>1 DEF Facts
    <3> QED
      BY <1>6, <3>1, <3>2 DEF RequestFine, Alike
  <2>2. y.ctx.id \in 0 .. Len(holds) /\ y.param \in 0 .. Len(holds) /\ y.paying[1] \in 0 .. Len(holds)
        /\ y.back[2] \in 0 .. Len(holds)
    BY <1>1, <1>2, NoBookingFacts DEF Facts, NoPay
  <2> QED
    BY <1>1, <1>2, <1>6, <2>1, <2>2 DEF Facts
<1>9. Tags(y, holds)
  <2> SUFFICES ASSUME ~y.foreign PROVE Tags(y, holds)
    BY DEF Tags
  <2>1. y.ctx.id # 0 /\ y.ctx.for # None => holds[y.ctx.id].sel = y.ctx.for
    BY <1>1, <1>2, NoBookingFacts DEF Tags
  <2>2. ASSUME NEW r \in Writing(y), r.for # None PROVE holds[r.h].sel = r.for
    <3>1. PICK q \in c.net : Alike(q, r)
      BY <1>3 DEF Writing
    <3> QED
      BY <1>1, <1>2, <2>2, <3>1 DEF Tags, Writing, Alike
  <2> QED
    BY <2>1, <2>2 DEF Tags
<1>10. CASE c.stray
  BY <1>2, <1>8, <1>9, <1>10, StrayIsReady
<1>11. CASE ~c.stray
  <2>1. IF s = None THEN Anchor(y) = c.back /\ Anchor(c) = c.back ELSE Anchor(y) = <<s, p>>
    BY <1>2, <1>7 DEF Anchor
  <2>2. s # None /\ y.ctx.id # 0 => y.ctx.id = p /\ y.ctx.for \in {None, s} /\ y.ctx = c.ctx /\ AfterPay(c)
    BY <1>1, <1>2, <1>11 DEF Places
  <2>3. Places(y, holds)
    BY <1>1, <1>2, <1>7, <1>11, <2>2 DEF Places
  <2>4. Screen(y)
    BY <1>2, <1>7 DEF Screen
  <2>5. Quit(y)
    BY <1>1, <1>2, <1>7, <1>11, <2>1 DEF Quit
  <2>6. Numbers(y, attempts, holds)
    <3> SUFFICES ASSUME ~y.blind PROVE Numbers(y, attempts, holds)
      BY DEF Numbers
    <3>1. \A r \in Creates(y) : r.att = attemptIn(attempts, r.sel)
      <4> SUFFICES ASSUME NEW r \in Creates(y) PROVE r.att = attemptIn(attempts, r.sel)
        OBVIOUS
      <4>1. PICK q \in c.net : Alike(q, r)
        BY <1>3 DEF Creates
      <4> QED
        BY <1>1, <1>2, <1>11, <4>1 DEF Numbers, Creates, Alike
    <3>2. \A h \in DOMAIN holds : Held(y, holds, h) <=> Held(c, holds, h)
      BY <1>2 DEF Held
    <3>3. \A h \in DOMAIN holds : Heard(y, holds, h) => Heard(c, holds, h)
      <4> SUFFICES ASSUME NEW h \in DOMAIN holds, Heard(y, holds, h) PROVE Heard(c, holds, h)
        OBVIOUS
      <4>1. ASSUME NEW q \in Creates(c), Key(q) = Key(holds[h]) PROVE FALSE
        <5>1. PICK r \in y.net : Alike(q, r)
          BY <1>4 DEF Creates
        <5>2. r \in Creates(y) /\ Key(r) = Key(q)
          BY <5>1 DEF Creates, Alike, Key
        <5> QED
          BY <4>1, <5>2 DEF Heard
      <4> QED
        BY <1>2, <4>1 DEF Heard
    <3>4. ASSUME NEW h \in DOMAIN holds, Held(y, holds, h), Heard(y, holds, h), holds[h].sel = Anchor(y)[1]
          PROVE  Anchor(y)[2] \in {0, h}
      <4>1. Anchor(y)[2] = 0 \/ Anchor(y) = Anchor(c)
        BY <1>11, <2>1
      <4>2. Held(c, holds, h) /\ Heard(c, holds, h)
        BY <3>2, <3>3, <3>4
      <4> QED
        BY <1>1, <1>2, <1>11, <3>4, <4>1, <4>2 DEF Numbers
    <3> QED
      BY <1>1, <1>2, <1>7, <1>11, <3>1, <3>2, <3>4 DEF Numbers
  <2>7. Totals(y, holds)
    <3> SUFFICES ASSUME ~y.crossed PROVE Totals(y, holds)
      BY DEF Totals
    <3>1. ~c.crossed /\ Writing(y) = {}
      BY <1>2 DEF Writing
    <3>2. Writing(c) = {}
      <4> SUFFICES ASSUME NEW q \in Writing(c) PROVE FALSE
        OBVIOUS
      <4>1. PICK r \in y.net : Alike(q, r)
        BY <1>4 DEF Writing
      <4> QED
        BY <3>1, <4>1 DEF Writing, Alike
    <3>3. ASSUME s # None, y.ctx.id # 0, ~y.ctx.old, y.ctx.order # 0
          PROVE  y.ctx.order = holds[y.ctx.id].order
      BY <1>1, <1>11, <2>2, <3>1, <3>2, <3>3 DEF Totals
    <3> QED
      BY <1>2, <1>7, <3>1, <3>3 DEF Totals
  <2>8. ScreenReady(y)
    <3>1. Unsettled(y)
      BY <1>2 DEF Unsettled
    <3> QED
      BY <1>2, <1>7, <3>1 DEF ScreenReady, Waits, Asks
  <2> QED
    BY <1>2, <1>8, <1>9, <2>3, <2>4, <2>5, <2>6, <2>7, <2>8 DEF Ready, Common
<1> QED
  BY <1>10, <1>11

-----------------------------------------------------------------------------
(* The picker.                                                             *)

LEMMA PickerReady ==
  ASSUME Good(c, attempts, holds), NEW y, IsTab(y), y.at = "picker", y.net = c.net, y.gone = c.gone,
         y.back = c.back, y.stray = c.stray, y.foreign = c.foreign, y.loose = c.loose, y.blind = c.blind,
         y.quit = c.quit, y.opened = c.opened, y.returned = c.returned, y.crossed = c.crossed, y.mount = c.mount, y.ctx \in {c.ctx, NoBooking},
         y.paying = NoPay, y.param \in 0 .. Len(holds),
         ~c.stray => y.param = 0 /\ (y.ctx.id = 0 \/ ~y.releasing)
  PROVE  Ready(y, attempts, holds)
<1>1. /\ Facts(c, attempts, holds) /\ Places(c, holds) /\ ScreenSettled(c) /\ Quit(c)
      /\ Numbers(c, attempts, holds) /\ Tags(c, holds) /\ Totals(c, holds) /\ IsTab(c)
      /\ attempts \in [Sels -> Nat] /\ holds \in Seq(HoldType) /\ (c.at = "review" => Reviewing(c))
  BY GoodFacts
<1>2. /\ ~Reviewing(y) /\ ~AfterPay(y) /\ Anchor(y) = c.back /\ Anchor(c) = c.back /\ Own(y) = {}
      /\ Creates(y) = Creates(c) /\ Writing(y) = Writing(c)
  BY <1>1 DEF Reviewing, AfterPay, Anchor, Own, Mine, Creates, Writing, ScreenSettled
<1>3. Facts(y, attempts, holds)
  <2>1. Later(attempts)
    BY <1>1 DEF Later, attemptIn
  <2>2. y.ctx.id \in 0 .. Len(holds) /\ y.paying[1] \in 0 .. Len(holds)
    BY <1>1, NoBookingFacts DEF Facts, NoPay
  <2> QED
    BY <1>1, <1>2, <2>1, <2>2, FactsKept
<1>4. Places(y, holds)
  BY <1>1, <1>2 DEF Places
<1>5. Screen(y) /\ ScreenReady(y)
  BY <1>2 DEF Screen, ScreenReady
<1>6. Quit(y)
  BY <1>1, <1>2 DEF Quit
<1>7. Numbers(y, attempts, holds)
  BY <1>1, <1>2, NumbersStay
<1>8. Tags(y, holds)
  BY <1>1, <1>2, NoBookingFacts DEF Tags
<1>9. Totals(y, holds)
  BY <1>1, <1>2 DEF Totals
<1> QED
  BY <1>3, <1>4, <1>5, <1>6, <1>7, <1>8, <1>9 DEF Ready, Common

LEMMA NewLayoutFacts ==
  ASSUME NEW x, IsTab(x), NEW y, y = NewLayout(x)
  PROVE  /\ IsTab(y) /\ SameGate(x, y) /\ SameFace(x, y) /\ SameMoney(x, y) /\ SamePast(x, y)
         /\ y.at = x.at /\ y.sel = x.sel /\ y.param = x.param /\ y.mount = x.mount /\ y.ctx = NoBooking
         /\ y.back = x.back /\ y.gone = x.gone /\ y.net = x.net /\ y.stray = x.stray
         /\ y.releasing = x.releasing
<1>1. y = [x EXCEPT !.layout = @ + 1, !.ctx = NoBooking]
  BY DEF NewLayout
<1>2. IsTab(y)
  BY <1>1, NoBookingFacts DEF IsTab, Fields
<1>3. SameGate(x, y) /\ SameFace(x, y) /\ SameMoney(x, y) /\ SamePast(x, y)
  BY <1>1 DEF IsTab, Fields, SameGate, SameFace, SameMoney, SamePast
<1> QED
  BY <1>1, <1>2, <1>3 DEF IsTab, Fields

LEMMA PickerOpens ==
  ASSUME Good(c, attempts, holds), NEW x, x = c \/ x = NewLayout(c), NEW s \in Tickets,
         OpenPicker(x, s, 0), UNCHANGED <<attempts, holds>>
  PROVE  Kept
<1>1. IsTab(c) /\ holds \in Seq(HoldType)
  BY GoodFacts
<1>2. /\ IsTab(x) /\ x.net = c.net /\ x.gone = c.gone
      /\ x.back = c.back /\ x.stray = c.stray /\ x.foreign = c.foreign /\ x.loose = c.loose /\ x.blind = c.blind
      /\ x.quit = c.quit /\ x.opened = c.opened /\ x.returned = c.returned /\ x.crossed = c.crossed
      /\ x.mount = c.mount /\ x.ctx \in {c.ctx, NoBooking}
  <2>1. CASE x = c
    BY <1>1, <2>1
  <2>2. CASE x = NewLayout(c)
    BY <1>1, <2>2, NewLayoutFacts DEF SameMoney, SamePast
  <2> QED
    BY <2>1, <2>2
<1>3. PICK y : y = [x EXCEPT !.at = "picker", !.sel = s, !.param = 0, !.releasing = FALSE, !.paying = NoPay]
  OBVIOUS
<1>4. IsTab(y)
  <2>1. IsTab(x) /\ s \in Tickets /\ NoPay \in Nat \X Nat
    BY <1>2 DEF NoPay
  <2> QED
    BY ONLY <1>3, <2>1 DEF IsTab, Fields
<1>5. /\ y.at = "picker" /\ y.net = x.net /\ y.gone = x.gone
      /\ y.back = x.back /\ y.stray = x.stray /\ y.foreign = x.foreign /\ y.loose = x.loose /\ y.blind = x.blind
      /\ y.quit = x.quit /\ y.opened = x.opened /\ y.returned = x.returned /\ y.crossed = x.crossed
      /\ y.mount = x.mount /\ y.ctx = x.ctx
      /\ y.paying = NoPay /\ y.param = 0 /\ ~y.releasing
  <2>1. IsTab(x)
    BY <1>2
  <2> QED
    BY ONLY <1>3, <2>1 DEF IsTab, Fields
<1>6. Ready(y, attempts, holds)
  <2>1. y.param \in 0 .. Len(holds)
    BY <1>1, <1>5
  <2> QED
    BY <1>2, <1>4, <1>5, <2>1, PickerReady
<1>7. c' = Settle(y, attempts')
  BY <1>3 DEF OpenPicker, Become
<1> QED
  BY <1>1, <1>5, <1>6, <1>7, SameHoldsFacts, Finish

LEMMA ChooseKept ==
  ASSUME Good(c, attempts, holds), c.paying = NoPay, NEW s \in Sels, Choose(s)
  PROVE  Kept
<1>1. /\ Facts(c, attempts, holds) /\ Places(c, holds) /\ ScreenSettled(c) /\ IsTab(c)
      /\ attempts \in [Sels -> Nat] /\ holds \in Seq(HoldType) /\ attempts' = attempts /\ holds' = holds
      /\ s \in Tickets /\ c.at \in {"out", "picker"}
  BY GoodFacts DEF Choose, Here, Tickets
<1>2. CASE c.at = "out"
  <2>1. PICK x : x = NewLayout(c)
    OBVIOUS
  <2>2. OpenPicker(x, s, 0)
    BY <1>2, <2>1 DEF Choose
  <2> QED
    BY <1>1, <2>1, <2>2, PickerOpens
<1>3. CASE c.at = "picker"
  <2>1. PICK y : y = [c EXCEPT !.sel = s]
    OBVIOUS
  <2>2. IsTab(y)
    BY <1>1, <2>1 DEF IsTab, Fields
  <2>3. /\ y.at = "picker" /\ y.net = c.net /\ y.gone = c.gone
        /\ y.back = c.back /\ y.stray = c.stray /\ y.foreign = c.foreign /\ y.loose = c.loose
        /\ y.blind = c.blind
        /\ y.quit = c.quit /\ y.opened = c.opened /\ y.returned = c.returned /\ y.crossed = c.crossed
        /\ y.mount = c.mount /\ y.ctx = c.ctx
        /\ y.paying = NoPay /\ y.param = c.param
    BY <1>1, <1>3, <2>1 DEF IsTab, Fields
  <2>4. y.param \in 0 .. Len(holds) /\ (~c.stray => y.param = 0 /\ y.ctx.id = 0)
    BY <1>1, <1>3, <2>3 DEF Facts, Places, ScreenSettled
  <2>5. Ready(y, attempts, holds)
    BY <2>2, <2>3, <2>4, PickerReady
  <2>6. c' = Settle(y, attempts')
    BY <1>1, <1>3, <2>1 DEF Choose, Become
  <2> QED
    BY <1>1, <2>3, <2>5, <2>6, SameHoldsFacts, Finish
<1> QED
  BY <1>1, <1>2, <1>3

LEMMA ChangeKept ==
  ASSUME Good(c, attempts, holds), Change
  PROVE  Kept
<1>1. c.sel \in Tickets /\ OpenPicker(c, c.sel, 0) /\ UNCHANGED <<attempts, holds>>
  BY GoodFacts DEF Change, Here, IsTab
<1>2. PICK x, s : x = c /\ s = c.sel
  OBVIOUS
<1>3. OpenPicker(x, s, 0) /\ s \in Tickets /\ x = c
  BY <1>1, <1>2
<1> QED
  BY <1>1, <1>3, PickerOpens

-----------------------------------------------------------------------------
(* The ways to a review screen.                                            *)

LEMMA SameNet ==
  ASSUME IsTab(c), NEW x, x.net = c.net
  PROVE  SameRequests(c, x)
<1>1. \A r \in c.net : Alike(r, r)
  BY DEF IsTab, IsRequest, Alike
<1> QED
  BY <1>1 DEF SameRequests

LEMMA OpenReviewKept ==
  ASSUME Good(c, attempts, holds), NEW x, NEW s, NEW p, OpenReview(x, s, p), UNCHANGED <<attempts, holds>>,
         Ready(Opened(x, s, p), attempts, holds) /\ Opened(x, s, p).paying = NoPay
  PROVE  Kept
<1>1. holds \in Seq(HoldType)
  BY GoodFacts
<1>2. PICK y : y = Opened(x, s, p)
  OBVIOUS
<1>3. c' = Settle(y, attempts')
  BY <1>2 DEF OpenReview, Opened, Become
<1> QED
  BY <1>1, <1>2, <1>3, SameHoldsFacts, Finish

LEMMA AdvanceKept ==
  ASSUME Good(c, attempts, holds), advance
  PROVE  Kept
<1>1. /\ Facts(c, attempts, holds) /\ Places(c, holds) /\ ScreenSettled(c) /\ IsTab(c)
      /\ holds \in Seq(HoldType) /\ UNCHANGED <<attempts, holds>> /\ c.at = "picker"
  BY GoodFacts DEF advance, Here
<1>2. PICK x, s, p : x = [c EXCEPT !.quit = FALSE] /\ s = c.sel /\ p = c.param
  OBVIOUS
<1>3. OpenReview(x, s, p) /\ s # None /\ s \in Tickets /\ p \in 0 .. Len(holds)
  BY <1>1, <1>2 DEF advance, Facts, IsTab
<1>4. IsTab(x)
  BY <1>1, <1>2 DEF IsTab, Fields
<1>5. /\ x.net = c.net /\ x.ctx = c.ctx /\ x.back = c.back /\ x.gone = c.gone /\ x.stray = c.stray
      /\ x.foreign = c.foreign /\ x.loose = c.loose /\ x.blind = c.blind /\ x.mount = c.mount
      /\ x.crossed = c.crossed /\ ~x.quit
  BY <1>1, <1>2 DEF IsTab, Fields
<1>6. ~c.stray => p = 0 /\ x.ctx.id = 0
  BY <1>1, <1>2, <1>5 DEF Places, ScreenSettled
<1>7. SameRequests(c, x)
  BY <1>1, <1>5, SameNet
<1>8. PICK y : y = Opened(x, s, p)
  OBVIOUS
<1>9. Ready(y, attempts, holds) /\ y.paying = NoPay
  BY <1>3, <1>4, <1>5, <1>6, <1>7, <1>8, ReviewOpens
<1> QED
  BY <1>1, <1>3, <1>8, <1>9, OpenReviewKept

LEMMA GoesBack ==
  ASSUME Good(c, attempts, holds), NEW x,
         (c.at \in {"failed", "picker", "confirmation"} /\ (c.at = "confirmation" => ~c.fromList) /\ x = c) \/ (c.at = "out" /\ x = NewLayout(c)),
         OpenReview(x, c.back[1], c.back[2]), UNCHANGED <<attempts, holds>>
  PROVE  Kept
<1>1. /\ Facts(c, attempts, holds) /\ Places(c, holds) /\ ScreenSettled(c) /\ Quit(c) /\ IsTab(c)
      /\ holds \in Seq(HoldType)
  BY GoodFacts
<1>2. PICK s, p : s = c.back[1] /\ p = c.back[2]
  OBVIOUS
<1>3. OpenReview(x, s, p) /\ s \in Tickets /\ p \in 0 .. Len(holds) /\ <<s, p>> = c.back
  BY <1>1, <1>2 DEF Facts, IsTab
<1>4. /\ IsTab(x) /\ x.net = c.net /\ x.gone = c.gone
      /\ x.back = c.back /\ x.stray = c.stray /\ x.foreign = c.foreign /\ x.loose = c.loose /\ x.blind = c.blind
      /\ x.quit = c.quit /\ x.opened = c.opened /\ x.returned = c.returned /\ x.crossed = c.crossed
      /\ x.mount = c.mount
      /\ (x.ctx = c.ctx /\ c.at # "out") \/ x.ctx = NoBooking
  <2>1. CASE x = c /\ c.at # "out"
    BY <1>1, <2>1
  <2>2. CASE x = NewLayout(c)
    BY <1>1, <2>2, NewLayoutFacts DEF SameMoney, SamePast
  <2> QED
    BY <2>1, <2>2
<1>5. ~Reviewing(c) /\ Anchor(c) = c.back
  BY DEF Reviewing, Anchor
<1>6. ~c.stray => /\ p # 0 => holds[p].sel = s
                  /\ x.quit => p # 0
                  /\ x.ctx.id # 0 => x.ctx = c.ctx /\ AfterPay(c) /\ c.back = <<s, p>>
  <2> SUFFICES ASSUME ~c.stray
               PROVE  /\ p # 0 => holds[p].sel = s
                      /\ x.quit => p # 0
                      /\ x.ctx.id # 0 => x.ctx = c.ctx /\ AfterPay(c) /\ c.back = <<s, p>>
    OBVIOUS
  <2>1. p # 0 => holds[p].sel = s
    BY <1>1, <1>2 DEF Places
  <2>2. x.quit => p # 0
    BY <1>1, <1>2, <1>4, <1>5 DEF Quit
  <2>3. x.ctx.id # 0 => x.ctx = c.ctx /\ (c.at = "failed" \/ (c.at = "confirmation" /\ ~c.fromList))
    BY <1>1, <1>4, NoBookingFacts DEF ScreenSettled
  <2> QED
    BY <1>3, <2>1, <2>2, <2>3 DEF AfterPay
<1>7. SameRequests(c, x)
  BY <1>1, <1>4, SameNet
<1>8. PICK y : y = Opened(x, s, p)
  OBVIOUS
<1>9. Ready(y, attempts, holds) /\ y.paying = NoPay
  BY <1>3, <1>4, <1>5, <1>6, <1>7, <1>8, ReviewOpens
<1> QED
  BY <1>3, <1>8, <1>9, OpenReviewKept

LEMMA BrowserBackKept ==
  ASSUME Good(c, attempts, holds), BrowserBack
  PROVE  Kept
<1>1. c.sel \in Tickets /\ IsTab(c) /\ UNCHANGED <<attempts, holds>>
  BY GoodFacts DEF BrowserBack, Here, IsTab
<1>2. CASE OpenPicker(c, c.sel, 0)
  <2>1. PICK x, s : x = c /\ s = c.sel
    OBVIOUS
  <2>2. OpenPicker(x, s, 0) /\ s \in Tickets /\ x = c
    BY <1>1, <1>2, <2>1
  <2> QED
    BY <1>1, <2>2, PickerOpens
<1>3. CASE /\ c.at \in {"failed", "picker", "confirmation"} /\ (c.at = "confirmation" => ~c.fromList)
           /\ OpenReview(c, c.back[1], c.back[2])
  <2>1. PICK x : x = c
    OBVIOUS
  <2>2. OpenReview(x, c.back[1], c.back[2])
    BY <1>3, <2>1
  <2> QED
    BY <1>1, <1>3, <2>1, <2>2, GoesBack
<1>4. CASE c.at = "out" /\ OpenReview(NewLayout(c), c.back[1], c.back[2])
  <2>1. PICK x : x = NewLayout(c)
    OBVIOUS
  <2>2. OpenReview(x, c.back[1], c.back[2])
    BY <1>4, <2>1
  <2> QED
    BY <1>1, <1>4, <2>1, <2>2, GoesBack
<1> QED
  BY <1>2, <1>3, <1>4 DEF BrowserBack

Forgotten(r) == [r EXCEPT !.layout = 0, !.mount = 0]

LEMMA ReloadKept ==
  ASSUME Good(c, attempts, holds), Reload
  PROVE  Kept
<1>1. /\ Facts(c, attempts, holds) /\ Places(c, holds) /\ ScreenSettled(c) /\ Quit(c) /\ IsTab(c)
      /\ holds \in Seq(HoldType) /\ UNCHANGED <<attempts, holds>> /\ Reviewing(c)
  BY GoodFacts DEF Reload, Here
<1>2. PICK l : l = NewLayout(c)
  OBVIOUS
<1>3. PICK n : n = {Forgotten(r) : r \in c.net}
  OBVIOUS
<1>4. PICK x, s, p : x = [l EXCEPT !.net = n] /\ s = c.sel /\ p = c.param
  OBVIOUS
<1>5. /\ IsTab(l) /\ l.net = c.net /\ l.gone = c.gone
      /\ l.back = c.back /\ l.stray = c.stray /\ l.foreign = c.foreign /\ l.loose = c.loose /\ l.blind = c.blind
      /\ l.quit = c.quit /\ l.opened = c.opened /\ l.returned = c.returned /\ l.crossed = c.crossed
      /\ l.mount = c.mount /\ l.ctx = NoBooking
  BY <1>1, <1>2, NewLayoutFacts DEF SameMoney, SamePast
<1>6. \A q \in c.net : Alike(q, Forgotten(q))
  <2> SUFFICES ASSUME NEW q \in c.net PROVE Alike(q, Forgotten(q))
    OBVIOUS
  <2>1. PICK r : r = Forgotten(q)
    OBVIOUS
  <2>2. IsRequest(q)
    BY <1>1 DEF IsTab
  <2>3. IsRequest(r)
    BY <2>1, <2>2 DEF IsRequest, RequestFields, Forgotten
  <2>4. Alike(q, r)
    BY <2>1, <2>2, <2>3 DEF Alike, IsRequest, RequestFields, Forgotten
  <2> QED
    BY <2>1, <2>4
<1>7. \A r \in n : IsRequest(r)
  BY <1>3, <1>6 DEF Alike
<1>8. IsTab(x)
  BY ONLY <1>4, <1>5, <1>7 DEF IsTab, Fields
<1>9. /\ x.net = n /\ x.gone = c.gone
      /\ x.back = c.back /\ x.stray = c.stray /\ x.foreign = c.foreign /\ x.loose = c.loose /\ x.blind = c.blind
      /\ x.quit = c.quit /\ x.opened = c.opened /\ x.returned = c.returned /\ x.crossed = c.crossed
      /\ x.mount = c.mount /\ x.ctx = NoBooking /\ x.ctx.id = 0
  BY <1>4, <1>5, NoBookingFacts DEF IsTab, Fields
<1>10. SameRequests(c, x)
  <2>0. x.net = n
    BY <1>9
  <2>1. ASSUME NEW r \in x.net PROVE \E q \in c.net : Alike(q, r)
    <3>1. PICK q \in c.net : r = Forgotten(q)
      BY ONLY <1>3, <2>1, <2>0
    <3> QED
      BY <1>6, <3>1
  <2>2. ASSUME NEW q \in c.net PROVE \E r \in x.net : Alike(q, r)
    <3>1. Forgotten(q) \in x.net
      BY ONLY <1>3, <2>0, <2>2
    <3> QED
      BY <1>6, <2>2, <3>1
  <2> QED
    BY <2>1, <2>2 DEF SameRequests
<1>11. s \in Tickets /\ s # None /\ p \in 0 .. Len(holds) /\ Anchor(c) = <<s, p>>
  BY <1>1, <1>4 DEF Facts, IsTab, Reviewing, Anchor
<1>12. ~c.stray => (p # 0 => holds[p].sel = s) /\ (x.quit => p # 0)
  BY <1>1, <1>4, <1>9, <1>11 DEF Places, Quit
<1>13. PICK y : y = Opened(x, s, p)
  OBVIOUS
<1>14. Ready(y, attempts, holds) /\ y.paying = NoPay
  BY <1>8, <1>9, <1>10, <1>11, <1>12, <1>13, ReviewOpens
<1>15. OpenReview(x, s, p)
  <2>1. l.net = c.net
    BY <1>5
  <2> QED
    BY <1>2, <1>3, <1>4, <2>1 DEF Reload, Forgotten
<1> QED
  BY <1>1, <1>13, <1>14, <1>15, OpenReviewKept

LEMMA BackToReviewKept ==
  ASSUME Good(c, attempts, holds), BackToReview
  PROVE  Kept
<1>1. /\ Facts(c, attempts, holds) /\ IsTab(c) /\ holds \in Seq(HoldType) /\ UNCHANGED <<attempts, holds>>
      /\ ~Reviewing(c)
  BY GoodFacts DEF BackToReview, Here, Reviewing
<1>2. PICK x, s, p : x = c /\ s = None /\ p = 0
  OBVIOUS
<1>3. OpenReview(x, s, p) /\ s \in Tickets /\ p \in 0 .. Len(holds)
  BY <1>1, <1>2 DEF BackToReview, Tickets
<1>4. /\ IsTab(x) /\ x.net = c.net /\ x.gone = c.gone
      /\ x.back = c.back /\ x.stray = c.stray /\ x.foreign = c.foreign /\ x.loose = c.loose /\ x.blind = c.blind
      /\ x.quit = c.quit /\ x.opened = c.opened /\ x.returned = c.returned /\ x.crossed = c.crossed
      /\ x.mount = c.mount /\ x.ctx = c.ctx
  BY <1>1, <1>2
<1>5. SameRequests(c, x)
  BY <1>1, <1>4, SameNet
<1>6. PICK y : y = Opened(x, s, p)
  OBVIOUS
<1>7. Ready(y, attempts, holds) /\ y.paying = NoPay
  BY <1>1, <1>2, <1>3, <1>4, <1>5, <1>6, ReviewOpens
<1> QED
  BY <1>1, <1>3, <1>6, <1>7, OpenReviewKept

-----------------------------------------------------------------------------
(* The specification.                                                      *)

CheckoutInv == Good(c, attempts, holds)

LEMMA FreshIsGood == Init => CheckoutInv
<1> SUFFICES ASSUME Init PROVE Good(c, attempts, holds)
  BY DEF CheckoutInv
<1>1. attempts \in [Sels -> Nat] /\ holds = <<>> /\ c = Fresh
  BY DEF Init
<1>2. /\ holds \in Seq(HoldType) /\ DOMAIN holds = {} /\ Len(holds) = 0
  BY <1>1
<1>3. IsTab(c)
  <2>1. /\ DOMAIN c = Fields /\ c.at = "out" /\ c.sel = None /\ c.param = 0 /\ c.layout = 0 /\ c.mount = 0
        /\ c.ctx = NoBooking /\ c.paying = NoPay /\ c.back = <<None, 0>> /\ c.net = {} /\ c.gone = {}
    BY <1>1 DEF Fresh, Fields
  <2>2. {c.checked, c.asked, c.attempted, c.retried, c.silent, c.timer, c.err, c.over, c.clearing,
         c.retrying, c.releasing, c.nonce, c.fromList, c.quit, c.opened, c.returned, c.stray, c.foreign,
         c.crossed, c.blind} \subseteq BOOLEAN
    BY <1>1 DEF Fresh
  <2> QED
    BY <2>1, <2>2, NoBookingFacts DEF IsTab, Tickets, NoPay
<1>4. /\ c.at = "out" /\ c.ctx = NoBooking /\ c.ctx.id = 0 /\ c.param = 0 /\ c.paying = NoPay /\ c.back = <<None, 0>>
      /\ c.net = {} /\ c.gone = {} /\ ~c.quit /\ ~c.foreign
  BY <1>1, NoBookingFacts DEF Fresh
<1>5. ~Reviewing(c) /\ ~AfterPay(c) /\ Own(c) = {} /\ Creates(c) = {} /\ Writing(c) = {}
  BY <1>4 DEF Reviewing, AfterPay, Own, Creates, Writing
<1>6. Facts(c, attempts, holds)
  BY <1>1, <1>2, <1>3, <1>4 DEF Facts, OneLive, NoPay
<1>7. Places(c, holds)
  BY <1>4, <1>5 DEF Places
<1>8. Screen(c) /\ ScreenSettled(c) /\ Clears(c, holds) /\ Quit(c)
  BY <1>4, <1>5 DEF Screen, ScreenSettled, Clears, Quit
<1>9. Numbers(c, attempts, holds)
  BY <1>2, <1>5 DEF Numbers
<1>10. Tags(c, holds) /\ Totals(c, holds)
  BY <1>4, <1>5 DEF Tags, Totals
<1> QED
  BY <1>6, <1>7, <1>8, <1>9, <1>10 DEF Good, Common

LEMMA NetworkKept ==
  ASSUME Good(c, attempts, holds), Network
  PROVE  Kept
<1>1. PICK r \in c.net :
        \/ ServerCreate(r) \/ ServerWrite(r)
        \/ CreateAnswer(r) \/ CheckAnswer(r) \/ WriteAnswer(r) \/ ReadAnswer(r)
        \/ \E arrives \in BOOLEAN : CancelAnswer(r, arrives)
        \/ Lost(r)
  BY DEF Network
<1> QED
  BY <1>1, ServerCreateKept, ServerWriteKept, CreateAnswerKept, CheckAnswerKept, WriteAnswerKept,
     ReadAnswerKept, CancelAnswerKept, LostKept

LEMMA PersonKept ==
  ASSUME Good(c, attempts, holds), Person
  PROVE  Kept
<1>1. CASE BrowserBack \/ Reload \/ Outcome
  BY <1>1, BrowserBackKept, ReloadKept, OutcomeKept
<1>2. CASE c.paying = NoPay /\ \E s \in Sels : Choose(s)
  BY <1>2, ChooseKept
<1>3. CASE c.paying = NoPay /\ (advance \/ Change \/ leave \/ retryHold)
  BY <1>3, AdvanceKept, ChangeKept, LeaveKept, RetryHoldKept
<1>4. CASE c.paying = NoPay /\ \E k \in Writes : changeTotal(k)
  BY <1>4, ChangeTotalKept
<1>5. CASE c.paying = NoPay /\ (pay \/ payAgain \/ BackToReview)
  BY <1>5, PayKept, PayAgainKept, BackToReviewKept
<1>6. CASE c.paying = NoPay /\ LeaveForGood
  BY <1>6, GoesOut DEF LeaveForGood, Here
<1>7. CASE c.paying = NoPay /\ \E h \in DOMAIN holds : OpenFromList(h)
  BY <1>7, OpenFromListKept
<1> QED
  BY <1>1, <1>2, <1>3, <1>4, <1>5, <1>6, <1>7 DEF Person

LEMMA NextKept == CheckoutInv /\ Next => Kept
<1> SUFFICES ASSUME Good(c, attempts, holds), Next PROVE Kept
  BY DEF CheckoutInv
<1>1. CASE Network
  BY <1>1, NetworkKept
<1>2. CASE SilentRetry \/ expireHold \/ Poll \/ PaidAfterAll
  BY <1>2, SilentRetryKept, ExpireHoldKept, PollKept, PaidAfterAllKept
<1>3. CASE \E h \in DOMAIN holds : Lapse(h) \/ Confirm(h)
  BY <1>3, EndsKept
<1>4. CASE Person
  BY <1>4, PersonKept
<1> QED
  BY <1>1, <1>2, <1>3, <1>4 DEF Next

(* Every state of every behaviour satisfies the invariant, and every step  *)
(* that opens the payment opens it right.                                  *)
THEOREM Invariance == Spec => []CheckoutInv
<1>1. CheckoutInv /\ [Next]_vars => CheckoutInv'
  <2>1. CheckoutInv /\ Next => CheckoutInv'
    BY NextKept DEF Kept, CheckoutInv
  <2>2. CheckoutInv /\ UNCHANGED vars => CheckoutInv'
    BY DEF CheckoutInv, vars
  <2> QED
    BY <2>1, <2>2
<1> QED
  BY <1>1, FreshIsGood, PTL DEF Spec

(* Bookings, attempt numbers and the screen keep their types; two live     *)
(* holds never share an idempotency key (the server replays a reserve that *)
(* repeats one); and the effects of a review screen have one check or one  *)
(* reserve in flight, however often they run: CheckoutTypeOK.              *)
THEOREM CheckoutTypes == Spec => []CheckoutTypeOK
<1>1. CheckoutInv => CheckoutTypeOK
  <2> SUFFICES ASSUME Good(c, attempts, holds) PROVE CheckoutTypeOK
    BY DEF CheckoutInv
  <2>1. Facts(c, attempts, holds) /\ Screen(c) /\ IsTab(c) /\ (c.at = "review" => Reviewing(c))
    BY GoodFacts
  <2>2. {c.ctx.id, c.param, c.paying[1]} \subseteq 0 .. Len(holds) /\ attempts \in [Sels -> Nat]
    BY <2>1 DEF Facts
  <2>3. \A g, h \in DOMAIN holds :
          IsLive(g) /\ IsLive(h) /\ holds[g].sel = holds[h].sel /\ holds[g].att = holds[h].att => g = h
    BY <2>1 DEF Facts, OneLive, Live, IsLive
  <2>4. ASSUME NEW q \in c.net, NEW r \in c.net, {q.kind, r.kind} \subseteq {"check", "create"}, Mine(c, q), Mine(c, r)
        PROVE  c.stray \/ q = r
    BY <2>1, <2>4 DEF Screen, Own, Mine
  <2> QED
    BY <2>1, <2>2, <2>3, <2>4 DEF CheckoutTypeOK, IsTab
<1> QED
  BY <1>1, Invariance, PTL

(* Leaving, giving up, expiry, reloads and retries leave no seats held for *)
(* nobody: a live hold is shown, was cancelled, or is what the next        *)
(* reserve of these tickets is answered with.  A lost answer alone changes *)
(* nothing of that.  It is not claimed of the histories in which the code  *)
(* does forget a hold: a number was moved on under which a reserve was     *)
(* unanswered or unheard of, or that belonged to other tickets (blind),    *)
(* and an answer that came to a screen that was left (stray).  That is     *)
(* NoForgottenHold.                                                        *)
THEOREM HoldsAccountedFor == Spec => []NoForgottenHold
<1>1. CheckoutInv => NoForgottenHold
  BY GoodFacts DEF CheckoutInv, NoForgottenHold, Numbers, Held, Live, IsLive, attemptFor
<1> QED
  BY <1>1, Invariance, PTL

(* A hold that the review screen shows - just reserved, read again after a *)
(* write, come late, or left in the context by another screen - is on the  *)
(* tickets in its URL, or is being given back: ShowsWhatWasChosen.  It is  *)
(* not claimed once a hold in the URL was adopted whose tickets are others *)
(* (foreign): the code shows those under the selection of the screen.      *)
THEOREM ShowsTheChoiceUnlessForeign == Spec => []ShowsWhatWasChosen
<1>1. CheckoutInv => ShowsWhatWasChosen
  BY GoodFacts DEF CheckoutInv, ShowsWhatWasChosen, Shown, Clears, Tags
<1> QED
  BY <1>1, Invariance, PTL

(* A review screen that shows neither hold, failure nor expiry has a retry *)
(* timer or a request of its own in flight: LoaderEnds.  It is not claimed *)
(* of the screen that the code leaves without either, which asked anew     *)
(* after its reserve was answered with a hold that has ended (retried),    *)
(* nor after an answer to a screen that was left (stray).                  *)
THEOREM LoaderWaitsUnlessRetried == Spec => []LoaderEnds
<1>1. CheckoutInv => LoaderEnds
  BY GoodFacts DEF CheckoutInv, LoaderEnds, ScreenSettled, Waits, Own
<1> QED
  BY <1>1, Invariance, PTL

(* The provider is opened on the order that the booking has now, and from  *)
(* the review screen not for a booking known to be paid, after any number  *)
(* of donations, codes, failed orders, re-reads and repairs:               *)
(* PaysTheCurrentTotal, of every step.  It is not claimed where the code   *)
(* opens another: a write overtaken, or its answer lost (crossed) or late  *)
(* (stray); a re-read that failed, or another gateway that got no order    *)
(* (old); another gateway under way; and a paid booking that Back or a     *)
(* re-read brought to the screen (returned).                               *)
THEOREM OpensTheCurrentOrder == Spec => PaysTheCurrentTotal
<1>1. CheckoutInv /\ [Next]_vars =>
        [c'.paying # c.paying /\ c'.paying # NoPay =>
           \/ c.crossed \/ c.stray \/ c.ctx.old \/ "gateway" \in c.pending
           \/ /\ holds[c'.paying[1]].order = c'.paying[2]
              /\ c.at = "review" => c.ctx.st # "paid" \/ c.returned]_vars
  BY NextKept DEF Kept, PaysRight
<1> QED
  BY <1>1, Invariance, PTL DEF Spec, PaysTheCurrentTotal

(* After somebody gave up a live hold, Back and reload reserve nothing     *)
(* anew: NoZombieReserve, of every step.  It is not claimed of the screen  *)
(* whose check of the hold in its URL failed, which reserves all the same  *)
(* (opened), nor after an answer to a screen that was left (stray).        *)
THEOREM NoZombie == Spec => NoZombieReserve
<1>1. CheckoutInv' /\ [Next]_vars =>
        [\A r \in c'.net \ c.net : r.kind = "create" /\ Mine(c', r) /\ r.ans = "sent"
                                     => ~c'.quit \/ c'.opened \/ c'.stray]_vars
  <2> SUFFICES ASSUME Good(c', attempts', holds'), NEW r \in c'.net, r.kind = "create", Mine(c', r)
               PROVE  ~c'.quit \/ c'.opened \/ c'.stray
    BY DEF CheckoutInv
  <2>1. PICK x, a, hs : x = c' /\ a = attempts' /\ hs = holds'
    OBVIOUS
  <2>2. Quit(x) /\ (x.at = "review" => Reviewing(x))
    BY <2>1, GoodFacts
  <2> QED
    BY <2>1, <2>2 DEF Quit, Own, Mine
<1> QED
  BY <1>1, Invariance, PTL DEF Spec, NoZombieReserve
=============================================================================
